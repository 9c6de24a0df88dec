# CozySSH: a verification project

CozySSH is a terminal for local shells and SSH hosts that runs in the browser. A Go
server keeps the shells and the SSH connections alive, a React application shows them in
tabs and panes. This directory holds TLA+ modules that model its components, TLC
configurations that check them on small instances, and proofs checked by TLAPS. Paths
below are those of the repository.

    tlc -config SessionSafety.cfg MCSessionLifecycle.tla
    tlc -config Browser.cfg MCBrowser.tla
    tlapm SessionLifecycle_proofs.tla

## 1. The system

| Component | State | Operations | Interacts with |
|---|---|---|---|
| Session registry (`session/session.go`) and terminal WebSockets (`ws/ws.go`) | `sessions` and `disconnectTimers` by id under `m.mu`; in each session its listeners, tab state and output buffer under `s.mu` | add, remove, steal, attach, leave, pin/lock/hide/unpin, close, log out; one read goroutine (`run`) per session that retries after errors; one handler per WebSocket | SSH pool (`CloseFunc`, `RetryFunc`), browser terminal, `/api/sessions` |
| Local shells and shell integration (`localpty/`) | a PTY per session; the marker filter's pending bytes | start, resize, close, filter | session registry |
| SSH client pool and port forwarding (`sshmanager/client.go`, `portforward.go`) | `PooledClient.Refs`, the tunnel registry, listeners | dial, clone, release, set up and remove forwardings, keepalive | sessions, commands, file browser |
| SSH hosts, known_hosts, copy-id (`sshmanager/client.go`, `sshfp.go`, `Sidebar.tsx`) | `~/.ssh/config`, `known_hosts`; in each window a copy of the hosts and groups | add, edit, rename, delete, move hosts and groups; host key callbacks | password store, dialling, sidebar |
| Authentication (`auth/`, `yescrypt/`, `keyring/`) | the app password: its hash in memory and on the disk, a copy in the keyring; tokens are signatures without state | check, issue, change, reset | password store |
| Password store (`passstore/`, the tab of `Sidebar.tsx`) | wrapped data key, its copy in memory, encrypted entries; in a window the list and what it has revealed | unlock, save, re-encrypt, lock; reveal, delete | authentication, keyring |
| Configuration (`config/config.go`) | buttons, variables with times, settings, host metadata | upsert, remove, reorder, `UpdateVars`, `SetVars` | WebDAV synchronisation, browser store |
| WebDAV synchronisation (`datasync/datasync.go`) | the directory; `sync-metadata.json` with deletion markers | list, upload, download, delete, every five minutes and on demand | configuration, scratchpad |
| Scratchpad (`scratchpad/`, `Scratchpad.tsx`) | pages with times, on the server and in each browser | edit, broadcast, merge on reconnect | WebDAV synchronisation |
| File browser (`fsapi/`, `FileBrowser.tsx`) | in the panel: directory, listing, menu, dialogs and the upload queue; on the server a table of progress | navigate, rename, delete, edit, upload; each request is one operation, locally or by SFTP | tabs and panes, SSH pool |
| Recent hosts (`recents/`) | one list under one mutex | add, remove | WebSockets |
| CSV import (`csv_parser.go`) | none | parse | hosts, passwords |
| HTTP application (`app.go`) | routes | every handler | all of the above |
| Browser terminal (`Terminal.tsx`, `markMode.ts`, `MobileInputBar.tsx`) | `wsRef`, flags, timers, the xterm of a pane; cursor and anchor of mark mode; the panel of keys and its history entry | connect, reconnect, dispose, handle messages; mark by keys; open and close the panel | terminal WebSockets, tabs and panes |
| Browser store, tabs and panes (`store.ts`, `TerminalGrid.tsx`, `TabBar.tsx`) | tabs, panes, active ids, saved tabs; `localStorage` that the windows share; copies of buttons, hosts, variables | open, split, close, move, restore, pin; set and hear of values; log out | browser terminal, `/api/sessions`, configuration |
| Browser dialogs and views (`Sidebar.tsx`, `NewTabDialog.tsx`, `SSHImportTab.tsx`, ...) | filter, selected row, expanded groups, the row that is dragged, entries of an import | filter, select, open, drag, drop, import | browser store, hosts |
| Programs (`cmd/`) | a window, a child process | start, update | HTTP application |

### What is hard in it

* **Sessions.** A session is touched by its own goroutine, by any number of handlers, by
  the callbacks of timers and by requests, each in several short critical sections. Ids are
  chosen by browsers and used again, and most operations look a session up by id after they
  have let go of the lock. Correct means: a channel is closed once and not used after; a
  timer entry is never dead; every session nobody looks at, unless pinned, is closed; a
  pinned one is not.
* **SSH connections.** One connection carries several sessions and is counted by hand.
  Two closes of one session, a clone of a parent that is being closed, and a reconnect that
  swaps the connection under a session all move the count.
* **Synchronisation.** Devices edit, sync, fail and stop without any common lock on the
  directory. Correct means: nothing older replaces something newer, the last copy is never
  deleted, and everybody ends with the same.
* **The pane.** A pane reacts to its socket, to timers, to the promises of scripts and to
  the user in any order. Correct means: one live socket, none after the end, and no state
  from which nothing goes on.
* **Scratchpad.** Browsers edit while they are away, push what they have when they are back, and a
  synchronisation or a page load replaces the server's pages under them. Correct means: no edit is lost,
  every edit arrives, and all show the same in the end, for every page that was not taken back on purpose.
* **Passwords.** The app password is in four places and is changed in each by itself, while terminals, other
  windows and restarts go on. Correct means: what is saved can be opened, by the password that logs in.
* **Tabs.** `activeTabId`, `activePaneId` and the `activePaneId` of each tab are written apart, by some thirty
  handlers. Correct means: what is typed goes to the pane that is seen.
* **Copies.** Windows work on copies of buttons, hosts, listings and directories, with requests that overlap and answers that
  come late, and handlers go on after an `await` with the values of an earlier render. Correct means: what a user
  does reaches what he saw, and in the end he sees what there is.
* **Uploads.** A queue is driven by an effect of React and guarded by a ref, between renders, clicks and
  answers. Correct means: each item is sent once, in its turn, alone.

## 2. Plan

| Order | Module | Subject | State |
|---|---|---|---|
| 1 | `SessionLifecycle` (+ `_proofs`) | registry, timers, handlers, requests | done; all safety properties that hold are proved |
| 2 | `SshPool` (+ `_proofs`) | references, clones, tunnels, retries | done; all safety properties that hold are proved |
| 3 | `WebdavSync` (+ `_proofs`) | items and variables between devices | done; all safety properties proved |
| 4 | `TerminalClient` (+ `_proofs`) | a pane's sockets and flags | done; safety proved |
| 5 | `Scratchpad` (+ `_proofs`) | pages on the server and in browsers, `Reload`, merge on reconnect | done; safety proved |
| 6 | `TabsStore` (+ `_proofs`) | tabs, panes, focus, split, close, hide, attach, broadcast | done; safety and steps proved |
| 7 | `Transfers`, `UploadQueue` | the upload queue and what it implements | done; safety and refinement proved |
| 8 | `PasswordStore`, `PasswordDialog` | data key, app password, restarts; the tab of saved passwords | done; proved |
| 9 | `FileBrowser`, `ButtonList`, `StorageSync`, `HostFile` | copies of a window against the server and other windows | done; proved but for the lines of `HostFile` |
| 10 | `MarkMode`, `MobileInputBar`, `NewTabDialog`, `SSHImport`, `SidebarTree`, `RowDrag` (over `Lists`) | state of the views | done; all but `SidebarTree` proved |
| | `BrowserParts_proofs`, `MCBrowser_proofs` | what is proved of the machines of 7 to 10 | done |
| 11 | `MarkerFilter`, `OutputStream` | the byte filter and the circular buffer as functions against a reference definition | planned |

Stated and implemented: *Transfers*, by `UploadQueue`. Abstract specifications still worth stating: *SessionService*, in
which a session is absent, attended or awaited, implemented by `SessionLifecycle` (its conjunct `Timed` is the core of
the mapping); and *Replica*, a last-writer-wins register, for `WebdavSync` and `Scratchpad`.
Compositions planned: `SessionLifecycle` with `SshPool` over `CloseFunc` and `RetryFunc`;
`TabsStore` with several `TerminalClient` panes. Theorem planned next: that `SessionLifecycle` implements
`SessionService`.

## 3. The modules

### SessionLifecycle

One action is one critical section of `m.mu` or `s.mu` (a section of `s.mu` nested in one of
`m.mu` is one action with it), so TLC interleaves goroutines exactly where the code can.
`pc[h]` is the next section of the handler `HandleTerminal`, from `Connect` (upgrade, and the look-up
of `reconnect=1`) over `GetSession`, `CreateSession` or `CreateFails`, `AddSession` or `Steal`, `QueryState`,
`CancelTimer`, `Attach` and the serving of the socket to `Lookup`, `Unlisten` and `Leave`
(the two halves of `RemoveListener` and `ClearInactive`). `run[s]` follows `Session.run`: reading,
retrying, telling `exited`, closing the listeners, removing its id. A timer is armed, fired
(its goroutine exists and no `Stop` helps) or idle; `TimerCallback` is the whole callback under
`m.mu`. The four requests that set a tab state, the two that close, and `DisconnectAllWebsockets`
are the `Api...` actions. A channel is named by its handler.

Abstractions: time (a minute, the three seconds between retries, a dial take any time); the output and
its buffer; the prompts during a dial; the queue of a listener, which with `Lossy` may drop a state
message. An end of file and any other read error are both possible at each end of a link, since which of
them a closed PTY or channel yields depends on the platform.

### SshPool

`refs` and `conn` are `PooledClient`; `channel`, `run` and `closeFunc` are what a session knows of
its connection; `tunnels` and `bound` are the registry of tunnels and the ports they listen on. `Callers`
are whoever calls `Close`: a request, a timer, a handler with `reconnect=1`. They go through
`CloseFunc` step by step (take the entries, close the listeners, close the channel and release,
remove the id), and two of them may do so for one session. All sessions are of one host, since neither the registry nor a
connection is shared between hosts. A dial succeeds or not in one step.

### WebdavSync

Each request of `performSync` is a step. A file is its name: an item, a time and whether it
marks a deletion, which is how the code finds out. Buttons and scratchpad pages are treated alike by the code and are `Items` here. The clock ticks
once for each thing a user does, so that a tick names a text (`text`, `content`, `vals`); the times that the code compares (`active`, `remote`, `vars`) are
kept apart from it, as two cases part them. One of the two forms of a button sends the time the button had when the form was opened, and `UpsertButton` keeps it
(`config.go:480`): `Edit` may save under any time that a browser of the device may still show (`shown`), or a new one. And a sync copies the values of
the variables and their times in two sections (`ReadValues`, `ReadVars`), with updates possible in between; `torn` remembers which variables those were.

`cleanDeletedMaps` is two steps: `Start` has taken `metaMu`, `Clean` gets the locks of the two stores. `Delete` has taken the lock of its store (`leaving`)
and `DeleteNoted` gets `metaMu`. When both wait, nobody goes on until the server is stopped (`Jammed`), and everything else that needs the
store waits too. The same happens when a handler of the scratchpad panics with `dataMu` locked: `Panic` leaves the device in `stuck` (`Scratchpad`
says how that comes about). Any other section takes its lock and gives it back in one step.

`Fault` is a request that fails, a server that stops in the middle of a sync or a deletion, an upload that is refused, or such a panic; `MaxFaults` bounds them. Encryption,
the upload of the SSH files, `DetectChanges` and edits of pages that a browser kept while it was away are left out; what a sync does to the scratchpad's pages, and the latter, is in `Scratchpad`.

### TerminalClient

The closure variables of the effect in `Terminal.tsx` are the variables: `isDisposed`, `isDead`
with `deathType` (`dead`), `sessionExited`, `params` (whether it has `reconnect=1`), the timers,
`wsRef.current` and, for each WebSocket object, its `readyState` and whether `onclose` is still
set. `connectWS` is two steps, `Begin` before its `await` and `Resume` after it, so that everything
may happen while scripts are awaited. Nothing in the code keeps it from being called again meanwhile: the calls that wait are
counted (`waits`), each makes a socket when its scripts are done, and `overlaps` counts those that began while another waited, which
`MaxOverlaps` bounds. `strays` are reconnect timers whose id `reconnectTimer` has lost to a later one, so that nothing
clears them. The properties are stated with that count, as each such call may leave a socket that `wsRef` does not know (section 6),
and no other step may. Messages are dropped by
a socket that is closing, as browsers do. The server is reduced to one session and the handlers
of this pane's sockets.

### Scratchpad

A page is the time of its last edit, and the model's clock gives each edit its own. `Accept`, `ServeHello`, `WriteHello`,
`ServeSync` and `ServeDelete` are the read loop of `HandleWS`; only the answer to a hello is written after `dataMu` is
released, so it is a step of its own. In the browser `Connect` is `connectWS` up to `onopen`, with the push of all pages;
`OnSync`, `OnDelete` and `OnForceSync` are `onmessage`; `TriggerSync` is the timer of one second, which does nothing without a
connection; `CloseTab` is the cleanup of the effect, after which the pages stay in the cache of the browser. `handleDelete` is two
steps, as it goes on with the pages from before the dialog. `loader` follows a synchronisation
(`SyncCopies`, `UpsertPages`) and a request, both of which call `Reload` (read the file, set the pages, broadcast).
`fate` is a history variable: a page is "lost" once some copy of it was deleted or replaced by an older one.

The library (gorilla/websocket) panics when two goroutines write to one connection. The writers are the answer to a hello, without a lock; a handler that
broadcasts or acknowledges, with `dataMu`; and the broadcast of `Reload`, without it. Two of them at once are `HelloPanics`, `ServePanics` and
`ReloadPanics`, by who is hit. `net/http` recovers the handler and its deferred functions close its connection, but `dataMu` is locked without `defer`, so
`ServePanics` leaves it locked (`jammed`), after the pages were changed and saved, and with the broadcast sent to some (`CutShort`); `missed` remembers to whom
a message was lost. `jammed` is also what a deletion makes of `dataMu` when it waits for `metaMu` while a synchronisation that begins holds that and
waits for `dataMu`. Only a stop of the server ends it.

Abstractions: titles, texts and locks are the data behind a time; `lastSyncDataRef` drops what was sent before
and changes nothing; the acknowledgement without pages is not sent. A connection that is replaced ends with its messages, where in
the code its handler may still read some: they are older than what the new one pushes. Two windows of one browser, which share a cache, are not modelled, nor are clocks
that differ.

### TabsStore

`tabs`, `activeTab` and `activePane` are the three variables of the store, and an action is one handler of `store.ts`,
`TabBar.tsx`, `TerminalGrid.tsx` or `useKeyboardManager.ts` with the calls of `setTabs` and `cleanupAssociatedTabState` it makes.
`Open`, `OpenHostsAsSplit`, `OpenScratchpad`, `Clone`, `AttachSession`, `Close`, `CloseMany`, `Hide`, `Move` and `Choose` gather
the handlers of one kind; `Report` is what a pane says of itself (data, shell integration, a reconnect). Only `hideTab` awaits a
request, so it is two steps. `marks` is what is kept by pane, treated alike by the code. `BroadcastTargets` is `getBroadcastTargetPaneIds`. A
window begins as the mounting of `Dashboard` leaves it.

### UploadQueue and Transfers

`processing` is `isProcessingRef`, `status` the queue, `due` a render that is to come with its effect. `ProcessNext` is the effect;
`Answered` is what follows the `await`, `Cancel` the click, whose render still sees the ref. `Transfers` says what a
queue is for: an item waits, runs and ends, in order and alone. `Phase` maps the one to the other: what runs
is what has been sent and not answered, whatever the panel shows.

### FileBrowser

A request carries the session and the directory of the render whose handler sent it (`c`), and what the user saw (`seen`).
`asks` are listings under way, answered in any order; `acts` are renames, deletions, loads, saves and new folders with the dialog or
answer they wait for. `switched` and `slid` note that the pane changed, or the listing below an open menu. `upload` is the listing
after an upload. The steps a handler makes before the first listing has come are left out.

### ButtonList

A handler of a window is a request and then a fetch of the list; `calls` are the requests under way. `Handled` is what `config.go` makes
of one: `UpsertButton`, `RemoveButton`, `MoveButton` and `ReorderButtons` with the re-sequencing of orders by ten. The form of a new button proposes the greatest order of the
window's list and ten (`Proposed`), which the server keeps; without one the server chooses. The form is filled when it opens and may be sent much later, so its call begins with the opening,
and the window may be refreshed meanwhile. An order that the user types is left out. A drag shows its result first (`Moved` of the
list that the window has). `skewed` notes that a window does not show what the server has, or that something overlapped or failed.

### StorageSync

A value is the set of writes in it, so that one sees which writes are lost. A setter writes `localStorage` and the store, and queues an event for the
others; `StorageEvent` is the listener. `csSetVars` sends the variables first. `safeLogout` clears step by step (requests, caches, storage, channel), and
a window that hears of it goes to the login page. `crossed` and `late` note writes that crossed each other or came after the clearing.

### HostFile

The file is a sequence of lines: tags, the line of a host, an option, a blank. `findHostBlock`, `updateLines`, `End` and `SaveGroups` work on it as
`client.go` does; a window sends whole hosts and whole lists of groups made from its copy, host by host for a group that is renamed, moved or
deleted. The server is one request at a time, and requests of two windows interleave.

### PasswordStore and PasswordDialog

`password`, `kept`, `trusted` and `ring` are the app password in memory, in the file of settings, in passstore and in the keyring;
`dek`, `wrapped` and `saved` are `passwords.json`, `key` is the data key in memory. A data key is a number. A change of the app password is a
member of `changing` with the step that comes next, in the order of the handler; any of them may fail, and `Restart` may come before any. `spoilt`
notes that a change failed or was overtaken, after which the code keeps no promise (section 6). `PasswordDialog` is the tab
over that store, each request being sent, served and answered.

### The views

* `MarkMode`: a position is a number, so that a move is arithmetic on cells as in the code. `Key` is `handleKey` with each of its commands,
  `Output` and `Erase` are what the terminal does to the buffer meanwhile, trimming of the scrollback included.
* `MobileInputBar`: the panel, the entry in the browser's history that "back" pops, `performClose` with its 400 ms, `inputmode` of the panes
  (the effect of `Dashboard`), and the latches of Ctrl and Alt.
* `NewTabDialog`: filter, mode and selected index over the sections that the code assembles; `News` is any change of the lists below.
* `SidebarTree`: `Rows` is the flattened list of favourites, groups and hosts, with `expanded` and the filter; `Effects` are the two effects after
  a render. `RowDrag`: the row that is noted against the row that is in the hand.
* `SSHImport`: entries are compared with the files when a view is opened, selected, and sent one by one; `Elsewhere` is another writer of the files.
* `Lists`: `filter`, for `NewTabDialog` and `SSHImport`.

### MCBrowser

The modules from `TabsStore` on run in one instance. They are INSTANCEs of one module that share no variable; `part` chooses at the start the
one that runs, and the others stand still, so the state space is the sum of theirs and not the product. One configuration then checks them all.
Where machines do meet in the code (a deleted button in the new-tab dialog, a moved host in the
sidebar), each has the other's effect as an action of its environment: `News`, `Refresh`, `Elsewhere`.

## 4. The runs

| Run | Checks | Instance |
|---|---|---|
| `session_safety` | `TypeOK` `ListedChannelsOpen` `ListedTimersLive` `NoGhostListeners` | one id, two handlers, two sessions, two timers, full queues |
| `session_requests` | `IdleSessionsTimed` | two ids, two handlers, a session, a timer and a request; pin and unpin |
| `session_liveness` | `AbandonedSessionsEnd` `ClosedChannelsReturn` | one id, two handlers, two timers |
| `session_left` | finds `NoneLeftBehind` violated | one of each |
| `pool_safety` | `TypeOK` `CountedByHolders` `ListenersListed` | two sessions, three clients, a local and a remote rule, two closers |
| `pool_release` | finds `SessionsRelease` violated | one of each |
| `sync_items` | `TypeOK` `VersionsGrow` `RemoteLossCovered` `ItemsSettle` | two devices, a button, three edits, one fault |
| `sync_vars` | `VarsGrow` `VarsHeld` | two devices, a variable, three edits, two faults |
| `sync_two_vars` | finds `VarsSettle` violated | two devices, two variables, two edits, no fault |
| `terminal_pane` | `TypeOK` `OneSocket` `OverHoldsNothing` `NeverStuck` `UnmountedLeaves` | two WebSocket objects, one call that overlaps another |
| `scratch_pages` | `TypeOK` `MergesConverge` `NothingLost` `EditsArrive` | two browsers, two pages, three ticks of the clock, one trouble |
| `browser_parts` | `TypeOK` `TabsConsistent` `TabSteps` `BrowserSafe` `QueueSafe` `ImplementsTransfers` `ViewSettles` `ListChanges` `StorageSafe` `InputSafe` `TerminalSafe` `ImportSafe` `DialogSafe` `SidebarSafe` `PasswordsSafe` | `Browser.cfg`, see below |

What the invariants of `browser_parts` say, by machine:

| Property | Says |
|---|---|
| `TabsConsistent` | each tab has one to `MaxPanes` panes, its `activePaneId` is one of them, no id is twice in use, nothing is kept for what is gone; broadcast reaches the other panes of the tab, and never a scratchpad |
| `TabSteps` | where input goes to the pane that is seen, it still does after every handler but those that `Drifts` names; only closing and hiding take panes away |
| `BrowserSafe` | requests reach the session and directory that the user saw, and the panel does not load for ever |
| `QueueSafe`, `ImplementsTransfers` | an item is sent once, in its turn, alone; what is shown as completed is stored; what waits moves |
| `ViewSettles`, `ListChanges` | a window ends with the list of buttons of the server, and with the hosts of the file; up and down move one button by one place in its group; a new one comes last, unless a window that was behind proposed its order; changes have newer times |
| `StorageSafe` | windows that have heard everything agree with `localStorage`; a logout leaves nothing |
| `TerminalSafe` | mark mode stays in the buffer, selects from anchor to cursor and finds words as their definition says |
| `InputSafe` | a drop moves the row in the hand; the panel of keys has its history entry exactly while it is open, and mutes the active terminal exactly then; a latch changes one key |
| `ImportSafe` | an import removes no key but those shown as replaced, and brings what it shows as new |
| `DialogSafe` | the index is in the list, a turn of the mode keeps the text, each item is there once |
| `SidebarSafe` | what a window asks of hosts and groups is what the file then holds, and no other host is touched; each host and group that matches has a row where it belongs |
| `PasswordsSafe` | entries are sealed by the key of their file, and the app password opens it; the tab lists what is saved, and revealed passwords are the saved ones and go with the lock |

Bounds of `Browser.cfg`: two windows, two sessions and directories, three uploads, three buttons in two groups with two handlers, tabs of at most two
panes with two made ids and one session found, three writes of storage, two hosts and groups of depth two with two handlers, rows of three cells
and two rows, two steps of an import, two recent buttons and one piece of news, two panes under the key bar, two app passwords, host keys and
data keys with two changes under way, and two passwords with two calls. Each is the least with which two
of a kind meet: two overlapping handlers, a group within a group, a row that is trimmed. `Bounded` leaves out what follows a state that
the properties except anyway, uploads of the file browser while a file is edited, and a second deletion in the dialog.
`Symmetry` permutes windows, which no machine tells apart; the action properties quantify over all of them, and none is a
liveness property.

**Bounds.** The handlers, sessions and requests of an instance are used once, timers and
WebSocket objects are reused. Two handlers of one id are needed for a steal and for two
that create at once; a second session for an id that is given to another session while something
still holds the first; a second id to keep what a request does to others apart; two timers for a stale
callback beside a newer timer. `MaxRetries` is 30 in the code and 1 or 2 here: the attempts differ
only in the last. In `SshPool` a third client is needed when two sessions are open and one
reconnects. Two devices show every conflict of two versions; the directory is the only
thing a third could share. `MaxTime` bounds the edits, `MaxAge` (30 days in the code) is
chosen so that deletion markers expire within them, and one fault, or two, may be at any request. Each variable is merged by itself but for the name of the file they share,
which is why two of them are left to `sync_two_vars`. A pane
needs a socket it uses, one that is being closed, and one the server has not noticed yet. In `Scratchpad`
the first page has time 1 and two edits may follow, here or on another device; `MaxTroubles` bounds lost connections, stops, closed tabs,
deletions and loads together, and with one of them every action fires. The safety properties also hold with two (13 million states with
`Symmetry`, about four minutes). Where symmetry is
used the run has no liveness property.

**Deadlock** is not checked in any run: a server with nobody connected may stop, handlers
and sessions of the instance are used up, the clocks of `WebdavSync` and `Scratchpad` end, and the machines of
`MCBrowser` end with the steps they are allowed.

**Fairness.** `SessionLifecycle` and `SshPool`: a goroutine that can run does (handlers, `run`,
requests, callbacks), an armed timer fires; nothing is assumed of browsers, shells, users and networks. `WebdavSync`: a sync
goes on, and starts again after five minutes (`Init`'s ticker in `datasync.go`), and a deletion is noted, as soon as the locks they wait for are free; of devices whose locks are
jammed `SameItems` says nothing. `TerminalClient`: timers run out, promises settle,
events are delivered, the server's handlers go on (its pings end those whose browser is silent).
`Scratchpad`: handlers and calls of `Reload` that have begun go on unless they wait for `dataMu` when that is jammed, timers and event loops go on, and a browser that lost
its connection gets one again; tabs need not be opened, nor dialogs answered.
The weak forms suffice, as nothing in the code takes turns. The machines of `MCBrowser` state none, as a user need do nothing; that they do not
wait for ever is stated as an invariant where it matters (`QueueMoves`, `LoadingEnds`: something is under way that ends the waiting).

## 5. What is proved

The proofs hold for any constants under the assumption the module states (`ConstantsAssumption`, `PoolAssumption`, `SyncAssumption`,
`SocketsAssumption`, `ScratchpadAssumption`): the null values are not members, bounds are natural numbers, sets that are counted are finite.
Those of the machines of the browser assume nothing of most constants: only that `NoListing` is no listing (`NoListingIsNone`), that the sessions found are finite in
number and a tab may have a pane (`PanesSized`), that the ids of buttons are numbers, as names that can be compared (`ButtonsNumbered`), that a terminal has a row and a
column (`ScreenSized`), and that the dialog shows and keeps natural numbers of items (`DialogLimited`). None assumes fairness.

`SessionLifecycle_proofs` proves `TypeCorrect`, `ChannelsSafe`, `TimersSafe`, `NoGhosts` and
`IdleAwaited`, the safety properties of the runs, from one inductive invariant:

* `TypeInv`: the types, and that a step that follows a pointer finds a session there;
* `Owners`: a registered session was created for the id it is registered under, and a
  session that is being created is known to its handler only. Without it `RemoveListener`, which
  looks up by id, could not be said to find the right session or none;
* `Held`: what a request is about to change has been created;
* `Channels`: `ListedChannelsOpen`, with the handlers' positions at which a channel exists.
  It is inductive because every closing empties the list in the same critical section;
* `Ghosts`: a handler that missed its own session, as the id named another one, leaves its channel in a
  session that is unregistered, and (by `Owners`) can never be registered again;
* `ListedTimersLive`: kept because a callback and `Remove` delete the entry under `m.mu`;
* `Timed`: an idle, registered, unpinned session is awaited by a pending timer, by a handler that is sure to come
  to `ClearInactive`, or by an unpin request before it. It is stronger than
  `IdleSessionsTimed`: a handler that may still fail to create a session does not count.

`SshPool_proofs` proves `PoolTypes`, `PoolCounted` and `PoolListed` for any finite number of sessions, and any clients, rules and callers:

* `Placed` says where a session is when something refers to it: a caller that closes it finds it served, and has taken entries only
  between taking them and closing their listeners. Without it a caller could close listeners of a session it does not hold.
* `Counted` is `CountedByHolders` with one half extended: the count is at most the number of holders for connections
  that are closed, too, since a clone of a connection that is just being closed is counted on it. The argument is on cardinalities: each step that moves a
  count adds or removes one holder.

`WebdavSync_proofs` proves `SyncTypes`, `SyncVersionsGrow`, `SyncVarsGrow`, `SyncRemoteCovered` and `SyncVarsHeld` for any devices, items and variables, any clock,
age of markers and number of faults. Most of it is about maxima of sets of times (`MaxOf`, by well-foundedness), from these invariants:

* `Dated`: no table, file or snapshot holds a time that has not come;
* `Texts`: no text is older than the time it goes by. It may be newer, since a form saves under an old time, so that `Dated` does not make every edit newer than everything: what does hold
  is that what was written last is not given up for what a time says is newer, unless it was saved so;
* `Newer`: what a sync has fetched is newer than what it copied at its start, one file for each item. Hence a stored file is older than the device's version only if the user was faster;
* `Pending`: a deletion that waits for `metaMu` is of an item that is gone, and later than everything the sync in progress has listed;
* `Covered`: each file in `remoteFilesToDelete` is a forgotten deletion, or older than the copied version, or older than a fetched one, while what was written last on the device (`Written`) is no
  older than what it copied. The fetched one counts before it is stored: it is why the deletions come last in `performSync`. Two devices that delete by lists of different times are no exception, as
  what a device deletes is always older than what it has itself;
* `Whole`, for the variables: everywhere a value goes with its time, but for variables that changed between the two copies (`torn`), and those gone for so long that their time is dropped;
* `Copied` and `Backed`: a device holds what it copied, or better, until the merge is stored, and each file of variables is backed by some device, unless what it says may be forgotten (`Lapsed`). The first is
  needed because `SetVars` overwrites what was set since.

`VarsHeld` took the place of an action property on the loss of the newest file. The proof of that one failed, and TLC then found the reason with a fourth edit: after a removal
has been forgotten, an older value that was left behind on the server may be the newest file, and may go. The invariant says what the code keeps.

`TerminalClient_proofs` proves `PaneTypes`, `PaneOneSocket`, `PaneOverHoldsNothing` and `PaneNeverStuck`
for any number of sockets and of calls, overlapping or not, from: `Over` (`isDisposed` holds just when the pane is over or gone), `Heard` (live sockets have
their `onclose`), `Few` (the sockets that still have one, with the calls that wait, are at most one more than the calls that overlapped, and at most as many
without the current one) and `Unsaid` (a handler says one thing at most). `Few` is what makes `OneSocket` inductive: `Resume` makes a socket without
looking at `wsRef`, so the calls that wait have to be counted as the sockets they will be, and sockets that are closing count until their `onclose`, which may
still end the pane.

`Scratchpad_proofs` proves `PadTypes`, `PagesConverge` and `PagesKept` for any browsers and pages and any bounds. `Safe` says of the pages that were
not taken back on purpose (`Fine`) where each copy stands: the server's file is its memory (`Filed`), a loader about to set pages, a message or an answer
in flight has nothing newer than the server (`Loaded`, `Heard`), and a dialog nothing newer than its browser (`Asked`); a deletion is only under way for a page that is not
fine (`Deleted`); a connection that the server does not know begins with a hello (`Listening`). The two that carry the theorem are `EditsOffered` (what a browser has that is newer than the server's is
pending in its timer or on its way up) and `NewsAwaited` (what the server has that is newer comes down, or will with the answer to the hello). `NothingLost` needs that the newest version is
always among the copies (`NewestIs`), and that a step that is no loss only makes copies grow (`CopiesGrow`). A panic keeps them all, wherever it cuts a
broadcast short (`CutShortKeeps`): `NewsAwaited` excepts the browsers in `missed`, and the answer to a hello that it may lose is to one of them.

`TabsStore_proofs` proves `TabsAreConsistent` and `TabStepsKeep` for any finite number of sessions found and any numbers of panes, ids and marks, as long as a tab
may have a pane (`Sized`). `TabsInv` says that unless `moveTabToLast` has doubled a tab the list is one of whole tabs (`WholeTabs`): every id of a tab or a pane was made before `next` (`Made`),
tabs share no id and no pane, and `activePaneId` of a tab is one of its panes. That ids were *made* is what the invariant adds: it is why the id of a new tab or pane is in use nowhere. The id of
the active tab was made too, as `openHost` takes it for a new tab when its tab is gone. Each way to write the list has a lemma of its own (`ChangeSafe`, `OpenSafe`, `SelectSafe` for
what is filtered, cut or permuted), and each handler one that reduces it to these. `Filtered` is shown to keep the order and every tab that is not closed by
counting the members of a set below a number (`RankOf`). For the steps, `Kept` and `Focused` go along the same way (`StayKeeps`, `ChangeKeeps`, `OpenKeeps`, `OrderKeeps`).

`BrowserParts_proofs` proves five machines for themselves, which `MCBrowser_proofs` then carries to the composition.

* `StoreIsSafe`, for any app passwords, hosts, data keys and changes. `Sealed` is inductive with the types; `Openable` speaks only of the
  time between changes, so `Stage` says for each step of a change which of the four copies is already the new password. `OneChange` is
  why this suffices: two changes at once are one that has been overtaken.
* `ListChangesHold`, for any windows, groups, ids and number of handlers. The invariant says that every list is one of buttons with numbers for their order, and (`AllShow`) that a window that is
  not behind shows the server's list, so that an order it proposes is beyond all others; the work is in
  the lists themselves. A list is sorted by the rank of each button, the number of those before it, and `RankOf` shows by counting that the ranks of a set are 0, 1, 2, ... each
  once; `OneList` that there is then only one sorted list. Hence two lists whose buttons stand in the same order are shown alike
  (`SameOrder`), and `Neighbours` that an order which differs in two neighbours only shows these two swapped. `MoveButton` comes to such an order in both its ways: with
  the order next to the neighbour's (`OrderBeside`, where no two orders are equal) and with all renumbered by their place (`PlacesBeside`, where some are).
* `MarkHolds`, for any number of columns and rows. The invariant `MarkInv` is `InBuffer` and `SelectsTheMark` with the types. Positions are products of a row and a width that is not known,
  so `Split` and `PosOf` first show that each number is a row and a column in one way, and `PosLess` that positions are ordered by rows, then columns; `MarkedCells` that the lengths xterm is
  told select just the cells between two. For the words, `NextWordAgrees`, `PrevWordAgrees` and `EndOfWordAgrees` show of each scan that it stops at the nearest start or end of a
  word: the cell before the place where it stops is of another class, else the scan had stopped there.
* `DialogHolds`, for any limits of the recent hosts and buttons. The hosts, buttons and texts are the few that the module names. The invariant `DialogInv` adds to `SelectionInRange` that the index is
  -1 or more and that neither list of recents holds anything twice. `FilteredPicks`, by counting as before, says what a filter leaves of a list: its members that are in the set, in their order. A `Section` of a list
  is where the rows of some types are, each value once; `SectionsJoined` puts lists together that share no type, or share types but no value, as the three lists of hosts and the two of
  buttons do. `ServersAre` and `ButtonsAre` come to the whole list, hence `ShowsOnce`. That the index stays in range when a row is deleted is `OneItemLess`: the list is shorter by one row at most, and the index goes back by one with
  it. `OtherShown` and `ShownSame` say which lists a mode reads, so that a deletion or a turn leaves the rest of what is shown as it was. `TurnsWhere` is `TurnsTo` for every filter, whatever its length.
* `ImportHolds`, for any number of imports, uploads and changes from elsewhere. The files that are offered and what another writer adds are those that the module names. The invariant `ImportInv`
  ties what is shown to the files: entries that are not stale are what a comparison would give now, and an import that is not stale was chosen from such entries. Hence, when it is carried out, the line
  an entry is replaced at is the one the user was shown. `KeysGrow` follows `ImportKeys` line by line: what becomes of each line of the file, and that each imported line is brought, is said of every
  prefix of the lines (`Grown`), and a first prefix for which it failed would be the next after one for which it holds (`GrowsOn`). `BlockThere` does the like for hosts: a block that is appended is the first
  of its name if there was none, which is where ssh looks.

`MCBrowser_proofs` carries `TabsAreConsistent`, `TabStepsKeep`, `StoreIsSafe`, `ListChangesHold`, `TerminalIsSafe`, `DialogIsSafe` and `ImportIsSafe` to the composition, for every instance: the steps of another machine leave the variables
of this one unchanged, so a behaviour of the composition is one of each part. It proves the properties of eight further machines there, each by an invariant of its own:

* `QueueIsSafe` and the refinement `Implements` (upload queue, any number of items). `QueueSafe` is not inductive: `Turns` adds that an item which has not had its turn was never sent, and that
  one shown as uploading is being sent. With it `QueueStepMaps` shows that each step is one of `Transfers` or leaves `Phase` alone: a cancel of a running file and an answer are `End`, a
  cancel of one that waits is `Withdraw`, a removal from the panel is nothing.
* `BrowserIsSafe` (file browser), from `FilesSafe`: whatever a handler, a menu, a dialog or a request holds is of the session shown (`OfThisPane`), unless the pane was switched;
  an open menu was opened on the rows shown, or they slid under it (`MenuShown`); and one handler runs at a time, as a dialog or the overlay is over
  everything else (`OneAct`). The last is why `loading` cannot be left set: the handler that set it is the only one.
* `ViewsSettle`, for the buttons from `ButtonsSafe`: a window that is not skewed has one request at most, shows the server's list while it has none, and a reordering that is
  under way has already been shown as the server will sort it (`Forced`). For the hosts from `WindowsSafe`: a window has one request at most, and shows the file unless it will be told
  of the hosts. What the texts of the lines are does not matter for it, so that it holds for any parser.
* `StorageIsSafe`, from `StoragesSafe`: for each window and key, the value after all the events still to come is the one stored (`WillShow`, `Shared`), unless the writes of the key
  crossed; and there is a token only while somebody is logged in, else nothing is stored (`LeftClear`).
* `InputIsSafe`, for drags from `DragsSafe`: the row noted is the one in the hand, or the note was cleared by an earlier handler. For the key bar from `BarInv`: the panel and the place in the
  history differ only while a step back or a finisher is under way, and two steps back at once were asked for twice.
* `StoreIsSafe` covers the tab of the saved passwords too, by `RevealsSafe`: unless two requests were mixed, every answer that is in still tells what is saved (`Holds`), the list is the
  saved one whenever only single rows are asked about, and a password that is shown is the one saved or the window is about to be told of another (`Told`).

**Only model-checked:** everything about liveness (`AbandonedSessionsEnd`, `ClosedChannelsReturn`,
`ItemsSettle`, `UnmountedLeaves`, `EditsArrive`), which is out of the prover's reach with fairness. Of the composition: `TypeOK`, which is about all machines at once, of which
the invariants above take what they need; and `SidebarSafe`. The latter compares the whole file of hosts, regrouped line by line, and the whole flattened tree of groups, of any depth, with what they stand for. The theorems of
the library for induction over such data take an operator, which the provers installed cannot instantiate. Where a computation goes along one list, as in `ImportKeys`, `ListChanges` and the scans of
mark mode, least numbers of sets take the place of induction; a parser of blocks and a tree of paths would need it at each level.

## 6. Where the code does not keep what it says

Each of these is a run that TLC ends with a counterexample.

* `NoneLeftBehind`: a session closed while `run` retries is dialled again, is registered nowhere,
  and lives as long as the server, against `ws/ws.go:396-400`.
* `SessionsRelease`: `run` that ends does not release its connection, against
  `sshmanager/client.go:1696-1697`: after `exit` the SSH connection stays.
* `VarsSettle`: the file of merged variables may have the name of the file it replaces and is
  then deleted with it, against `docs/DATA.md:73`.

Found while modelling, not checked by a run. Terminals, sessions and pages:

* A session pinned within the minute after its last connection was lost is closed when the minute is over
  (`session/session.go:365` looks at the listeners only), against `README.md:192`.
* After one reconnect by hand `params` keeps `reconnect=1` (`Terminal.tsx:1167`), so every automatic reconnect of
  that pane closes the running session first, a pinned one too.
* `sessionExited` is not reset by `connectWS`: a reconnect by hand between the message and the close leaves it set, and
  the next network failure shows "Session ended" for a session that is alive (`Terminal.tsx:1121`).
* Two calls of `connectWS` that both wait for scripts (`docs/SCRIPTS.md:454`) make two sockets: the one that attaches last
  takes the session from the other, and the pane shows it as stolen while it goes on; when `wsRef` knows the other one, closing the
  pane leaves the socket open and the session attached. `OneSocket`, `OverHoldsNothing` and `UnmountedLeaves` say that there is at most one such socket for
  each call that overlapped another.
* A reconnect by hand in a dead pane resets the screen and does not connect, as `isDisposed` is set.
* A reconnect by hand while a slow dial is in progress leaves two handlers that both create and register a session.
* Two steals at the same time leave two listeners; a handler may attach to a session that has just
  ended and is then never told (`ws/ws.go:382`); a listener added between the broadcast of `exited` and the closing misses it.
* `RetryFunc` drops the wrapped `CloseFunc` (`ws/ws.go:342`), so that the tunnels of the lost
  connection stay listed and keep the new one from setting up its own, against `sshmanager/portforward.go:268`.
* Every load of the application calls `Reload` (`app.go:229`): all browsers replace their pages, and edits of
  the last second are gone, against `README.md:196` ("All data is auto-saving"). `Reload` may also set what it read over a page saved since.
* A scratchpad page deleted while a browser is away comes back when that browser pushes its pages.
* An answer to a hello that is overtaken by the broadcast of a deletion leaves the page in that browser, against the
  comment at `scratchpad/scratchpad.go:135` ("to align them").
* The answer to a hello (`scratchpad/scratchpad.go:139`), a broadcast or acknowledgement of a handler, and the broadcast of `Reload` may write to one connection at the same time, for which
  the library panics. If that hits a handler with `dataMu`, locked without `defer` (`:144`, `:209`), it stays locked: no edit is taken any more, and no synchronisation ends,
  until the server is stopped. If it hits `Reload` outside of a request, the server stops. `EditsArrive` and `ItemsSettle` except the lock, `MergesConverge` the browsers to which the
  panic lost a message.
* A second close of a session that shares its connection with a clone gives back the clone's reference.
* A command run over a session's connection (`docs/SCRIPTS.md:328`) takes no reference to it.
* `RetryFunc` starts the host's RemoteCommand, not the one given for the session.

* `cleanDeletedMaps` holds `metaMu` while it takes the locks of configuration and scratchpad, and `RemoveButton`, the deletion of a page and `UpsertPages` take them the other way round
  (`datasync/datasync.go:206`): neither goes on, and with them all that needs the configuration, until the server is stopped. `WebdavSync` has the state, `ItemsSettle` excepts the device (`Jammed`); `Scratchpad` has it for a deletion of a page (`jammed`).
* A button saved from the form that shift+click opens keeps the time it had there, and other devices do not hear of it (`config/config.go:480`, against `docs/DATA.md:73`); a button of another device with a time in between, and an older text,
  replaces it. `VersionsGrow` and `ItemsSettle` except such a text.
* A variable that changes between `GetVars` and `GetVarsMtime` is uploaded with its old value and its new time (`datasync/datasync.go:739`), under which all other devices take it; the device that changed it has it overwritten
  by its own sync if something else is merged. `VarsGrow` excepts its value.
* A marker of a deletion is dropped after 30 days, so that a device that was away longer brings the item back (`:441`); `DetectChanges`
  previews a directory with its own copy of the merge rules (`:1562`).

Tabs and windows (`TabsStore`, `StorageSync`):

* `moveTabToLast` writes the moved tab over the last one (`store.ts:2907`): the moved one is there twice, and the last is gone.
* "Close Tab" and "Close Pane" of the context menu act on the active tab, whichever was clicked.
* After a split or a reconnect in a tab that is not active, an attachment that finds its session in a pane, the scratchpad of a split tab, and "Close All Tabs",
  `activePaneId` is not the pane that is seen (`Drifts`).
* A host opened with `_self` becomes a pane of the scratchpad's tab; a pinned tab can be split; the tabs of restored sessions have the id of their pane; `hideTab` removes the tab even if it was
  split while the request was under way.
* Two writes that cross leave two windows with each other's value, against `store.ts:1268`; `clear()` in another window is not heard; what is written between the clearing
  and the reload stays, against the words of the dialog (`store.ts:1666`).

Files and uploads (`FileBrowser`, `UploadQueue`):

* Cancelling the upload that runs stops the queue until it changes again (`halted`); a folder that was canceled may become completed; uploads go to the
  session that was active when they began.
* Choosing another pane of a split tab keeps the listing, while the operations go to the other session; an operation of the context menu may name a file of an older listing;
  an upload that ends fetches the directory it began in; listings that overlap are shown in the order of their answers.

Buttons and hosts (`ButtonList`, `HostFile`, `SSHImport`):

* A new button is not the last when the list from which its form proposed the order was old (`store.ts:2108`).
* A drag in a window whose list is old brings deleted buttons back and undoes edits, as the whole list is sent (`store.ts:2288`); a drag that fails is only logged; an edit by a shortcut (shift+click) keeps the old time, so
  that the synchronisation does not spread it (`store.ts:2806`, `config.go:480`, `models.go:201`); the menu's form has no time and gets a new one (`DialogManager.tsx:766`).
* `SaveGroups` takes the first line that begins with a group tag for its own, even a host's (`client.go:491`).
* Comments after a block are removed, against `client.go:240`; options that the form does not know are lost; a favourite's star sends a host without its forwardings (`Sidebar.tsx:1329`).
* A save that had to ask for the app password forgets the old name, so a renamed host is there twice (`Sidebar.tsx:1786`); renaming onto an existing host replaces it.
* `ParseGroups` sorts, so that the order of a moved group is lost (`store.ts:2543`); the deletion of a group goes on when a request is refused.
* Importing a host that is shown as modified appends a block that ssh does not look at; the port is always and the identity file never compared; `force` applies to every line that is selected;
  replacing a line with several patterns drops the others; "Back" during an import lets its timer close the next view.

Passwords (`PasswordStore`, `PasswordDialog`):

* `do-reset-password` never re-encrypts (`app.go:161-166` compares the old password with the new hash); with an empty store it leaves a data key that the old password wraps.
* A change is several sections: a terminal that saves a password in between makes a key under the old one, and a failure after the re-encryption leaves the file under the new password and the login under the old.
* After a change with an empty store the old data key stays in memory, and saving fails until the next login.
* `/api/passwords/change` puts the password of a host into the keyring (`app.go:655`).
* An answer that comes after the lock, or after the tab was closed, shows the password again; a handler puts back the list of its click, and deleted keys with it (`Sidebar.tsx:935`).

Views (`MarkMode`, `MobileInputBar`, `NewTabDialog`, `SidebarTree`, `RowDrag`):

* Mark mode entered with a selection has its cursor behind the last cell, against `markMode.ts:5`, so that the first Right extends by two; trimming slides a selection; a copy that
  ends late closes a mark mode entered since; the space key stays at the end of a row; ctrl+shift+f and b are swapped.
* Two taps on the "…" of the key bar go back twice and leave the page; a finisher that comes late closes a panel opened since; another active pane is not muted under the open panel, against
  `Dashboard.tsx:233-236`; keys of the panel ignore the latch of Ctrl.
* The index of the new-tab dialog is kept when the mode turns or the list changes, so that Enter opens something else than was selected, or nothing; a text that begins with a prefix cannot be searched in the view of servers.
* The first effect of the sidebar overwrites what the second was to restore (`Sidebar.tsx:2104`); a group that exists only as the ancestor of another does not open by ctrl and click (`store.ts:2571`); groups
  that are gone stay expanded, so that "All" never collapses.
* Rows of the tree have no `onDragEnd`: after a cancelled drag the next thing dropped moves the old row; a handler that ends clears the note of a newer drag; a group can be dropped into itself through the root (`Sidebar.tsx:4597`).

## 7. What is not modelled

The recent hosts, the CSV import and the programs under `cmd/` are sequential
code or text conversion, with no order of events that a test would not reach. Hashing, signatures, the keyring and the
WebSocket and SSH protocols are libraries. Dialling an SSH host (configuration, keys, jump
hosts, prompts) is one step that succeeds or fails. Bytes, whether of a terminal, a tunnel or a file,
are not modelled; the marker filter and the output buffer are planned as functions.

Of the browser: rendering, themes and layout, plug-ins and their API, command markers and the search of a terminal, the flags of pinned and locked tabs, the text functions of
`common.ts`, the form of a host, the forms of settings, the import of passwords from a CSV. Of the file browser the order and filter of the table, and the acts before
the first listing. Of the hosts those of `known_hosts`, passwords that are edited with a host, and the orders within a group (`reorderFavourites`
rewrites tags that hosts share). Of the dialogs what a chosen item opens, which is `TabsStore`'s.

No property covers the hazards of section 6 that are the code's own choice of behaviour; the sets of states after which a property makes no claim are named in
the modules (`Drifts`, `switched`, `slid`, `skewed`, `crossed`, `late`, `struck`, `given`, `stale`, `moved`, `turned`, `twice`, `cleared`, `mixed`, `spoilt`), each with the code that leads there.
