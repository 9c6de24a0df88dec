------------------------------ MODULE MCBrowser ------------------------------
(* Machines of the frontend that share no state; each behaviour runs one.  *)
EXTENDS Integers, Sequences, FiniteSets, TLC

CONSTANTS
    PaneSessions, Dirs, MaxAsks, NoListing,
    MaxItems,
    Windows, ButtonIds, Groups, MaxButtons, MaxAsked,
    Pinned, MaxPanes, MaxIds, MaxMarks,
    MaxWrites,
    HostNames, Parts,
    Cols, Screen, MaxRows,
    MaxSteps,
    Latest, MaxRecent, MaxNews,
    BarPanes, MaxPending,
    AppPasswords, HostKeys, MaxDeks, MaxChanges,
    MaxText, MaxCalls

VARIABLES
    part,       \* the machine that runs
    session, shown, asks, loading, menu, acts, editing, upload, switched, slid,
    kind, status, processing, sending, due, stored, sent, halted,
    server, view, calls, clock, asked, skewed,
    tabs, activeTab, activePane, unread, marks, hiding, next, doubled,
    storage, token, store, serverVars, mode, putting, events, news, writes, crossed, late,
    lines, sidebar, hostCalls, hostsAsked, hostsSkewed, struck,
    buffer, sel, active, cursor, anchor, selecting, copying, given,
    cache, listed, config, keys, page, entries, kinds, selected, acked, imports, leaving, steps,
    stale, lost, missing,
    open, filter, index, recents, recentButtons, names, pinned, tidings, moved,
    listedHosts, groups, filterStr, expanded, sections, row, effects, taken,
    hand, dragged, moving, drops, cleared, missed,
    panel, at, backs, closings, muted, front, retry, ctrl, alt, bytes, turned, twice,
    password, kept, trusted, dek, wrapped, saved, key, deks, useKeyring, ring, form, changing,
    spoilt,
    secrets, locked, byKeyring, opened, typed, passwords, revealed, requests, mixed

\* Two groups, and one in the first.
Nodes == LET p == CHOOSE p \in Parts : TRUE
             q == CHOOSE q \in Parts : q # p
         IN {<<p>>, <<p, q>>, <<q>>}

F == INSTANCE FileBrowser
U == INSTANCE UploadQueue
B == INSTANCE ButtonList
T == INSTANCE TabsStore
S == INSTANCE StorageSync
H == INSTANCE HostFile WITH view <- sidebar, calls <- hostCalls, asked <- hostsAsked,
                            skewed <- hostsSkewed
M == INSTANCE MarkMode
I == INSTANCE SSHImport WITH hosts <- config, view <- page
D == INSTANCE NewTabDialog WITH hosts <- names, news <- tidings
L == INSTANCE SidebarTree WITH hosts <- listedHosts, index <- row, steps <- taken
R == INSTANCE RowDrag WITH sent <- drops
K == INSTANCE MobileInputBar WITH sent <- bytes
P == INSTANCE PasswordStore
W == INSTANCE PasswordDialog

\* The empty path is no listing of the file browser.
ASSUME NoListingIsNone == NoListing \notin F!Listings

\* Other windows left sessions, a finite number; a tab may have a pane.
ASSUME PanesSized == IsFiniteSet(Pinned) /\ MaxPanes \in Nat \ {0}

\* Ids of buttons can be sorted.
ASSUME ButtonsNumbered == ButtonIds \subseteq Int

\* A terminal has rows and columns.
ASSUME ScreenSized == Cols \in Nat \ {0} /\ Screen \in Nat \ {0}

\* The dialog of a new tab shows and keeps a number of items.
ASSUME DialogLimited == Latest \in Nat /\ MaxRecent \in Nat

files == <<session, shown, asks, loading, menu, acts, editing, upload, switched, slid>>
uploads == <<kind, status, processing, sending, due, stored, sent, halted>>
buttons == <<server, view, calls, clock, asked, skewed>>
panes == <<tabs, activeTab, activePane, unread, marks, hiding, next, doubled>>
stores == <<storage, token, store, serverVars, mode, putting, events, news, writes, crossed, late>>
hosts == <<lines, sidebar, hostCalls, hostsAsked, hostsSkewed, struck>>
marking == <<buffer, sel, active, cursor, anchor, selecting, copying, given>>
importing == <<cache, listed, config, keys, page, entries, kinds, selected, acked, imports, leaving,
               steps, stale, lost, missing>>
dialog == <<open, filter, index, recents, recentButtons, names, pinned, tidings, moved>>
tree == <<listedHosts, groups, filterStr, expanded, sections, row, effects, taken>>
drags == <<hand, dragged, moving, drops, cleared, missed>>
bar == <<panel, at, backs, closings, muted, front, retry, ctrl, alt, bytes, turned, twice>>
secret == <<password, kept, trusted, dek, wrapped, saved, key, deks, useKeyring, ring, form,
            changing, spoilt>>
reveals == <<secrets, locked, byKeyring, opened, typed, passwords, revealed, requests, mixed>>
vars == <<part, files, uploads, buttons, panes, stores, hosts, marking, importing, dialog,
          tree, drags, bar, secret, reveals>>

One(C) == CHOOSE x \in C : TRUE

\* One of the initial states that differ by a permutation of model values, and
\* one for each machine that does not run.
Init ==
    /\ part \in {"files", "uploads", "buttons", "tabs", "storage", "hosts", "marking", "importing",
                "dialog", "tree", "drags", "bar", "secret", "reveals"}
    /\ F!Init /\ asks = {[sess |-> One(PaneSessions), dir |-> One(Dirs)]}
    /\ U!Init
    /\ B!Init /\ (part # "buttons" => server = <<>>)
    /\ \A i \in DOMAIN server : server[i].order = 10 => server[i].group = One(Groups)
    /\ T!Init /\ (part # "tabs" => next = 1)
    /\ S!Init
    /\ H!Init /\ (part # "hosts" => lines = One(H!Files))
    /\ M!Init /\ (part # "marking" => buffer = [i \in 1 .. Screen |-> One(M!RowTexts)])
    /\ I!Init /\ (part # "importing" => keys = <<>> /\ cache.hosts = One(I!Offers("hosts")))
    /\ D!Init
    /\ L!Init /\ (part # "tree" => listedHosts = One(L!HostLists) /\ groups = <<>>)
    /\ R!Init
    /\ K!Init /\ front = One(BarPanes)
    /\ P!Init /\ password = One(AppPasswords)
    /\ W!Init /\ (part # "reveals" => ~byKeyring /\ secrets = W!Nothing)

Next ==
    \/ /\ part = "files"
       /\ UNCHANGED <<part, uploads, buttons, panes, stores, hosts, marking, importing, dialog,
                      tree, drags, bar, secret, reveals>>
       /\ F!Next
    \/ /\ part = "uploads"
       /\ UNCHANGED <<part, files, buttons, panes, stores, hosts, marking, importing, dialog,
                      tree, drags, bar, secret, reveals>>
       /\ U!Next
    \/ /\ part = "buttons"
       /\ UNCHANGED <<part, files, uploads, panes, stores, hosts, marking, importing, dialog,
                      tree, drags, bar, secret, reveals>>
       /\ B!Next
    \/ /\ part = "tabs"
       /\ UNCHANGED <<part, files, uploads, buttons, stores, hosts, marking, importing, dialog,
                      tree, drags, bar, secret, reveals>>
       /\ T!Next
    \/ /\ part = "storage"
       /\ UNCHANGED <<part, files, uploads, buttons, panes, hosts, marking, importing, dialog,
                      tree, drags, bar, secret, reveals>>
       /\ S!Next
    \/ /\ part = "hosts"
       /\ UNCHANGED <<part, files, uploads, buttons, panes, stores, marking, importing, dialog,
                      tree, drags, bar, secret, reveals>>
       /\ H!Next
    \/ /\ part = "marking"
       /\ UNCHANGED <<part, files, uploads, buttons, panes, stores, hosts, importing, dialog,
                      tree, drags, bar, secret, reveals>>
       /\ M!Next
    \/ /\ part = "importing"
       /\ UNCHANGED <<part, files, uploads, buttons, panes, stores, hosts, marking, dialog, tree,
                      drags, bar, secret, reveals>>
       /\ I!Next
    \/ /\ part = "dialog"
       /\ UNCHANGED <<part, files, uploads, buttons, panes, stores, hosts, marking, importing,
                      tree, drags, bar, secret, reveals>>
       /\ D!Next
    \/ /\ part = "tree"
       /\ UNCHANGED <<part, files, uploads, buttons, panes, stores, hosts, marking, importing,
                      dialog, drags, bar, secret, reveals>>
       /\ L!Next
    \/ /\ part = "drags"
       /\ UNCHANGED <<part, files, uploads, buttons, panes, stores, hosts, marking, importing,
                      dialog, tree, bar, secret, reveals>>
       /\ R!Next
    \/ /\ part = "bar"
       /\ UNCHANGED <<part, files, uploads, buttons, panes, stores, hosts, marking, importing,
                      dialog, tree, drags, secret, reveals>>
       /\ K!Next
    \/ /\ part = "secret"
       /\ UNCHANGED <<part, files, uploads, buttons, panes, stores, hosts, marking, importing,
                      dialog, tree, drags, bar, reveals>>
       /\ P!Next
    \/ /\ part = "reveals"
       /\ UNCHANGED <<part, files, uploads, buttons, panes, stores, hosts, marking, importing,
                      dialog, tree, drags, bar, secret>>
       /\ W!Next

Spec == Init /\ [][Next]_vars

\* What is left out: steps after moveTabToLast has overwritten a tab, or after both
\* a switch of the pane and a listing that came below an open menu of the file
\* browser, which the properties except; uploads of the file browser while a file
\* is edited, which only fetch a listing more; the deletion of a second item of
\* the dialog.
Bounded ==
    /\ ~doubled
    /\ ~(switched /\ slid)
    /\ upload = NoListing \/ editing = NoListing
    /\ Len(recents) + Len(recentButtons) >= 3

\* No machine tells its windows apart.
Symmetry == Permutations(Windows)

\* Every machine keeps values of their types.
TypeOK ==
    CASE part = "files" -> F!TypeOK
      [] part = "uploads" -> U!TypeOK
      [] part = "buttons" -> B!TypeOK
      [] part = "tabs" -> T!TypeOK
      [] part = "storage" -> S!TypeOK
      [] part = "hosts" -> H!TypeOK
      [] part = "marking" -> M!TypeOK
      [] part = "importing" -> I!TypeOK
      [] part = "dialog" -> D!TypeOK
      [] part = "tree" -> L!TypeOK
      [] part = "drags" -> R!TypeOK
      [] part = "bar" -> K!TypeOK
      [] part = "secret" -> P!TypeOK
      [] part = "reveals" -> W!TypeOK

\* What a handler of the file browser acts on is what the user aimed at, and the
\* overlay ends (FileBrowser.tsx).
BrowserSafe == part = "files" => F!BrowserSafe

\* The upload queue runs one item at a time and forgets none (FileBrowser.tsx).
QueueSafe == part = "uploads" => U!QueueSafe

\* When nothing is under way, a window shows the buttons of the server (store.ts) and
\* the hosts of the file (Sidebar.tsx).
ViewSettles ==
    /\ part = "buttons" => B!ViewSettles
    /\ part = "hosts" => H!HostsShown

\* Tabs, panes and focus agree, and input goes to the panes that are seen (store.ts).
TabsConsistent == part = "tabs" => T!TabsConsistent /\ T!BroadcastAim

\* Windows show the values of the browser storage, and a logout leaves none (store.ts).
StorageSafe == part = "storage" => S!StorageSafe

\* Mark mode keeps its cursor and its selection in the buffer (Terminal.tsx).
TerminalSafe == part = "marking" => M!MarkSafe

\* A drop moves the row that is in the hand (Sidebar.tsx); the key bar of a phone stays
\* on the page, hides the keyboard just under its panel, and latches one key
\* (MobileInputBar.tsx).
InputSafe ==
    /\ part = "drags" => R!DragSafe
    /\ part = "bar" => K!BarSafe

\* An import removes no key but those shown as replaced, and brings what it shows as
\* new (SSHImportTab.tsx).
ImportSafe == part = "importing" => I!ImportSafe

\* The dialog of a new tab points at a row it shows (NewTabDialog.tsx).
DialogSafe == part = "dialog" => D!DialogSafe

\* Blocks and groups of the hosts file keep to their lines (client.go), and the tree
\* of groups shows every host once (Sidebar.tsx).
SidebarSafe ==
    /\ part = "hosts" => H!HostsSettle
    /\ part = "tree" => L!TreeSafe

\* Saved passwords open with the app password (passstore.go), and the tab of the saved
\* passwords shows what is saved (Sidebar.tsx).
PasswordsSafe ==
    /\ part = "secret" => P!PasswordsSafe
    /\ part = "reveals" => W!PasswordsShown

\* Changes of the list of buttons move what was asked to be moved (config.go).
ListChanges == B!ListChanges

\* Input goes on to the pane that is seen, and panes go only when closed (store.ts).
TabSteps == [][part = "tabs" => T!KeepsFocus /\ T!KeepsPanes]_panes

\* The queue runs each item once, in its turn and alone (FileBrowser.tsx).
ImplementsTransfers == U!ImplementsTransfers
=============================================================================
