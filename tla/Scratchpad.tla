----------------------------- MODULE Scratchpad -----------------------------
(***************************************************************************)
(* The pages of the scratchpad: the copy of the server, in memory and in   *)
(* scratchpad.json (scratchpad/scratchpad.go), the copy of every browser   *)
(* (frontend/src/Scratchpad.tsx), the WebSockets between them, and those   *)
(* who replace the server's copy as a whole: a WebDAV synchronisation      *)
(* (datasync/datasync.go) and whoever calls Reload (app.go).               *)
(*                                                                         *)
(* A page is the time of its last edit; title, text and lock are its data. *)
(* Times are the ticks of one clock, so that a time names a version.       *)
(***************************************************************************)
EXTENDS Naturals, FiniteSets, Sequences

CONSTANTS
    Browsers,
    Pages,      \* ids of pages
    FirstPage,  \* the page "Default" that Init makes
    MaxTime,    \* bound on the clock: one tick for what is done here or on another device
    MaxTroubles \* bound on lost connections, stops of the server, closed tabs,
                \*   deletions, and loads of replaced pages, together

ASSUME ScratchpadAssumption ==
    /\ IsFiniteSet(Pages) /\ IsFiniteSet(Browsers)
    /\ FirstPage \in Pages
    /\ MaxTime \in Nat \ {0} /\ MaxTroubles \in Nat

VARIABLES
    globalData, \* the server's pages
    file,       \* scratchpad.json
    jammed,     \* dataMu is held for ever, by a handler that panicked, or waits for
                \*   metaMu while cleanDeletedMaps has that and waits for dataMu
    conns,      \* connections the server broadcasts to
    hello,      \* the answer to a hello that is marshalled and not quite written yet
    missed,     \* history: browsers to which a panic lost a message, until they connect
    data,       \* a browser's pages: React's state and the cache
    dirty,      \* dirtyPageIds
    debounce,   \* the timer of one second is pending
    ws,         \* "gone" without a scratchpad tab, "off", or "on"
    asked,      \* the page whose deletion is being confirmed, and data then
    up,         \* messages from a browser
    down,       \* messages to a browser
    loader,     \* where each call of Reload is, and what it has read
    fate,       \* history: "unborn", "born", or "lost" once a page was deleted or
                \*   some copy of it was replaced by an older one
    clock,
    troubles

serverVars == <<globalData, file, jammed>>
browserVars == <<data, dirty, debounce, ws, asked>>
netVars == <<conns, hello, missed, up, down>>
vars == <<serverVars, browserVars, netVars, loader, fate, clock, troubles>>

\* A copy gives the time of each page; a page it does not have is at 0.
Times == 0 .. MaxTime
Copies == [Pages -> Times]
Empty == [p \in Pages |-> 0]
Has(copy) == {p \in Pages : copy[p] # 0}
Only(copy, ps) == [p \in Pages |-> IF p \in ps THEN copy[p] ELSE 0]
Without(copy, p) == [copy EXCEPT ![p] = 0]

\* mutant: the times are not compared
Merge_TakesAll(copy, new) == [p \in Pages |-> IF new[p] # 0 THEN new[p] ELSE copy[p]]

\* The newer version of each page; both ends merge with it.
Merge(copy, new) == [p \in Pages |-> IF new[p] > copy[p] THEN new[p] ELSE copy[p]]

Nothing == [type |-> "nothing"]
Hello == [type |-> "hello"]
Sync(copy) == [type |-> "sync", pages |-> copy]
Delete(p) == [type |-> "delete", id |-> p]
ForceSync(copy) == [type |-> "force_sync", pages |-> copy]

\* Who replaces pages: the synchronisation that runs (syncMu lets one in), and
\* a request that calls Reload (one at a time here).
Loaders == {"sync", "request"}
Idle == [at |-> "idle", pages |-> Empty, removed |-> {}]

Init ==
    /\ globalData = [Empty EXCEPT ![FirstPage] = 1] /\ file = globalData /\ jammed = FALSE
    /\ conns = {} /\ missed = {} /\ hello = [b \in Browsers |-> Nothing]
    /\ data = [b \in Browsers |-> Empty] /\ dirty = [b \in Browsers |-> {}]
    /\ debounce = [b \in Browsers |-> FALSE]
    /\ ws = [b \in Browsers |-> "gone"]
    /\ asked = [b \in Browsers |-> Nothing]
    /\ up = [b \in Browsers |-> <<>>] /\ down = [b \in Browsers |-> <<>>]
    /\ loader = [l \in Loaders |-> Idle]
    /\ fate = [p \in Pages |-> IF p = FirstPage THEN "born" ELSE "unborn"]
    /\ clock = 1 /\ troubles = 0

Trouble == troubles < MaxTroubles /\ troubles' = troubles + 1

\* What happens to the pages when new takes the place of old.
Replaces(old, new) ==
    fate' = [p \in Pages |-> IF new[p] < old[p] THEN "lost" ELSE fate[p]]

-----------------------------------------------------------------------------
(* The server.  A browser that is not connected gets nothing.              *)

Send(m, bs) ==
    down' = [b \in Browsers |->
                IF b \in bs /\ ws[b] = "on" THEN Append(down[b], m) ELSE down[b]]

\* HandleWS: the connection is upgraded and registered.
Accept(b) ==
    /\ b \notin conns /\ up[b] # <<>>
    /\ conns' = conns \cup {b}
    /\ UNCHANGED <<serverVars, browserVars, hello, missed, up, down, loader, fate, clock, troubles>>

\* The read loop takes the next message once it is done with the one before, and gets
\* dataMu.
Gets(b, type) ==
    /\ ~jammed
    /\ b \in conns /\ hello[b] = Nothing /\ up[b] # <<>>
    /\ Head(up[b]).type = type

Reads(b, type) ==
    /\ Gets(b, type)
    /\ up' = [up EXCEPT ![b] = Tail(@)]
    /\ UNCHANGED <<browserVars, conns, missed, loader, fate, clock, troubles>>

\* mutant: the answer to a hello replaces the browser's pages
ServeHello_Forces(b) ==
    /\ Reads(b, "hello")
    /\ hello' = [hello EXCEPT ![b] = ForceSync(globalData)]
    /\ UNCHANGED <<serverVars, down>>

\* hello: all pages are marshalled under dataMu and written after it.
ServeHello(b) ==
    /\ Reads(b, "hello")
    /\ hello' = [hello EXCEPT ![b] = Sync(globalData)]
    /\ UNCHANGED <<serverVars, down>>

WriteHello(b) ==
    /\ hello[b] # Nothing
    /\ Send(hello[b], {b})
    /\ hello' = [hello EXCEPT ![b] = Nothing]
    /\ UNCHANGED <<serverVars, browserVars, conns, missed, up, loader, fate, clock, troubles>>

\* sync: newer and unknown pages are taken, saved and sent to everybody.  The
\* acknowledgement of a message without any has no pages and is left out.
Newer(copy) == {p \in Pages : copy[p] > globalData[p]}

ServeSync(b) ==
    /\ Reads(b, "sync")
    /\ LET pages == Head(up[b]).pages IN
       IF Newer(pages) # {}
       THEN /\ globalData' = Merge(globalData, pages) /\ file' = globalData'
            /\ Send(Sync(Only(pages, Newer(pages))), conns)
       ELSE UNCHANGED <<globalData, file, down>>
    /\ UNCHANGED <<jammed, hello>>

\* delete: to everybody if the page was there, to the sender if not.  If it was,
\* OnPageDelete then waits for metaMu: for ever, when a synchronisation that begins has it.
ServeDelete(b) ==
    /\ Reads(b, "delete")
    /\ LET p == Head(up[b]).id IN
       IF globalData[p] # 0
       THEN /\ globalData' = Without(globalData, p) /\ file' = globalData'
            /\ Send(Delete(p), conns)
            /\ jammed' \in {FALSE, loader["sync"].at = "idle"}
       ELSE Send(Delete(p), {b}) /\ UNCHANGED serverVars
    /\ UNCHANGED hello

Handler(b) ==
    Accept(b) \/ ServeHello(b) \/ WriteHello(b) \/ ServeSync(b) \/ ServeDelete(b)

-----------------------------------------------------------------------------
(* The browser.                                                            *)

\* mutant: onopen pushes nothing
Connect_NoPush(b) ==
    /\ ws[b] # "on"
    /\ ws' = [ws EXCEPT ![b] = "on"]
    /\ up' = [up EXCEPT ![b] = <<Hello>>]
    /\ down' = [down EXCEPT ![b] = <<>>]
    /\ conns' = conns \ {b} /\ missed' = missed \ {b}
    /\ hello' = [hello EXCEPT ![b] = Nothing]
    /\ UNCHANGED <<serverVars, data, dirty, debounce, asked, loader, fate, clock, troubles>>

\* connectWS, up to onopen: a new connection, and whatever is left of the old
\* one is lost.  All pages are pushed, for the server to take what is newer.
Connect(b) ==
    /\ ws[b] # "on"
    /\ ws' = [ws EXCEPT ![b] = "on"]
    /\ up' = [up EXCEPT ![b] = IF Has(data[b]) = {} THEN <<Hello>> ELSE <<Hello, Sync(data[b])>>]
    /\ down' = [down EXCEPT ![b] = <<>>]
    /\ conns' = conns \ {b} /\ missed' = missed \ {b}
    /\ hello' = [hello EXCEPT ![b] = Nothing]
    /\ UNCHANGED <<serverVars, data, dirty, debounce, asked, loader, fate, clock, troubles>>

\* The tab is opened; the timer set by onclose runs out.
Open(b) == ws[b] = "gone" /\ Connect(b)
Reconnect(b) == ws[b] = "off" /\ Connect(b)

\* onmessage.
Receives(b, type) ==
    /\ ws[b] = "on" /\ down[b] # <<>> /\ Head(down[b]).type = type
    /\ down' = [down EXCEPT ![b] = Tail(@)]
    /\ UNCHANGED <<serverVars, dirty, debounce, ws, asked, conns, hello, missed, up, loader, clock,
                   troubles>>

\* mutant: the pages of the message take the place of all
OnSync_NoMerge(b) ==
    /\ Receives(b, "sync")
    /\ data' = [data EXCEPT ![b] = Head(down[b]).pages]
    /\ UNCHANGED fate

OnSync(b) ==
    /\ Receives(b, "sync")
    /\ data' = [data EXCEPT ![b] = Merge(@, Head(down[b]).pages)]
    /\ UNCHANGED fate

OnDelete(b) ==
    /\ Receives(b, "delete")
    /\ data' = [data EXCEPT ![b] = Without(@, Head(down[b]).id)]
    /\ UNCHANGED fate

OnForceSync(b) ==
    /\ Receives(b, "force_sync")
    /\ data' = [data EXCEPT ![b] = Head(down[b]).pages]
    /\ Replaces(data[b], data'[b])

\* A keystroke, a new title or a toggled lock.
Change(b, p) ==
    /\ ws[b] # "gone" /\ asked[b] = Nothing
    /\ clock < MaxTime /\ clock' = clock + 1
    /\ data' = [data EXCEPT ![b][p] = clock']
    /\ dirty' = [dirty EXCEPT ![b] = @ \cup {p}]
    /\ debounce' = [debounce EXCEPT ![b] = TRUE]
    /\ UNCHANGED <<serverVars, ws, asked, netVars, loader, troubles>>

Edit(b, p) == data[b][p] # 0 /\ Change(b, p) /\ UNCHANGED fate

AddPage(b, p) ==
    /\ fate[p] = "unborn"
    /\ Change(b, p)
    /\ fate' = [fate EXCEPT ![p] = "born"]

\* triggerSync, which also runs when the tab is closed: the dirty pages that
\* are still there are sent, if there is a connection.
DirtyPages(b) == dirty[b] \cap Has(data[b])
CanSync(b) == ws[b] = "on" /\ DirtyPages(b) # {}
SendDirty(b) == up' = [up EXCEPT ![b] = Append(@, Sync(Only(data[b], DirtyPages(b))))]

TriggerSync(b) ==
    /\ debounce[b]
    /\ debounce' = [debounce EXCEPT ![b] = FALSE]
    /\ IF CanSync(b)
       THEN SendDirty(b) /\ dirty' = [dirty EXCEPT ![b] = {}]
       ELSE UNCHANGED <<up, dirty>>
    /\ UNCHANGED <<serverVars, data, ws, asked, conns, hello, missed, down, loader, fate, clock, troubles>>

\* handleDelete asks first, and then takes the pages it knew when it asked: of
\* another page an older version may come back.
AskDelete(b, p) ==
    /\ ws[b] # "gone" /\ asked[b] = Nothing /\ Trouble
    /\ data[b][p] # 0 /\ Cardinality(Has(data[b])) > 1
    /\ asked' = [asked EXCEPT ![b] = [type |-> "asked", id |-> p, pages |-> data[b]]]
    /\ UNCHANGED <<serverVars, data, dirty, debounce, ws, netVars, loader, fate, clock>>

ConfirmDelete(b) ==
    /\ asked[b] # Nothing
    /\ LET p == asked[b].id IN
       /\ data' = [data EXCEPT ![b] = Without(asked[b].pages, p)]
       /\ up' = IF ws[b] = "on" THEN [up EXCEPT ![b] = Append(@, Delete(p))] ELSE up
       /\ Replaces([data[b] EXCEPT ![p] = clock], data'[b])  \* p, if only the server has it, too
    /\ asked' = [asked EXCEPT ![b] = Nothing]
    /\ UNCHANGED <<serverVars, dirty, debounce, ws, conns, hello, missed, down, loader, clock, troubles>>

\* The tab is closed: its cleanup sends what is dirty and closes the socket,
\* after which the server still reads what was sent.
CloseTab(b) ==
    /\ ws[b] # "gone" /\ Trouble
    /\ IF CanSync(b) THEN SendDirty(b) ELSE UNCHANGED up
    /\ ws' = [ws EXCEPT ![b] = "gone"] /\ down' = [down EXCEPT ![b] = <<>>]
    /\ dirty' = [dirty EXCEPT ![b] = {}] /\ debounce' = [debounce EXCEPT ![b] = FALSE]
    /\ asked' = [asked EXCEPT ![b] = Nothing]
    /\ UNCHANGED <<serverVars, data, conns, hello, missed, loader, fate, clock>>

\* onclose.  The server may have got all the browser has sent, or not.
Disconnect(b) ==
    /\ ws[b] = "on" /\ Trouble
    /\ ws' = [ws EXCEPT ![b] = "off"] /\ down' = [down EXCEPT ![b] = <<>>]
    /\ UNCHANGED <<serverVars, data, dirty, debounce, asked, conns, hello, missed, up, loader, fate, clock>>

-----------------------------------------------------------------------------
(* The server stops and starts; all pages are replaced.                    *)

\* Init: what the file has, or a new default page.
Start(pages) ==
    /\ globalData' = pages /\ jammed' = FALSE
    /\ conns' = {} /\ missed' = {} /\ hello' = [b \in Browsers |-> Nothing]
    /\ up' = [b \in Browsers |-> <<>>] /\ down' = [b \in Browsers |-> <<>>]
    /\ ws' = [b \in Browsers |-> IF ws[b] = "on" THEN "off" ELSE ws[b]]
    /\ loader' = [l \in Loaders |-> Idle]
    /\ UNCHANGED <<data, dirty, debounce, asked>>

Restart ==
    /\ Has(file) # {} /\ Trouble
    /\ Start(file)
    /\ UNCHANGED <<file, fate, clock>>

RestartEmpty(p) ==
    /\ Has(file) = {} /\ fate[p] = "unborn"
    /\ clock < MaxTime /\ clock' = clock + 1
    /\ Start([Empty EXCEPT ![p] = clock'])
    /\ file' = globalData'
    /\ fate' = [fate EXCEPT ![p] = "born"]
    /\ UNCHANGED troubles

LoaderAt(l, from, next) ==
    /\ loader[l].at = from
    /\ loader' = [loader EXCEPT ![l] = next]
    /\ UNCHANGED <<jammed, browserVars, conns, hello, missed, up>>

\* performSync copies the pages, compares them with the files on the WebDAV
\* server, and finds that another device has edited or deleted one.
SyncCopies(p) ==
    /\ ~jammed
    /\ globalData[p] # 0 /\ Trouble
    /\ clock < MaxTime /\ clock' = clock + 1
    /\ \/ LoaderAt("sync", "idle", [at |-> "copied", pages |-> [Empty EXCEPT ![p] = clock'], removed |-> {}])
       \/ LoaderAt("sync", "idle", [at |-> "copied", pages |-> Empty, removed |-> {p}])
    /\ UNCHANGED <<globalData, file, down, fate>>

\* UpsertPages forces what was found over whatever the pages are by now.
UpsertPages ==
    /\ ~jammed
    /\ LoaderAt("sync", "copied", [Idle EXCEPT !.at = "upserted"])
    /\ LET found == loader["sync"] IN
       globalData' = [p \in Pages |-> IF p \in found.removed THEN 0
                                      ELSE IF found.pages[p] # 0 THEN found.pages[p]
                                      ELSE globalData[p]]
    /\ Replaces(globalData, globalData')
    /\ file' = globalData'
    /\ UNCHANGED <<down, clock, troubles>>

\* Reload reads the file without a lock, and is done if that has no pages, ...
Reading == IF Has(file) = {} THEN Idle ELSE [Idle EXCEPT !.at = "read", !.pages = file]

ReloadReads(l) ==
    /\ \/ l = "sync" /\ LoaderAt(l, "upserted", Reading) /\ UNCHANGED troubles
       \/ l = "request" /\ LoaderAt(l, "idle", Reading) /\ Has(file) # {} /\ Trouble
    /\ UNCHANGED <<globalData, file, down, fate, clock>>

\* ... replaces the pages under dataMu, ...
ReloadSets(l) ==
    /\ ~jammed
    /\ LoaderAt(l, "read", [loader[l] EXCEPT !.at = "set"])
    /\ globalData' = loader[l].pages
    /\ Replaces(globalData, globalData')
    /\ UNCHANGED <<file, down, clock, troubles>>

\* ... and tells everybody after it.
ReloadSends(l) ==
    /\ LoaderAt(l, "set", Idle)
    /\ Send(ForceSync(loader[l].pages), conns)
    /\ UNCHANGED <<globalData, file, fate, clock, troubles>>

Reload(l) == ReloadReads(l) \/ ReloadSets(l) \/ ReloadSends(l)

-----------------------------------------------------------------------------
(* Two writers of one connection: the library panics in one of them.  They *)
(* are the answer to a hello, which is written without a lock; a handler   *)
(* that broadcasts or acknowledges, with dataMu; and Reload, without it.   *)
(* net/http recovers a handler that panics, and its deferred functions     *)
(* close the connection.                                                   *)

\* The message at hand changes pages and is broadcast, or is acknowledged.
HasNews(b) == Gets(b, "sync") /\ Newer(Head(up[b]).pages) # {}
HasDelete(b) == Gets(b, "delete") /\ globalData[Head(up[b]).id] # 0
Broadcasts(b) == HasNews(b) \/ HasDelete(b)
Acknowledges(b) == (Gets(b, "sync") \/ Gets(b, "delete")) /\ ~Broadcasts(b)
Reloads == \E l \in Loaders : loader[l].at = "set"

\* The handler of b has panicked.
Ends(b) ==
    /\ conns' = conns \ {b}
    /\ ws' = [ws EXCEPT ![b] = IF @ = "on" THEN "off" ELSE @]
    /\ up' = [up EXCEPT ![b] = <<>>]
    /\ UNCHANGED <<data, dirty, debounce, asked, fate, clock>>

\* Some connections have got the message before the panic; on that of c what is
\* written may be lost, the answer to a hello, too.
CutShort(m, c) ==
    \E got \in SUBSET conns :
        /\ Send(m, got)
        /\ missed' = missed \cup {c} \cup (conns \ got)
        /\ hello' = hello \/ hello' = [hello EXCEPT ![c] = Nothing]

\* The answer to a hello: the others go on.
HelloPanics(b) ==
    /\ hello[b] # Nothing /\ Trouble
    /\ Reloads \/ \E e \in Browsers : Broadcasts(e)
    /\ Ends(b)
    /\ hello' = [hello EXCEPT ![b] = Nothing]
    /\ UNCHANGED <<serverVars, missed, down, loader>>

\* A broadcast of a handler, which has changed the pages and saved them; or its
\* acknowledgement.  dataMu stays locked.
ServePanics(b) ==
    /\ \/ /\ HasNews(b)
          /\ globalData' = Merge(globalData, Head(up[b]).pages) /\ file' = globalData'
          /\ LET pages == Head(up[b]).pages IN
             \E c \in conns : hello[c] # Nothing /\ CutShort(Sync(Only(pages, Newer(pages))), c)
       \/ /\ HasDelete(b)
          /\ globalData' = Without(globalData, Head(up[b]).id) /\ file' = globalData'
          /\ \E c \in conns : hello[c] # Nothing /\ CutShort(Head(up[b]), c)
       \/ Acknowledges(b) /\ Reloads /\ UNCHANGED <<globalData, file, hello, missed, down>>
    /\ Ends(b)
    /\ jammed' = TRUE
    /\ UNCHANGED <<loader, troubles>>

\* The broadcast of Reload in a request; outside of one the panic stops the server.
ReloadPanics(l) ==
    /\ loader[l].at = "set"
    /\ loader' = [loader EXCEPT ![l] = Idle]
    /\ \E c \in conns :
          /\ hello[c] # Nothing \/ Acknowledges(c)
          /\ CutShort(ForceSync(loader[l].pages), c)
    /\ UNCHANGED <<serverVars, browserVars, conns, up, fate, clock, troubles>>

-----------------------------------------------------------------------------

Message(b) == OnSync(b) \/ OnDelete(b) \/ OnForceSync(b)

User(b) ==
    \/ \E p \in Pages : Edit(b, p) \/ AddPage(b, p) \/ AskDelete(b, p)
    \/ ConfirmDelete(b)
    \/ Open(b) \/ CloseTab(b)

Next ==
    \/ \E b \in Browsers :
          Handler(b) \/ Message(b) \/ User(b) \/ Reconnect(b) \/ TriggerSync(b) \/ Disconnect(b)
    \/ \E b \in Browsers : HelloPanics(b) \/ ServePanics(b)
    \/ UpsertPages \/ \E l \in Loaders : Reload(l) \/ ReloadPanics(l)
    \/ \E p \in Pages : SyncCopies(p)
    \/ Restart \/ \E p \in Pages : RestartEmpty(p)

Spec == Init /\ [][Next]_vars

\* Handlers and calls of Reload that wait for no lock go on, and timers and the browsers'
\* event loops.
FairSpec ==
    /\ Spec
    /\ \A b \in Browsers :
          /\ WF_vars(Handler(b)) /\ WF_vars(Message(b))
          /\ WF_vars(Reconnect(b)) /\ WF_vars(TriggerSync(b))
    /\ WF_vars(UpsertPages) /\ \A l \in Loaders : WF_vars(ReloadSets(l) \/ ReloadSends(l))
    /\ WF_vars(ReloadReads("sync"))

-----------------------------------------------------------------------------
(* Properties *)

\* The variables have their types.
Messages ==
    {Hello} \cup {Delete(p) : p \in Pages}
        \cup [type : {"sync", "force_sync"}, pages : Copies]

TypeOK ==
    /\ {globalData, file} \subseteq Copies
    /\ jammed \in BOOLEAN /\ {conns, missed} \subseteq SUBSET Browsers
    /\ hello \in [Browsers -> {Nothing} \cup [type : {"sync"}, pages : Copies]]
    /\ data \in [Browsers -> Copies]
    /\ dirty \in [Browsers -> SUBSET Pages] /\ debounce \in [Browsers -> BOOLEAN]
    /\ ws \in [Browsers -> {"gone", "off", "on"}]
    /\ asked \in [Browsers -> {Nothing} \cup [type : {"asked"}, id : Pages, pages : Copies]]
    /\ \A b \in Browsers : up[b] \in Seq(Messages) /\ down[b] \in Seq(Messages)
    /\ loader \in [Loaders -> [at : {"idle", "copied", "upserted", "read", "set"}, pages : Copies, removed : SUBSET Pages]]
    /\ fate \in [Pages -> {"unborn", "born", "lost"}]
    /\ clock \in Times /\ troubles \in 0 .. MaxTroubles

\* When nothing is on its way or pending, an open scratchpad shows the version
\* of a page that the server has, whatever edits, broken connections, closed
\* tabs, stops and reloads there were, and even if a handler has panicked: as long
\* as no copy of this page was deleted or replaced by an older one, and no panic
\* lost a message to this browser since it connected.
Settled ==
    /\ \A b \in Browsers :
          /\ up[b] = <<>> /\ down[b] = <<>> /\ hello[b] = Nothing
          /\ ws[b] # "off" /\ ~debounce[b]
    /\ \A l \in Loaders : loader[l] = Idle

MergesConverge ==
    Settled => \A b \in Browsers, p \in Pages :
                  ws[b] = "on" /\ b \notin missed /\ fate[p] = "born"
                      => data[b][p] = globalData[p]

\* The newest version of a page is never lost while no copy of it was deleted
\* or replaced: not by connections that break with messages on the way, by tabs
\* that are closed, a server that stops, browsers that push old pages, or the
\* deletion of another page with an old list.
Newest(p) ==
    CHOOSE t \in Times :
        /\ t = globalData[p] \/ \E b \in Browsers : t = data[b][p]
        /\ globalData[p] <= t /\ \A b \in Browsers : data[b][p] <= t

NothingLost ==
    [][\A p \in Pages : Newest(p)' < Newest(p) => fate'[p] = "lost"]_vars

\* An open scratchpad never stays ahead of the server: its edits arrive, however
\* the connection breaks and whatever the timer missed, unless a copy of the
\* page was deleted or replaced, or dataMu is jammed.
Ahead(b) == \E p \in Pages : fate[p] = "born" /\ data[b][p] > globalData[p]

EditsArrive == \A b \in Browsers : Ahead(b) ~> ws[b] = "gone" \/ ~Ahead(b) \/ jammed
=============================================================================
