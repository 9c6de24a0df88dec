----------------------------- MODULE StorageSync -----------------------------
(***************************************************************************)
(* What the windows of one browser share (store.ts): localStorage, the     *)
(* storage events by which a window hears of the others' writes, and the   *)
(* channel on which a logout is announced.                                 *)
(*                                                                         *)
(* A value is the set of writes that are in it.  "vars" also has a copy on *)
(* the server; "recents" stands for all the keys that only setters of      *)
(* store.ts write (recent buttons, what is expanded).                      *)
(***************************************************************************)
EXTENDS Naturals, FiniteSets, Sequences, SequencesExt

CONSTANTS
    Windows,
    MaxWrites   \* bound on the writes and logouts, together

VARIABLES
    storage,    \* localStorage, but for the token
    token,      \* there is a token in localStorage
    store,      \* of each window: its zustand store
    serverVars, \* /api/vars
    mode,       \* of each window: "in", "closing" (the requests of logout are under
                \*   way), "caches" (safeLogout awaits the caches) or "login"
    putting,    \* of each window: the new vars that csSetVars has sent, or none
    events,     \* of each window: storage events to come
    news,       \* of each window: messages of the channel to come
    writes,
    crossed,    \* history, of each key: a window wrote or cleared it before it had
                \*   heard of another's write, or got it from the server
    late        \* history: something was written after a logout had cleared all

vars == <<storage, token, store, serverVars, mode, putting, events, news, writes, crossed, late>>

Keys == {"vars", "localVars", "recents"}

Hears(w, k) == \E n \in DOMAIN events[w] : events[w][n].key = k
Event(k, v) == [key |-> k, newValue |-> v]

\* setVars, setLocalVars, updateRecentButtonId, setExpandedGroups: the others get
\* an event if the value is another one.
Put(w, k, v) ==
    /\ storage' = [storage EXCEPT ![k] = v]
    /\ store' = [store EXCEPT ![w][k] = v]
    /\ events' = [x \in Windows |->
                    IF x = w \/ v = storage[k] THEN events[x] ELSE Append(events[x], Event(k, v))]
    /\ crossed' = [crossed EXCEPT ![k] =
                    \/ Hears(w, k)
                    \/ @ /\ (v = storage[k] \/ \E x \in Windows : Hears(x, k))]
    /\ late' = (late \/ ~token)

Changed(S) == {S \cup {writes + 1}} \cup {S \ {x} : x \in S}

Write(w, k) ==
    /\ k # "vars" /\ mode[w] \in {"in", "closing", "caches"}
    /\ writes < MaxWrites /\ writes' = writes + 1
    /\ \E v \in Changed(store[w][k]) : Put(w, k, v)
    /\ UNCHANGED <<token, serverVars, mode, putting, news>>

\* csSetVars: the server first, then what the store has by then.
SetVars(w) ==
    /\ mode[w] = "in" /\ putting[w] = {}
    /\ writes < MaxWrites /\ writes' = writes + 1
    /\ serverVars' = serverVars \cup {writes'}
    /\ putting' = [putting EXCEPT ![w] = {writes'}]
    /\ UNCHANGED <<storage, token, store, mode, events, news, crossed, late>>

SetVarsAnswered(w) ==
    /\ putting[w] # {} /\ putting' = [putting EXCEPT ![w] = {}]
    /\ \/ Put(w, "vars", store[w]["vars"] \cup putting[w])
       \/ UNCHANGED <<storage, store, events, crossed, late>>
    /\ UNCHANGED <<token, serverVars, mode, news, writes>>

\* refreshData, and the first load: the vars of the server, not told to anybody.
RefreshData(w) ==
    /\ mode[w] = "in" /\ store[w]["vars"] # serverVars
    /\ store' = [store EXCEPT ![w]["vars"] = serverVars]
    /\ crossed' = [crossed EXCEPT !["vars"] = TRUE]
    /\ UNCHANGED <<storage, token, serverVars, mode, putting, events, news, writes, late>>

\* mutant: the recent buttons have no case
StorageEvent_NoRecents(w) ==
    /\ events[w] # <<>>
    /\ LET e == Head(events[w])
       IN store' = IF e.key = "recents" THEN store ELSE [store EXCEPT ![w][e.key] = e.newValue]
    /\ events' = [events EXCEPT ![w] = Tail(@)]
    /\ UNCHANGED <<storage, token, serverVars, mode, putting, news, writes, crossed, late>>

\* The listener of storage events.
StorageEvent(w) ==
    /\ events[w] # <<>>
    /\ LET e == Head(events[w]) IN store' = [store EXCEPT ![w][e.key] = e.newValue]
    /\ events' = [events EXCEPT ![w] = Tail(@)]
    /\ UNCHANGED <<storage, token, serverVars, mode, putting, news, writes, crossed, late>>

-----------------------------------------------------------------------------
(* Logging out and in.                                                     *)

\* logout and logoutAll, confirmed: the requests that close the sessions.
Logout(w) ==
    /\ mode[w] = "in" /\ mode' = [mode EXCEPT ![w] = "closing"]
    /\ UNCHANGED <<storage, token, store, serverVars, putting, events, news, writes, crossed, late>>

Kept(preserve) == IF preserve THEN {"localVars"} ELSE {}

\* safeLogout: removing keys one by one is told to the others, clear() has an
\* event without a key, which the listener has no case for.
SafeLogout(w, preserve) ==
    LET removed == {k \in Keys \ Kept(preserve) : storage[k] # {}}
    IN /\ mode[w] \in {"in", "closing"}
       /\ writes < MaxWrites /\ writes' = writes + 1
       /\ mode' = [mode EXCEPT ![w] = "caches"]
       /\ storage' = [k \in Keys |-> IF k \in Kept(preserve) THEN storage[k] ELSE {}]
       /\ token' = FALSE /\ late' = FALSE
       /\ store' = [store EXCEPT ![w] =
                      [k \in Keys |-> IF k \in Kept(preserve) THEN @[k] ELSE {}]]
       /\ events' = IF preserve
                    THEN [x \in Windows |->
                            IF x = w THEN events[x]
                            ELSE events[x] \o [n \in 1 .. Cardinality(removed) |->
                                                  Event(SetToSeq(removed)[n], {})]]
                    ELSE events
       /\ crossed' = [k \in Keys |-> k \notin Kept(preserve) \/ crossed[k]]
       /\ UNCHANGED <<serverVars, putting, news>>

\* A page that is loaded: what awaited an answer is gone.
Loaded(w) ==
    /\ store' = [store EXCEPT ![w] = storage]
    /\ events' = [events EXCEPT ![w] = <<>>]
    /\ putting' = [putting EXCEPT ![w] = {}]
    /\ mode' = [mode EXCEPT ![w] = IF token THEN "in" ELSE "login"]

\* The end of safeLogout: the message, and the login page.
Leaves(w) ==
    /\ mode[w] = "caches" /\ Loaded(w)
    /\ news' = [x \in Windows |-> news[x] + IF x = w THEN 0 ELSE 1]
    /\ UNCHANGED <<storage, token, serverVars, writes, crossed, late>>

\* channel.onmessage: clearData, and the page is loaded anew.
LogoutMessage(w) ==
    /\ news[w] > 0 /\ Loaded(w)
    /\ news' = [news EXCEPT ![w] = 0]
    /\ UNCHANGED <<storage, token, serverVars, writes, crossed, late>>

\* handleLogin; /api/login brings the full data.
Login(w) ==
    /\ mode[w] = "login" /\ mode' = [mode EXCEPT ![w] = "in"]
    /\ token' = TRUE
    /\ store' = [store EXCEPT ![w]["vars"] = serverVars]
    /\ crossed' = [crossed EXCEPT !["vars"] = TRUE]
    /\ UNCHANGED <<storage, serverVars, putting, events, news, writes, late>>

-----------------------------------------------------------------------------

Init ==
    /\ storage = [k \in Keys |-> {}] /\ token = TRUE
    /\ store = [w \in Windows |-> storage] /\ serverVars = {}
    /\ mode = [w \in Windows |-> "in"] /\ putting = [w \in Windows |-> {}]
    /\ events = [w \in Windows |-> <<>>] /\ news = [w \in Windows |-> 0]
    /\ writes = 0 /\ crossed = [k \in Keys |-> FALSE] /\ late = FALSE

Next ==
    \E w \in Windows :
        \/ \E k \in Keys : Write(w, k)
        \/ SetVars(w)
        \/ SetVarsAnswered(w)
        \/ RefreshData(w)
        \/ StorageEvent(w)
        \/ Logout(w)
        \/ \E preserve \in BOOLEAN : SafeLogout(w, preserve)
        \/ Leaves(w)
        \/ LogoutMessage(w)
        \/ Login(w)

Spec == Init /\ [][Next]_vars

-----------------------------------------------------------------------------

Values == SUBSET (1 .. MaxWrites)

TypeOK ==
    /\ storage \in [Keys -> Values] /\ store \in [Windows -> [Keys -> Values]]
    /\ token \in BOOLEAN /\ late \in BOOLEAN /\ serverVars \in Values
    /\ mode \in [Windows -> {"in", "closing", "caches", "login"}]
    /\ putting \in [Windows -> Values] /\ news \in [Windows -> Nat]
    /\ \A w \in Windows : \A n \in DOMAIN events[w] :
          events[w][n].key \in Keys /\ events[w][n].newValue \in Values
    /\ writes \in 0 .. MaxWrites /\ crossed \in [Keys -> BOOLEAN]

\* "updates from other browser tabs sync instantaneously" (store.ts:1268): a
\* window that has heard of every write shows what is stored, through logouts
\* and reloads; only writes that crossed each other may leave two windows with
\* each other's value.
StoresSettle ==
    \A k \in Keys, w \in Windows :
        ~crossed[k] /\ mode[w] = "in" /\ ~Hears(w, k) => store[w][k] = storage[k]

\* "All data stored in this browser will be cleared": when every window is at
\* the login page, nothing is left but the local variables, or what a window
\* wrote before it heard of the logout (store.ts, safeLogout).
LogoutClears ==
    (\A w \in Windows : mode[w] = "login") /\ ~late =>
        \A k \in Keys \ {"localVars"} : storage[k] = {}

\* Both: windows agree on what is stored, and leave nothing (store.ts).
StorageSafe == StoresSettle /\ LogoutClears
=============================================================================
