---------------------- MODULE SessionLifecycle_proofs ----------------------
(***************************************************************************)
(* Safety of SessionLifecycle for any number of ids, connections, Session  *)
(* objects, timers and requests: its type invariant, the discipline of the *)
(* listener channels, the disconnect timers and the absence of ghosts.     *)
(***************************************************************************)
EXTENDS SessionLifecycle, TLAPS

\* Which handler's local variables refer to which session.
Serving == {"steal", "state", "unhide", "cancel", "attach", "serve", "unlisten", "clear"}
Before == {"idle", "reconnectClose", "reconnectRemove", "get", "create"}

\* Pointers: a step that uses a local variable finds a session in it.
Pointers ==
    /\ \A h \in Handlers : pc[h] \in Serving \cup {"add"} => hsess[h] \in Sessions
    /\ \A h \in Handlers : pc[h] \in {"reconnectClose", "unlisten"} => hfound[h] \in Sessions
    /\ \A r \in Requests : rpc[r] \in {"set", "clear", "check", "remove"} => rsess[r] \in Sessions

\* Owners: a registered session, and one that a handler holds, has been
\* created for the id in question, and the one a handler is about to register
\* is known to no other.
Owners ==
    /\ \A i \in Ids : sessions[i] # NoSession =>
          sid[sessions[i]] = i /\ run[sessions[i]] # "free"
    /\ \A h \in Handlers : pc[h] \in Before => hsess[h] = NoSession
    /\ \A h \in Handlers : hsess[h] # NoSession =>
          sid[hsess[h]] = hid[h] /\ run[hsess[h]] # "free"
    /\ \A h \in Handlers : pc[h] = "add" =>
          /\ \A g \in Handlers \ {h} : hsess[g] # hsess[h]
          /\ \A i \in Ids : sessions[i] # hsess[h]

\* Held: what a request has looked up to set its state was created.
Held == \A r \in Requests : rpc[r] \in {"set", "clear"} => run[rsess[r]] # "free"

\* Channels: one is made when its handler attaches, not before.
Channels ==
    /\ ListedChannelsOpen
    /\ \A h \in Handlers : chan[h] # "none" => pc[h] \in {"serve", "unlisten", "clear", "gone"}

\* Ghosts: a handler that leaves, or has left, its channel behind did so in a
\* session that is no longer registered, and never will be again.
Ghosts ==
    /\ \A h \in Handlers : pc[h] = "unlisten" /\ hfound[h] # hsess[h] =>
          \A i \in Ids : sessions[i] # hsess[h]
    /\ \A h \in Handlers, s \in Sessions :
          h \in listeners[s] /\ pc[h] \in {"clear", "gone"} =>
             \A i \in Ids : sessions[i] # s

\* Timed: what an idle session waits for.  A handler counts once it is sure to
\* come to ClearInactive: one that may still fail to create does not.
Awaited(i) ==
    \/ \E t \in Timers : timerState[t] # "idle" /\ timerId[t] = i
    \/ \E h \in Handlers : hid[h] = i /\ pc[h] \in Serving
    \/ \E r \in Requests : rpc[r] = "clear" /\ sid[rsess[r]] = i

Idle(i) == sessions[i] # NoSession /\ tabState[sessions[i]] = 0 /\ listeners[sessions[i]] = {}

Timed == \A i \in Ids : Idle(i) => Awaited(i)

-----------------------------------------------------------------------------
(* The type invariant *)

TypeInv == TypeOK /\ Pointers

LEMMA SomeIdIsId == SomeId \in Ids
  BY ConstantsAssumption DEF SomeId

LEMMA TypeInit == Init => TypeInv
  BY SomeIdIsId, ConstantsAssumption
  DEF Init, TypeInv, TypeOK, MgrTypeOK, SessTypeOK, WsTypeOK, ApiTypeOK,
      Pointers, Serving, TabStates, RunStates, Steps, ApiSteps, StateMsgs

\* Where a request returns, its variables keep their types.
LEMMA ReturnType ==
    ASSUME ApiTypeOK, NEW r \in Requests, Return(r)
    PROVE  /\ ApiTypeOK'
           /\ \A q \in Requests : rpc'[q] # "idle" => rpc'[q] = rpc[q] /\ rsess'[q] = rsess[q]
  BY DEF Return, ApiTypeOK, ApiSteps, TabStates

LEMMA ClearInactiveType ==
    ASSUME MgrTypeOK, NEW i \in Ids, ClearInactive(i)
    PROVE  MgrTypeOK'
<1>1. CASE Inactive(i)
  BY <1>1 DEF ClearInactive, MgrTypeOK
<1>2. CASE ~Inactive(i)
  BY <1>2 DEF ClearInactive, MgrTypeOK, mgrVars
<1>q. QED
  BY <1>1, <1>2

LEMMA TypeStep == TypeInv /\ [Next]_vars => TypeInv'
<1> SUFFICES ASSUME TypeInv, [Next]_vars PROVE TypeInv'
  OBVIOUS
<1> USE ConstantsAssumption
    DEF TypeInv, TypeOK, MgrTypeOK, SessTypeOK, WsTypeOK, ApiTypeOK,
        Pointers, Serving, TabStates, RunStates, Steps, ApiSteps, StateMsgs,
        mgrVars, sessVars, wsVars, apiVars
<1>1. ASSUME NEW h \in Handlers, NEW i \in Ids, NEW reconnect \in BOOLEAN, Connect(h, i, reconnect)
      PROVE  TypeInv'
  <2>1. hfound' \in [Handlers -> Sessions \cup {NoSession}] /\ pc' \in [Handlers -> Steps]
    <3>1. CASE reconnect /\ sessions[i] # NoSession
      <4>1. /\ pc' = [pc EXCEPT ![h] = "reconnectClose"]
            /\ hfound' = [hfound EXCEPT ![h] = sessions[i]]
        BY <1>1, <3>1 DEF Connect, Goto
      <4>q. QED
        BY <4>1
    <3>2. CASE ~(reconnect /\ sessions[i] # NoSession)
      <4>1. pc' = [pc EXCEPT ![h] = "get"] /\ hfound' = hfound
        BY <1>1, <3>2 DEF Connect, Goto
      <4>q. QED
        BY <4>1
    <3>q. QED
      BY <3>1, <3>2
  <2>2. MgrTypeOK' /\ SessTypeOK' /\ ApiTypeOK'
    BY <1>1 DEF Connect
  <2>3. WsTypeOK'
    BY <1>1, <2>1 DEF Connect
  <2>4. Pointers'
    <3>1. \A g \in Handlers \ {h} : pc'[g] = pc[g] /\ hfound'[g] = hfound[g]
      BY <1>1 DEF Connect, Goto
    <3>2. pc'[h] \in {"reconnectClose", "get"} /\ (pc'[h] = "reconnectClose" => hfound'[h] \in Sessions)
      BY <1>1 DEF Connect, Goto
    <3>q. QED
      BY <1>1, <3>1, <3>2 DEF Connect
  <2>q. QED
    BY <2>2, <2>3, <2>4
<1>2. ASSUME NEW h \in Handlers, ReconnectClose(h)
      PROVE  TypeInv'
  BY <1>2 DEF ReconnectClose, Goto, Close
<1>3. ASSUME NEW h \in Handlers, ReconnectRemove(h)
      PROVE  TypeInv'
  BY <1>3 DEF ReconnectRemove, Goto, Remove, Stopped
<1>4. ASSUME NEW h \in Handlers, GetSession(h)
      PROVE  TypeInv'
  BY <1>4 DEF GetSession, Goto
<1>5. ASSUME NEW h \in Handlers, CreateSession(h)
      PROVE  TypeInv'
  BY <1>5 DEF CreateSession, Goto
<1>6. ASSUME NEW h \in Handlers, CreateFails(h)
      PROVE  TypeInv'
  BY <1>6 DEF CreateFails, Goto
<1>7. ASSUME NEW h \in Handlers, AddSession(h)
      PROVE  TypeInv'
  BY <1>7 DEF AddSession, Goto
<1>8. ASSUME NEW h \in Handlers, Steal(h)
      PROVE  TypeInv'
  BY <1>8 DEF Steal, Goto, Broadcast, Closed, Forgotten
<1>9. ASSUME NEW h \in Handlers, NoQueryState(h)
      PROVE  TypeInv'
  BY <1>9 DEF NoQueryState, Goto
<1>10. ASSUME NEW h \in Handlers, Unhide(h)
      PROVE  TypeInv'
  BY <1>10 DEF Unhide, Goto
<1>11. ASSUME NEW h \in Handlers, CancelTimer(h)
      PROVE  TypeInv'
  BY <1>11 DEF CancelTimer, Goto, Stopped
<1>12. ASSUME NEW h \in Handlers, Attach(h)
      PROVE  TypeInv'
  BY <1>12 DEF Attach, Goto
<1>13. ASSUME NEW h \in Handlers, Lookup(h)
      PROVE  TypeInv'
  BY <1>13 DEF Lookup, Goto
<1>14. ASSUME NEW h \in Handlers, Unlisten(h)
      PROVE  TypeInv'
  BY <1>14 DEF Unlisten, Goto, Closed
<1>15. ASSUME NEW h \in Handlers, Leave(h)
      PROVE  TypeInv'
  <2>1. ClearInactive(hid[h]) /\ hid[h] \in Ids
    BY <1>15 DEF Leave
  <2>2. MgrTypeOK'
    BY <2>1, ClearInactiveType
  <2>q. QED
    BY <1>15, <2>2 DEF Leave, Goto
<1>16. ASSUME NEW h \in Handlers, ClientLeaves(h)
      PROVE  TypeInv'
  BY <1>16 DEF ClientLeaves
<1>17. ASSUME NEW h \in Handlers, WriterCloses(h)
      PROVE  TypeInv'
  BY <1>17 DEF WriterCloses
<1>18. ASSUME NEW h \in Handlers, NEW k \in Wanted, QueryState(h, k)
      PROVE  TypeInv'
  BY <1>18 DEF QueryState, Goto
<1>19. ASSUME NEW s \in Sessions, ReadEOF(s)
      PROVE  TypeInv'
  BY <1>19 DEF ReadEOF, Broadcast, Run
<1>20. ASSUME NEW s \in Sessions, ReadError(s)
      PROVE  TypeInv'
  BY <1>20 DEF ReadError, Run
<1>21. ASSUME NEW s \in Sessions, RetryFails(s)
      PROVE  TypeInv'
  <2>1. retries[s] \in 0..(MaxRetries - 1) /\ MaxRetries \in Nat
    OBVIOUS
  <2>2. (IF retries[s] + 1 = MaxRetries THEN 0 ELSE retries[s] + 1) \in 0..(MaxRetries - 1)
    BY <2>1
  <2>3. retries' \in [Sessions -> 0..(MaxRetries - 1)]
    BY <1>21, <2>2 DEF RetryFails
  <2>q. QED
    BY <1>21, <2>3 DEF RetryFails, Run
<1>22. ASSUME NEW s \in Sessions, RetryFatal(s)
      PROVE  TypeInv'
  BY <1>22 DEF RetryFatal, Broadcast, Run
<1>23. ASSUME NEW s \in Sessions, RetrySucceeds(s)
      PROVE  TypeInv'
  BY <1>23 DEF RetrySucceeds, Run
<1>24. ASSUME NEW s \in Sessions, CloseListeners(s)
      PROVE  TypeInv'
  BY <1>24 DEF CloseListeners, Closed, Forgotten, Run
<1>25. ASSUME NEW s \in Sessions, RunRemoves(s)
      PROVE  TypeInv'
  BY <1>25 DEF RunRemoves, Remove, Stopped, Run
<1>26. ASSUME NEW s \in Sessions, LinkEnds(s)
      PROVE  TypeInv'
  BY <1>26 DEF LinkEnds, Close
<1>27. ASSUME NEW t \in Timers, TimerFires(t)
      PROVE  TypeInv'
  BY <1>27 DEF TimerFires
<1>28. ASSUME NEW t \in Timers, TimerCallback(t)
      PROVE  TypeInv'
  BY <1>28 DEF TimerCallback, Close
<1>29. ASSUME NEW r \in Requests, NEW i \in Ids, NEW k \in Wanted, ApiState(r, i, k)
      PROVE  TypeInv'
  BY <1>29 DEF ApiState, Continue
<1>30. ASSUME NEW r \in Requests, NEW i \in Ids, ApiClose(r, i)
      PROVE  TypeInv'
  BY <1>30 DEF ApiClose, Continue
<1>31. ASSUME NEW r \in Requests, ApiSet(r)
      PROVE  TypeInv'
  <2>1. CASE rwant[r] = 0
    <3>1. Continue(r, "clear") /\ UNCHANGED <<rsess, rwant, rtodo>>
      BY <1>31, <2>1 DEF ApiSet
    <3>2. rpc' = [rpc EXCEPT ![r] = "clear"] /\ rpc[r] = "set"
      BY <1>31, <3>1 DEF ApiSet, Continue
    <3>3. ApiTypeOK'
      BY <3>1, <3>2
    <3>q. QED
      BY <1>31, <3>1, <3>2, <3>3 DEF ApiSet
  <2>2. CASE rwant[r] # 0
    <3>1. Return(r)
      BY <1>31, <2>2 DEF ApiSet
    <3>2. ApiTypeOK' /\ \A q \in Requests : rpc'[q] # "idle" => rpc'[q] = rpc[q] /\ rsess'[q] = rsess[q]
      BY <3>1, ReturnType
    <3>q. QED
      BY <1>31, <3>2 DEF ApiSet
  <2>q. QED
    BY <2>1, <2>2
<1>32. ASSUME NEW r \in Requests, ApiClear(r)
      PROVE  TypeInv'
  <2>1. ClearInactive(sid[rsess[r]]) /\ sid[rsess[r]] \in Ids /\ Return(r)
    BY <1>32 DEF ApiClear
  <2>2. MgrTypeOK'
    BY <2>1, ClearInactiveType
  <2>3. ApiTypeOK' /\ \A q \in Requests : rpc'[q] # "idle" => rpc'[q] = rpc[q] /\ rsess'[q] = rsess[q]
    BY <2>1, ReturnType
  <2>q. QED
    BY <1>32, <2>2, <2>3 DEF ApiClear
<1>33. ASSUME NEW r \in Requests, ApiCheck(r)
      PROVE  TypeInv'
  <2>1. CASE Locked(rsess[r])
    <3>1. Return(r)
      BY <1>33, <2>1 DEF ApiCheck
    <3>2. ApiTypeOK' /\ \A q \in Requests : rpc'[q] # "idle" => rpc'[q] = rpc[q] /\ rsess'[q] = rsess[q]
      BY <3>1, ReturnType
    <3>q. QED
      BY <1>33, <3>2 DEF ApiCheck
  <2>2. CASE ~Locked(rsess[r])
    BY <1>33, <2>2 DEF ApiCheck, Continue
  <2>q. QED
    BY <2>1, <2>2
<1>34. ASSUME NEW r \in Requests, ApiCloses(r)
      PROVE  TypeInv'
  BY <1>34 DEF ApiCloses, Close, Continue
<1>35. ASSUME NEW r \in Requests, ApiRemoves(r)
      PROVE  TypeInv'
  <2>1. MgrTypeOK'
    BY <1>35 DEF ApiRemoves, Remove, Stopped
  <2>2. CASE rtodo[r] = {}
    <3>1. Return(r)
      BY <1>35, <2>2 DEF ApiRemoves
    <3>2. ApiTypeOK' /\ \A q \in Requests : rpc'[q] # "idle" => rpc'[q] = rpc[q] /\ rsess'[q] = rsess[q]
      BY <3>1, ReturnType
    <3>q. QED
      BY <1>35, <2>1, <3>2 DEF ApiRemoves
  <2>3. CASE rtodo[r] # {}
    BY <1>35, <2>1, <2>3 DEF ApiRemoves, Continue
  <2>q. QED
    BY <2>2, <2>3
<1>36. ASSUME NEW r \in Requests, ApiCloseAll(r)
      PROVE  TypeInv'
  BY <1>36 DEF ApiCloseAll, Locked, Continue
<1>37. ASSUME DisconnectAllWebsockets
      PROVE  TypeInv'
  BY <1>37 DEF DisconnectAllWebsockets, Closed
<1>38. ASSUME UNCHANGED vars
      PROVE  TypeInv'
  BY <1>38 DEF vars
<1> HIDE DEF TypeInv
<1>q. QED
  BY <1>1, <1>2, <1>3, <1>4, <1>5, <1>6, <1>7, <1>8, <1>9, <1>10, <1>11, <1>12, <1>13, <1>14, <1>15, <1>16, <1>17, <1>18, <1>19, <1>20, <1>21, <1>22, <1>23, <1>24, <1>25, <1>26, <1>27, <1>28, <1>29, <1>30, <1>31, <1>32, <1>33, <1>34, <1>35, <1>36, <1>37, <1>38
  DEF Next, HandlerStep, RunStep, ApiStep
-----------------------------------------------------------------------------
(* The invariants behind the theorems *)

\* A session stays what its owner knows it to be.
LEMMA OwnersStep ==
    TypeInv /\ Owners /\ [Next]_vars => Owners'
<1> SUFFICES ASSUME TypeInv, Owners, [Next]_vars
             PROVE  Owners'
  OBVIOUS
<1> USE ConstantsAssumption
    DEF Owners, Before, TypeInv, TypeOK, MgrTypeOK, SessTypeOK, WsTypeOK, Pointers,
        Serving, mgrVars, sessVars, wsVars
<1>1. ASSUME NEW h \in Handlers, NEW i \in Ids, NEW reconnect \in BOOLEAN,
             Connect(h, i, reconnect)
      PROVE  Owners'
  BY <1>1 DEF Connect, Goto
<1>2. ASSUME NEW h \in Handlers, ReconnectRemove(h)
      PROVE  Owners'
  BY <1>2 DEF ReconnectRemove, Goto, Remove, Stopped
<1>3. ASSUME NEW h \in Handlers, GetSession(h)
      PROVE  Owners'
  BY <1>3 DEF GetSession, Goto
<1>4. ASSUME NEW h \in Handlers, CreateSession(h)
      PROVE  Owners'
  BY <1>4 DEF CreateSession, Goto
<1>5. ASSUME NEW h \in Handlers, AddSession(h)
      PROVE  Owners'
  BY <1>5 DEF AddSession, Goto
<1>6. ASSUME NEW h \in Handlers, Lookup(h)
      PROVE  Owners'
  BY <1>6 DEF Lookup, Goto
<1>7. ASSUME NEW h \in Handlers,
             ReconnectClose(h) \/ CreateFails(h) \/ Steal(h) \/ NoQueryState(h)
             \/ Unhide(h) \/ CancelTimer(h) \/ Attach(h) \/ Unlisten(h) \/
             Leave(h) \/ ClientLeaves(h) \/ WriterCloses(h)
      PROVE  Owners'
  BY <1>7 DEF ReconnectClose, CreateFails, Steal, NoQueryState, Unhide, CancelTimer,
              Attach, Unlisten, Leave, ClientLeaves, WriterCloses, Goto, Close,
              Broadcast, Closed, Forgotten, Stopped, ClearInactive, Inactive
<1>8. ASSUME NEW h \in Handlers, NEW k \in Wanted, QueryState(h, k)
      PROVE  Owners'
  BY <1>8 DEF QueryState, Goto
<1>9. ASSUME NEW s \in Sessions, RunRemoves(s)
      PROVE  Owners'
  BY <1>9 DEF RunRemoves, Remove, Stopped, Run
<1>10. ASSUME NEW s \in Sessions,
             ReadEOF(s) \/ ReadError(s) \/ RetryFails(s) \/ RetryFatal(s) \/
             RetrySucceeds(s) \/ CloseListeners(s) \/ LinkEnds(s)
      PROVE  Owners'
  BY <1>10 DEF ReadEOF, ReadError, RetryFails, RetryFatal, RetrySucceeds,
               CloseListeners, LinkEnds, Broadcast, Run, Closed, Forgotten, Close
<1>11. ASSUME NEW t \in Timers, TimerCallback(t)
      PROVE  Owners'
  BY <1>11 DEF TimerCallback, Close
<1>12. ASSUME NEW t \in Timers,
             TimerFires(t)
      PROVE  Owners'
  BY <1>12 DEF TimerFires
<1>13. ASSUME NEW r \in Requests, NEW i \in Ids, NEW k \in Wanted, ApiState(r, i, k)
      PROVE  Owners'
  BY <1>13 DEF ApiState, Continue
<1>14. ASSUME NEW r \in Requests, NEW i \in Ids, ApiClose(r, i)
      PROVE  Owners'
  BY <1>14 DEF ApiClose, Continue
<1>15. ASSUME NEW r \in Requests, ApiRemoves(r)
      PROVE  Owners'
  BY <1>15 DEF ApiRemoves, Remove, Stopped, Return, Continue
<1>16. ASSUME NEW r \in Requests,
             ApiSet(r) \/ ApiClear(r) \/ ApiCheck(r) \/ ApiCloses(r) \/
             ApiCloseAll(r)
      PROVE  Owners'
  BY <1>16 DEF ApiSet, ApiClear, ApiCheck, ApiCloses, ApiCloseAll, Return, Continue,
               ClearInactive, Inactive, Locked, Close
<1>17. ASSUME DisconnectAllWebsockets
      PROVE  Owners'
  BY <1>17 DEF DisconnectAllWebsockets, Closed
<1>18. ASSUME UNCHANGED vars
      PROVE  Owners'
  BY <1>18 DEF vars
<1> HIDE DEF Owners
<1>q. QED
  BY <1>1, <1>2, <1>3, <1>4, <1>5, <1>6, <1>7, <1>8, <1>9, <1>10, <1>11, <1>12,
     <1>13, <1>14, <1>15, <1>16, <1>17, <1>18
  DEF Next, HandlerStep, RunStep, ApiStep

\* A session is created once.
LEMMA RunKept ==
    ASSUME TypeInv, [Next]_vars, NEW s \in Sessions, run[s] # "free"
    PROVE  run'[s] # "free"
<1>1. CASE run' = run
  BY <1>1
<1>2. ASSUME NEW h \in Handlers, CreateSession(h)
      PROVE  run'[s] # "free"
  BY <1>2 DEF CreateSession, TypeInv, TypeOK, SessTypeOK
<1>3. ASSUME NEW q \in Sessions, RunStep(q)
      PROVE  run'[s] # "free"
  BY <1>3 DEF RunStep, ReadEOF, ReadError, RetryFails, RetryFatal, RetrySucceeds,
              CloseListeners, RunRemoves, Run, TypeInv, TypeOK, SessTypeOK
<1>4. \/ run' = run
      \/ \E h \in Handlers : CreateSession(h)
      \/ \E q \in Sessions : RunStep(q)
  BY DEF Next, HandlerStep, ApiStep, Connect, ReconnectClose, ReconnectRemove, GetSession,
         CreateFails, AddSession, Steal, QueryState, NoQueryState, Unhide, CancelTimer, Attach,
         Lookup, Unlisten, Leave, ClientLeaves, WriterCloses, LinkEnds, TimerFires,
         TimerCallback, ApiState, ApiClose, ApiCloseAll, ApiSet, ApiClear, ApiCheck, ApiCloses,
         ApiRemoves, DisconnectAllWebsockets, vars, sessVars
<1>q. QED
  BY <1>1, <1>2, <1>3, <1>4

LEMMA HeldStep ==
    TypeInv /\ Owners /\ Held /\ [Next]_vars => Held'
<1> SUFFICES ASSUME TypeInv, Owners, Held, [Next]_vars, NEW r \in Requests,
                    rpc'[r] \in {"set", "clear"}
             PROVE  run'[rsess'[r]] # "free"
  BY DEF Held
<1> USE DEF TypeInv, TypeOK, ApiTypeOK, MgrTypeOK
<1>1. CASE rpc[r] \in {"set", "clear"} /\ rsess'[r] = rsess[r]
  BY <1>1, RunKept DEF Held, Pointers
<1>2. ASSUME NEW i \in Ids, NEW k \in Wanted, ApiState(r, i, k)
      PROVE  run'[rsess'[r]] # "free"
  BY <1>2, RunKept DEF ApiState, Owners
<1>3. \/ rpc[r] \in {"set", "clear"} /\ rsess'[r] = rsess[r]
      \/ \E i \in Ids, k \in Wanted : ApiState(r, i, k)
  <2>1. ASSUME NEW q \in Requests, NEW i \in Ids, NEW k \in Wanted, ApiState(q, i, k)
        PROVE  <1>3!1 \/ <1>3!2
    BY <2>1 DEF ApiState, Continue
  <2>2. ASSUME NEW q \in Requests,
               (\E i \in Ids : ApiClose(q, i)) \/ ApiCloseAll(q) \/ ApiStep(q)
        PROVE  <1>3!1
    BY <2>2 DEF ApiClose, ApiCloseAll, ApiStep, ApiSet, ApiClear, ApiCheck, ApiCloses,
                ApiRemoves, Return, Continue
  <2>3. CASE UNCHANGED apiVars
    BY <2>3 DEF apiVars
  <2>4. \/ \E q \in Requests, i \in Ids, k \in Wanted : ApiState(q, i, k)
        \/ \E q \in Requests :
              (\E i \in Ids : ApiClose(q, i)) \/ ApiCloseAll(q) \/ ApiStep(q)
        \/ UNCHANGED apiVars
    BY DEF Next, HandlerStep, RunStep, Connect, ReconnectClose, ReconnectRemove, GetSession,
           CreateSession, CreateFails, AddSession, Steal, QueryState, NoQueryState, Unhide,
           CancelTimer, Attach, Lookup, Unlisten, Leave, ClientLeaves, WriterCloses, LinkEnds,
           ReadEOF, ReadError, RetryFails, RetryFatal, RetrySucceeds, CloseListeners,
           RunRemoves, TimerFires, TimerCallback, DisconnectAllWebsockets, vars
  <2>q. QED
    BY <2>1, <2>2, <2>3, <2>4
<1>q. QED
  BY <1>1, <1>2, <1>3

\* Every section that closes channels also forgets them.
LEMMA ChannelsStep ==
    TypeInv /\ Owners /\ Channels /\ [Next]_vars => Channels'
<1> SUFFICES ASSUME TypeInv, Owners, Channels, [Next]_vars
             PROVE  Channels'
  OBVIOUS
<1> USE ConstantsAssumption
    DEF Channels, ListedChannelsOpen, Owners, Before, TypeInv, TypeOK, MgrTypeOK,
        SessTypeOK, WsTypeOK, Pointers, Serving, mgrVars, sessVars, wsVars
<1>1. ASSUME NEW h \in Handlers, NEW i \in Ids, NEW reconnect \in BOOLEAN,
             Connect(h, i, reconnect)
      PROVE  Channels'
  BY <1>1 DEF Connect, Goto
<1>2. ASSUME NEW h \in Handlers, GetSession(h)
      PROVE  Channels'
  BY <1>2 DEF GetSession, Goto
<1>3. ASSUME NEW h \in Handlers, CreateSession(h)
      PROVE  Channels'
  BY <1>3 DEF CreateSession, Goto
<1>4. ASSUME NEW h \in Handlers, Steal(h)
      PROVE  Channels'
  BY <1>4 DEF Steal, Goto, Broadcast, Closed, Forgotten
<1>5. ASSUME NEW h \in Handlers, Attach(h)
      PROVE  Channels'
  BY <1>5 DEF Attach, Goto
<1>6. ASSUME NEW h \in Handlers, Unlisten(h)
      PROVE  Channels'
  BY <1>6 DEF Unlisten, Goto, Closed
<1>7. ASSUME NEW h \in Handlers,
             ReconnectClose(h) \/ ReconnectRemove(h) \/ CreateFails(h) \/
             AddSession(h) \/ NoQueryState(h) \/ Unhide(h) \/ CancelTimer(h) \/
             Lookup(h) \/ Leave(h) \/ ClientLeaves(h) \/ WriterCloses(h)
      PROVE  Channels'
  BY <1>7 DEF ReconnectClose, ReconnectRemove, CreateFails, AddSession,
              NoQueryState, Unhide, CancelTimer, Lookup, Leave, ClientLeaves,
              WriterCloses, Goto, Close, Remove, Stopped, ClearInactive, Inactive
<1>8. ASSUME NEW h \in Handlers, NEW k \in Wanted, QueryState(h, k)
      PROVE  Channels'
  BY <1>8 DEF QueryState, Goto
<1>9. ASSUME NEW s \in Sessions, CloseListeners(s)
      PROVE  Channels'
  BY <1>9 DEF CloseListeners, Closed, Forgotten, Run
<1>10. ASSUME NEW s \in Sessions,
             ReadEOF(s) \/ ReadError(s) \/ RetryFails(s) \/ RetryFatal(s) \/
             RetrySucceeds(s) \/ RunRemoves(s) \/ LinkEnds(s)
      PROVE  Channels'
  BY <1>10 DEF ReadEOF, ReadError, RetryFails, RetryFatal, RetrySucceeds,
               RunRemoves, LinkEnds, Broadcast, Run, Remove, Stopped, Close
<1>11. ASSUME NEW t \in Timers,
             TimerFires(t) \/ TimerCallback(t)
      PROVE  Channels'
  BY <1>11 DEF TimerFires, TimerCallback, Close
<1>12. ASSUME NEW r \in Requests, NEW i \in Ids, NEW k \in Wanted, ApiState(r, i, k)
      PROVE  Channels'
  BY <1>12 DEF ApiState, Continue
<1>13. ASSUME NEW r \in Requests, NEW i \in Ids, ApiClose(r, i)
      PROVE  Channels'
  BY <1>13 DEF ApiClose, Continue
<1>14. ASSUME NEW r \in Requests,
             ApiSet(r) \/ ApiClear(r) \/ ApiCheck(r) \/ ApiCloses(r) \/
             ApiRemoves(r) \/ ApiCloseAll(r)
      PROVE  Channels'
  BY <1>14 DEF ApiSet, ApiClear, ApiCheck, ApiCloses, ApiRemoves, ApiCloseAll,
               Return, Continue, ClearInactive, Inactive, Locked, Close, Remove,
               Stopped
<1>15. ASSUME DisconnectAllWebsockets
      PROVE  Channels'
  BY <1>15 DEF DisconnectAllWebsockets, Closed
<1>16. ASSUME UNCHANGED vars
      PROVE  Channels'
  BY <1>16 DEF vars
<1> HIDE DEF Channels
<1>q. QED
  BY <1>1, <1>2, <1>3, <1>4, <1>5, <1>6, <1>7, <1>8, <1>9, <1>10, <1>11, <1>12,
     <1>13, <1>14, <1>15, <1>16
  DEF Next, HandlerStep, RunStep, ApiStep

\* A channel is left behind only in a session that is registered no more.
LEMMA GhostsStep ==
    TypeInv /\ Owners /\ Channels /\ Ghosts /\ [Next]_vars => Ghosts'
<1> SUFFICES ASSUME TypeInv, Owners, Channels, Ghosts, [Next]_vars
             PROVE  Ghosts'
  OBVIOUS
<1> USE ConstantsAssumption
    DEF Ghosts, Channels, ListedChannelsOpen, Owners, Before, TypeInv, TypeOK,
        MgrTypeOK, SessTypeOK, WsTypeOK, Pointers, Serving, mgrVars, sessVars,
        wsVars
<1>1. ASSUME NEW h \in Handlers, NEW i \in Ids, NEW reconnect \in BOOLEAN,
             Connect(h, i, reconnect)
      PROVE  Ghosts'
  BY <1>1 DEF Connect, Goto
<1>2. ASSUME NEW h \in Handlers, ReconnectRemove(h)
      PROVE  Ghosts'
  BY <1>2 DEF ReconnectRemove, Goto, Remove, Stopped
<1>3. ASSUME NEW h \in Handlers, AddSession(h)
      PROVE  Ghosts'
  BY <1>3 DEF AddSession, Goto
<1>4. ASSUME NEW h \in Handlers, Steal(h)
      PROVE  Ghosts'
  BY <1>4 DEF Steal, Goto, Broadcast, Closed, Forgotten
<1>5. ASSUME NEW h \in Handlers, Attach(h)
      PROVE  Ghosts'
  BY <1>5 DEF Attach, Goto
<1>6. ASSUME NEW h \in Handlers, Lookup(h)
      PROVE  Ghosts'
  BY <1>6 DEF Lookup, Goto
<1>7. ASSUME NEW h \in Handlers, Unlisten(h)
      PROVE  Ghosts'
  BY <1>7 DEF Unlisten, Goto, Closed
<1>8. ASSUME NEW h \in Handlers, Leave(h)
      PROVE  Ghosts'
  BY <1>8 DEF Leave, Goto, ClearInactive, Inactive
<1>9. ASSUME NEW h \in Handlers,
             ReconnectClose(h) \/ GetSession(h) \/ CreateSession(h) \/
             CreateFails(h) \/ NoQueryState(h) \/ Unhide(h) \/ CancelTimer(h)
             \/ ClientLeaves(h) \/ WriterCloses(h)
      PROVE  Ghosts'
  BY <1>9 DEF ReconnectClose, GetSession, CreateSession, CreateFails, NoQueryState,
              Unhide, CancelTimer, ClientLeaves, WriterCloses, Goto, Close, Stopped
<1>10. ASSUME NEW h \in Handlers, NEW k \in Wanted, QueryState(h, k)
      PROVE  Ghosts'
  BY <1>10 DEF QueryState, Goto
<1>11. ASSUME NEW s \in Sessions, RunRemoves(s)
      PROVE  Ghosts'
  BY <1>11 DEF RunRemoves, Remove, Stopped, Run
<1>12. ASSUME NEW s \in Sessions,
             ReadEOF(s) \/ ReadError(s) \/ RetryFails(s) \/ RetryFatal(s) \/
             RetrySucceeds(s) \/ CloseListeners(s) \/ LinkEnds(s)
      PROVE  Ghosts'
  BY <1>12 DEF ReadEOF, ReadError, RetryFails, RetryFatal, RetrySucceeds,
               CloseListeners, LinkEnds, Broadcast, Run, Closed, Forgotten, Close
<1>13. ASSUME NEW t \in Timers, TimerCallback(t)
      PROVE  Ghosts'
  BY <1>13 DEF TimerCallback, Close
<1>14. ASSUME NEW t \in Timers,
             TimerFires(t)
      PROVE  Ghosts'
  BY <1>14 DEF TimerFires
<1>15. ASSUME NEW r \in Requests, NEW i \in Ids, NEW k \in Wanted, ApiState(r, i, k)
      PROVE  Ghosts'
  BY <1>15 DEF ApiState, Continue
<1>16. ASSUME NEW r \in Requests, NEW i \in Ids, ApiClose(r, i)
      PROVE  Ghosts'
  BY <1>16 DEF ApiClose, Continue
<1>17. ASSUME NEW r \in Requests, ApiClear(r)
      PROVE  Ghosts'
  BY <1>17 DEF ApiClear, ClearInactive, Inactive, Return
<1>18. ASSUME NEW r \in Requests, ApiRemoves(r)
      PROVE  Ghosts'
  BY <1>18 DEF ApiRemoves, Remove, Stopped, Return, Continue
<1>19. ASSUME NEW r \in Requests,
             ApiSet(r) \/ ApiCheck(r) \/ ApiCloses(r) \/ ApiCloseAll(r)
      PROVE  Ghosts'
  BY <1>19 DEF ApiSet, ApiCheck, ApiCloses, ApiCloseAll, Return, Continue, Locked,
               Close
<1>20. ASSUME DisconnectAllWebsockets
      PROVE  Ghosts'
  BY <1>20 DEF DisconnectAllWebsockets, Closed
<1>21. ASSUME UNCHANGED vars
      PROVE  Ghosts'
  BY <1>21 DEF vars
<1> HIDE DEF Ghosts
<1>q. QED
  BY <1>1, <1>2, <1>3, <1>4, <1>5, <1>6, <1>7, <1>8, <1>9, <1>10, <1>11, <1>12,
     <1>13, <1>14, <1>15, <1>16, <1>17, <1>18, <1>19, <1>20, <1>21
  DEF Next, HandlerStep, RunStep, ApiStep

\* An entry is made with its timer and deleted with its session.
LEMMA TimersStep ==
    TypeInv /\ ListedTimersLive /\ [Next]_vars => ListedTimersLive'
<1> SUFFICES ASSUME TypeInv, ListedTimersLive, [Next]_vars
             PROVE  ListedTimersLive'
  OBVIOUS
<1> USE ConstantsAssumption
    DEF ListedTimersLive, TypeInv, TypeOK, MgrTypeOK, SessTypeOK, WsTypeOK,
        Pointers, Serving, mgrVars, sessVars, wsVars
<1>1. ASSUME NEW h \in Handlers, NEW i \in Ids, NEW reconnect \in BOOLEAN,
             Connect(h, i, reconnect)
      PROVE  ListedTimersLive'
  BY <1>1 DEF Connect, Goto
<1>2. ASSUME NEW h \in Handlers, ReconnectRemove(h)
      PROVE  ListedTimersLive'
  BY <1>2 DEF ReconnectRemove, Goto, Remove, Stopped
<1>3. ASSUME NEW h \in Handlers, AddSession(h)
      PROVE  ListedTimersLive'
  BY <1>3 DEF AddSession, Goto
<1>4. ASSUME NEW h \in Handlers, CancelTimer(h)
      PROVE  ListedTimersLive'
  BY <1>4 DEF CancelTimer, Goto, Stopped
<1>5. ASSUME NEW h \in Handlers, Leave(h)
      PROVE  ListedTimersLive'
  BY <1>5 DEF Leave, Goto, ClearInactive, Inactive
<1>6. ASSUME NEW h \in Handlers,
             ReconnectClose(h) \/ GetSession(h) \/ CreateSession(h) \/
             CreateFails(h) \/ Steal(h) \/ NoQueryState(h) \/ Unhide(h) \/
             Attach(h) \/ Lookup(h) \/ Unlisten(h) \/ ClientLeaves(h) \/
             WriterCloses(h)
      PROVE  ListedTimersLive'
  BY <1>6 DEF ReconnectClose, GetSession, CreateSession, CreateFails, Steal,
              NoQueryState, Unhide, Attach, Lookup, Unlisten, ClientLeaves,
              WriterCloses, Goto, Close, Broadcast, Closed, Forgotten
<1>7. ASSUME NEW h \in Handlers, NEW k \in Wanted, QueryState(h, k)
      PROVE  ListedTimersLive'
  BY <1>7 DEF QueryState, Goto
<1>8. ASSUME NEW s \in Sessions, RunRemoves(s)
      PROVE  ListedTimersLive'
  BY <1>8 DEF RunRemoves, Remove, Stopped, Run
<1>9. ASSUME NEW s \in Sessions,
             ReadEOF(s) \/ ReadError(s) \/ RetryFails(s) \/ RetryFatal(s) \/
             RetrySucceeds(s) \/ CloseListeners(s) \/ LinkEnds(s)
      PROVE  ListedTimersLive'
  BY <1>9 DEF ReadEOF, ReadError, RetryFails, RetryFatal, RetrySucceeds,
              CloseListeners, LinkEnds, Broadcast, Run, Closed, Forgotten, Close
<1>10. ASSUME NEW t \in Timers, TimerFires(t)
      PROVE  ListedTimersLive'
  BY <1>10 DEF TimerFires
<1>11. ASSUME NEW t \in Timers, TimerCallback(t)
      PROVE  ListedTimersLive'
  BY <1>11 DEF TimerCallback, Close
<1>12. ASSUME NEW r \in Requests, NEW i \in Ids, NEW k \in Wanted, ApiState(r, i, k)
      PROVE  ListedTimersLive'
  BY <1>12 DEF ApiState, Continue
<1>13. ASSUME NEW r \in Requests, NEW i \in Ids, ApiClose(r, i)
      PROVE  ListedTimersLive'
  BY <1>13 DEF ApiClose, Continue
<1>14. ASSUME NEW r \in Requests, ApiClear(r)
      PROVE  ListedTimersLive'
  BY <1>14 DEF ApiClear, ClearInactive, Inactive, Return
<1>15. ASSUME NEW r \in Requests, ApiRemoves(r)
      PROVE  ListedTimersLive'
  BY <1>15 DEF ApiRemoves, Remove, Stopped, Return, Continue
<1>16. ASSUME NEW r \in Requests,
             ApiSet(r) \/ ApiCheck(r) \/ ApiCloses(r) \/ ApiCloseAll(r)
      PROVE  ListedTimersLive'
  BY <1>16 DEF ApiSet, ApiCheck, ApiCloses, ApiCloseAll, Return, Continue, Locked,
               Close
<1>17. ASSUME DisconnectAllWebsockets
      PROVE  ListedTimersLive'
  BY <1>17 DEF DisconnectAllWebsockets, Closed
<1>18. ASSUME UNCHANGED vars
      PROVE  ListedTimersLive'
  BY <1>18 DEF vars
<1> HIDE DEF ListedTimersLive
<1>q. QED
  BY <1>1, <1>2, <1>3, <1>4, <1>5, <1>6, <1>7, <1>8, <1>9, <1>10, <1>11, <1>12,
     <1>13, <1>14, <1>15, <1>16, <1>17, <1>18
  DEF Next, HandlerStep, RunStep, ApiStep

\* What stays pending: the timers, handlers and requests a session waits for.
TimersKept(i) ==
    \A t \in Timers : timerState[t] # "idle" /\ timerId[t] = i =>
        timerState'[t] # "idle" /\ timerId'[t] = i

HandlersKept(i) ==
    \A h \in Handlers : hid[h] = i /\ pc[h] \in Serving => hid'[h] = i /\ pc'[h] \in Serving

RequestsKept(i) ==
    \A r \in Requests : rpc[r] = "clear" /\ sid[rsess[r]] = i =>
        rpc'[r] = "clear" /\ sid'[rsess'[r]] = i

LEMMA AwaitedKept ==
    ASSUME NEW i \in Ids, Awaited(i), TimersKept(i), HandlersKept(i), RequestsKept(i)
    PROVE  Awaited(i)'
  BY DEF Awaited, TimersKept, HandlersKept, RequestsKept

\* Stopping the listed timer of one id leaves those of the others.
LEMMA StoppedKept ==
    ASSUME TypeInv, ListedTimersLive, NEW i \in Ids, NEW j \in Ids, j # i,
           timerState' = Stopped(disconnectTimers[j]), timerId' = timerId
    PROVE  TimersKept(i)
  BY DEF TypeInv, TypeOK, MgrTypeOK, ListedTimersLive, Stopped, TimersKept

\* ClearInactive leaves a timer for the id it is called with, if that is idle,
\* and the timers of all others.
LEMMA ClearInactiveTimes ==
    ASSUME TypeInv, ListedTimersLive, NEW i \in Ids, NEW j \in Ids, ClearInactive(j)
    PROVE  /\ TimersKept(i)
           /\ sessions' = sessions
           /\ Idle(j) => \E t \in Timers : timerState'[t] # "idle" /\ timerId'[t] = j
<1> USE ConstantsAssumption DEF TypeInv, TypeOK, MgrTypeOK
<1>1. CASE Inactive(j)
  BY <1>1 DEF ClearInactive, TimersKept
<1>2. CASE ~Inactive(j)
  <2>1. UNCHANGED mgrVars
    BY <1>2 DEF ClearInactive
  <2>2. Idle(j) => disconnectTimers[j] \in Timers
    BY <1>2 DEF Idle, Inactive
  <2>q. QED
    BY <2>1, <2>2 DEF mgrVars, TimersKept, ListedTimersLive
<1>q. QED
  BY <1>1, <1>2

\* An idle session loses what it waits for only to something else that will
\* see to it, or with its registration.
LEMMA TimedStep ==
    TypeInv /\ Owners /\ Held /\ Channels /\ Ghosts /\ ListedTimersLive /\ Timed /\ [Next]_vars => Timed'
<1> SUFFICES ASSUME TypeInv, Owners, Held, Channels, Ghosts, ListedTimersLive, Timed, [Next]_vars,
                    NEW i \in Ids, Idle(i)'
             PROVE  Awaited(i)'
  BY DEF Timed
<1> USE ConstantsAssumption DEF TypeInv, TypeOK, MgrTypeOK, SessTypeOK, WsTypeOK, ApiTypeOK
<1>a. Idle(i) => Awaited(i)
  BY DEF Timed
<1>t. ASSUME UNCHANGED <<timerState, timerId>> PROVE TimersKept(i)
  BY <1>t DEF TimersKept
<1>h. ASSUME UNCHANGED <<pc, hid>> PROVE HandlersKept(i)
  BY <1>h DEF HandlersKept
<1>r. ASSUME UNCHANGED <<rpc, rsess, sid>> PROVE RequestsKept(i)
  BY <1>r DEF RequestsKept
<1>g. ASSUME NEW h \in Handlers, NEW step, Goto(h, step), hid' = hid,
             pc[h] \in Serving => step \in Serving
      PROVE  HandlersKept(i)
  BY <1>g DEF Goto, HandlersKept
<1>1. ASSUME NEW h \in Handlers, NEW j \in Ids, NEW reconnect \in BOOLEAN,
             Connect(h, j, reconnect)
      PROVE  Awaited(i)'
  <2>1. HandlersKept(i)
    BY <1>1 DEF Connect, Goto, HandlersKept, Serving
  <2>2. Idle(i)
    BY <1>1 DEF Connect, Idle, mgrVars, sessVars
  <2>3. TimersKept(i) /\ RequestsKept(i)
    BY <1>1, <1>t, <1>r DEF Connect, mgrVars, sessVars, apiVars
  <2>q. QED
    BY <2>1, <2>2, <2>3, <1>a, AwaitedKept
<1>2. ASSUME NEW h \in Handlers, ReconnectRemove(h)
      PROVE  Awaited(i)'
  <2>1. hid[h] # i /\ Idle(i)
    BY <1>2 DEF ReconnectRemove, Remove, Idle, sessVars
  <2>2. TimersKept(i)
    BY <1>2, <2>1, StoppedKept DEF ReconnectRemove, Remove
  <2>3. HandlersKept(i) /\ RequestsKept(i)
    BY <1>2, <1>g, <1>r DEF ReconnectRemove, sessVars, apiVars, Serving
  <2>q. QED
    BY <2>1, <2>2, <2>3, <1>a, AwaitedKept
<1>3. ASSUME NEW h \in Handlers, AddSession(h)
      PROVE  Awaited(i)'
  <2>1. CASE hid[h] = i
    BY <1>3, <2>1 DEF AddSession, Goto, Awaited, Serving
  <2>2. CASE hid[h] # i
    <3>1. Idle(i)
      BY <1>3, <2>2 DEF AddSession, Idle
    <3>2. TimersKept(i) /\ RequestsKept(i) /\ HandlersKept(i)
      BY <1>3, <1>t, <1>r, <1>g DEF AddSession, apiVars, Serving
    <3>q. QED
      BY <3>1, <3>2, <1>a, AwaitedKept
  <2>q. QED
    BY <2>1, <2>2
<1>4. ASSUME NEW h \in Handlers, CreateSession(h)
      PROVE  Awaited(i)'
  <2>1. Idle(i)
    BY <1>4 DEF CreateSession, Idle, mgrVars
  <2>2. TimersKept(i) /\ HandlersKept(i)
    BY <1>4, <1>t, <1>g DEF CreateSession, mgrVars, Serving
  <2>3. PICK s \in Sessions : run[s] = "free" /\ sid' = [sid EXCEPT ![s] = hid[h]]
    BY <1>4 DEF CreateSession
  <2>4. sid[sessions[i]] = i /\ sessions[i] # s
    BY <2>1, <2>3 DEF Owners, Idle
  <2>5. RequestsKept(i)
    BY <1>4, <2>3 DEF CreateSession, apiVars, RequestsKept, Held, Pointers
  <2>q. QED
    BY <2>1, <2>2, <2>5, <1>a, AwaitedKept
<1>5. ASSUME NEW h \in Handlers, Steal(h)
      PROVE  Awaited(i)'
  <2>1. hsess[h] \in Sessions /\ sid[hsess[h]] = hid[h]
    BY <1>5 DEF Steal, Pointers, Serving, Owners
  <2>2. CASE sessions[i] = hsess[h]
    <3>1. hid[h] = i
      BY <2>1, <2>2 DEF Owners
    <3>q. QED
      BY <1>5, <3>1 DEF Steal, Goto, Awaited, Serving
  <2>3. CASE sessions[i] # hsess[h]
    <3>1. Idle(i)
      BY <1>5, <2>3 DEF Steal, Idle, Forgotten, mgrVars
    <3>2. TimersKept(i) /\ RequestsKept(i) /\ HandlersKept(i)
      BY <1>5, <1>t, <1>r, <1>g DEF Steal, mgrVars, apiVars, Serving
    <3>q. QED
      BY <3>1, <3>2, <1>a, AwaitedKept
  <2>q. QED
    BY <2>2, <2>3
<1>6. ASSUME NEW h \in Handlers, CancelTimer(h)
      PROVE  Awaited(i)'
  <2>1. CASE hid[h] = i
    BY <1>6, <2>1 DEF CancelTimer, Goto, Awaited, Serving
  <2>2. CASE hid[h] # i
    <3>1. Idle(i)
      BY <1>6 DEF CancelTimer, Idle, sessVars
    <3>2. TimersKept(i)
      BY <1>6, <2>2, StoppedKept DEF CancelTimer
    <3>3. RequestsKept(i) /\ HandlersKept(i)
      BY <1>6, <1>r, <1>g DEF CancelTimer, sessVars, apiVars, Serving
    <3>q. QED
      BY <3>1, <3>2, <3>3, <1>a, AwaitedKept
  <2>q. QED
    BY <2>1, <2>2
<1>7. ASSUME NEW h \in Handlers, Unlisten(h)
      PROVE  Awaited(i)'
  <2>1. CASE hid[h] = i
    BY <1>7, <2>1 DEF Unlisten, Goto, Awaited, Serving
  <2>2. CASE hid[h] # i
    <3>1. h \notin listeners[sessions[i]]
      BY <1>7, <2>2 DEF Unlisten, mgrVars, Idle, Channels, ListedChannelsOpen, Owners
    <3>2. Idle(i)
      BY <1>7, <3>1 DEF Unlisten, Idle, mgrVars, Pointers
    <3>3. TimersKept(i) /\ RequestsKept(i) /\ HandlersKept(i)
      BY <1>7, <1>t, <1>r, <1>g DEF Unlisten, mgrVars, apiVars, Serving
    <3>q. QED
      BY <3>2, <3>3, <1>a, AwaitedKept
  <2>q. QED
    BY <2>1, <2>2
<1>8. ASSUME NEW h \in Handlers, Lookup(h)
      PROVE  Awaited(i)'
  <2>1. Idle(i)
    BY <1>8 DEF Lookup, Idle, mgrVars, sessVars
  <2>2. HandlersKept(i)
    BY <1>8, <2>1 DEF Lookup, Goto, Idle, HandlersKept, Serving
  <2>3. TimersKept(i) /\ RequestsKept(i)
    BY <1>8, <1>t, <1>r DEF Lookup, mgrVars, sessVars, apiVars
  <2>q. QED
    BY <2>1, <2>2, <2>3, <1>a, AwaitedKept
<1>9. ASSUME NEW h \in Handlers, Leave(h)
      PROVE  Awaited(i)'
  <2>0. ClearInactive(hid[h]) /\ hid[h] \in Ids
    BY <1>9 DEF Leave
  <2>1. Idle(i)
    BY <1>9, <2>0, ClearInactiveTimes DEF Leave, Idle, sessVars
  <2>2. CASE hid[h] = i
    <3>1. \E t \in Timers : timerState'[t] # "idle" /\ timerId'[t] = i
      BY <2>0, <2>1, <2>2, ClearInactiveTimes
    <3>q. QED
      BY <3>1 DEF Awaited
  <2>3. CASE hid[h] # i
    <3>1. TimersKept(i)
      BY <2>0, ClearInactiveTimes
    <3>2. RequestsKept(i) /\ HandlersKept(i)
      BY <1>9, <1>r, <2>3 DEF Leave, Goto, sessVars, apiVars, HandlersKept
    <3>q. QED
      BY <2>1, <3>1, <3>2, <1>a, AwaitedKept
  <2>q. QED
    BY <2>2, <2>3
<1>10. ASSUME NEW h \in Handlers,
             ReconnectClose(h) \/ GetSession(h) \/ CreateFails(h) \/ NoQueryState(h)
             \/ Unhide(h) \/ Attach(h)
      PROVE  Awaited(i)'
  <2>1. CASE Unhide(h) /\ sessions[i] = hsess[h]
    BY <1>10, <2>1 DEF Unhide, Idle, mgrVars
  <2>2. CASE ~(Unhide(h) /\ sessions[i] = hsess[h])
    <3>1. Idle(i)
      BY <1>10, <2>2 DEF ReconnectClose, GetSession, CreateFails, NoQueryState, Unhide, Attach,
              Idle, mgrVars, sessVars
    <3>2. TimersKept(i) /\ RequestsKept(i)
      BY <1>10, <1>t, <1>r DEF ReconnectClose, GetSession, CreateFails, NoQueryState, Unhide,
              Attach, mgrVars, sessVars, apiVars
    <3>3. HandlersKept(i)
      BY <1>10 DEF ReconnectClose, GetSession, CreateFails, NoQueryState, Unhide, Attach, Goto,
              HandlersKept, Serving
    <3>q. QED
      BY <3>1, <3>2, <3>3, <1>a, AwaitedKept
  <2>q. QED
    BY <2>1, <2>2
<1>11. ASSUME NEW h \in Handlers, ClientLeaves(h) \/ WriterCloses(h)
      PROVE  Awaited(i)'
  <2>1. UNCHANGED <<mgrVars, sessVars, apiVars, pc, hid>>
    BY <1>11 DEF ClientLeaves, WriterCloses
  <2>q. QED
    BY <2>1, <1>a DEF Idle, Awaited, mgrVars, sessVars, apiVars
<1>12. ASSUME NEW h \in Handlers, NEW k \in Wanted, QueryState(h, k)
      PROVE  Awaited(i)'
  <2>1. hsess[h] \in Sessions /\ sid[hsess[h]] = hid[h]
    BY <1>12 DEF QueryState, Pointers, Serving, Owners
  <2>2. CASE sessions[i] = hsess[h]
    <3>1. hid[h] = i
      BY <2>1, <2>2 DEF Owners
    <3>q. QED
      BY <1>12, <3>1 DEF QueryState, Goto, Awaited, Serving
  <2>3. CASE sessions[i] # hsess[h]
    <3>1. Idle(i)
      BY <1>12, <2>3 DEF QueryState, Idle, mgrVars
    <3>2. TimersKept(i) /\ RequestsKept(i) /\ HandlersKept(i)
      BY <1>12, <1>t, <1>r, <1>g DEF QueryState, mgrVars, apiVars, Serving
    <3>q. QED
      BY <3>1, <3>2, <1>a, AwaitedKept
  <2>q. QED
    BY <2>2, <2>3
<1>13. ASSUME NEW s \in Sessions, CloseListeners(s)
      PROVE  Awaited(i)'
  <2>1. CASE \E h \in listeners[s] : sessions[i] = s
    <3>1. PICK h \in Handlers : h \in listeners[s] /\ sessions[i] = s
      BY <2>1
    <3>2. hid[h] = i /\ pc[h] \in Serving
      BY <3>1 DEF Channels, ListedChannelsOpen, Owners, Ghosts, Serving
    <3>q. QED
      BY <1>13, <3>2 DEF CloseListeners, Awaited
  <2>2. CASE ~\E h \in listeners[s] : sessions[i] = s
    <3>1. Idle(i)
      BY <1>13, <2>2 DEF CloseListeners, Forgotten, Idle, mgrVars
    <3>2. TimersKept(i) /\ RequestsKept(i) /\ HandlersKept(i)
      BY <1>13, <1>t, <1>r, <1>h DEF CloseListeners, mgrVars, apiVars
    <3>q. QED
      BY <3>1, <3>2, <1>a, AwaitedKept
  <2>q. QED
    BY <2>1, <2>2
<1>14. ASSUME NEW s \in Sessions, RunRemoves(s)
      PROVE  Awaited(i)'
  <2>1. sid[s] # i /\ Idle(i)
    BY <1>14 DEF RunRemoves, Remove, Idle
  <2>2. TimersKept(i)
    BY <1>14, <2>1, StoppedKept DEF RunRemoves, Remove
  <2>3. HandlersKept(i) /\ RequestsKept(i)
    BY <1>14, <1>h, <1>r DEF RunRemoves, wsVars, apiVars
  <2>q. QED
    BY <2>1, <2>2, <2>3, <1>a, AwaitedKept
<1>15. ASSUME NEW s \in Sessions,
             ReadEOF(s) \/ ReadError(s) \/ RetryFails(s) \/ RetryFatal(s) \/
             RetrySucceeds(s) \/ LinkEnds(s)
      PROVE  Awaited(i)'
  <2>1. UNCHANGED <<mgrVars, sid, tabState, listeners, apiVars, pc, hid>>
    BY <1>15 DEF ReadEOF, ReadError, RetryFails, RetryFatal, RetrySucceeds, LinkEnds, wsVars
  <2>q. QED
    BY <2>1, <1>a DEF Idle, Awaited, mgrVars, apiVars
<1>16. ASSUME NEW t \in Timers, TimerFires(t)
      PROVE  Awaited(i)'
  <2>1. Idle(i)
    BY <1>16 DEF TimerFires, Idle, sessVars
  <2>2. TimersKept(i)
    BY <1>16 DEF TimerFires, TimersKept
  <2>3. HandlersKept(i) /\ RequestsKept(i)
    BY <1>16, <1>h, <1>r DEF TimerFires, sessVars, wsVars, apiVars
  <2>q. QED
    BY <2>1, <2>2, <2>3, <1>a, AwaitedKept
<1>17. ASSUME NEW t \in Timers, TimerCallback(t)
      PROVE  Awaited(i)'
  <2>1. Idle(i) /\ timerId[t] # i
    BY <1>17 DEF TimerCallback, Idle
  <2>2. TimersKept(i)
    BY <1>17, <2>1 DEF TimerCallback, TimersKept
  <2>3. HandlersKept(i) /\ RequestsKept(i)
    BY <1>17, <1>h, <1>r DEF TimerCallback, wsVars, apiVars
  <2>q. QED
    BY <2>1, <2>2, <2>3, <1>a, AwaitedKept
<1>18. ASSUME NEW r \in Requests,
             \/ \E j \in Ids, k \in Wanted : ApiState(r, j, k)
             \/ \E j \in Ids : ApiClose(r, j)
             \/ ApiCheck(r) \/ ApiCloses(r) \/ ApiCloseAll(r)
      PROVE  Awaited(i)'
  <2>1. UNCHANGED <<mgrVars, sid, tabState, listeners, wsVars>>
    BY <1>18 DEF ApiState, ApiClose, ApiCheck, ApiCloses, ApiCloseAll, sessVars
  <2>2. RequestsKept(i)
    BY <1>18, <2>1 DEF ApiState, ApiClose, ApiCheck, ApiCloses, ApiCloseAll, Return, Continue,
                       RequestsKept
  <2>3. Idle(i)
    BY <2>1 DEF Idle, mgrVars
  <2>4. TimersKept(i) /\ HandlersKept(i)
    BY <2>1, <1>t, <1>h DEF mgrVars, wsVars
  <2>q. QED
    BY <2>2, <2>3, <2>4, <1>a, AwaitedKept
<1>19. ASSUME NEW r \in Requests, ApiSet(r)
      PROVE  Awaited(i)'
  <2>1. CASE sessions[i] = rsess[r] /\ rwant[r] = 0
    <3>1. sid[rsess[r]] = i
      BY <1>19, <2>1 DEF Owners, ApiSet, Pointers
    <3>q. QED
      BY <1>19, <2>1, <3>1 DEF ApiSet, Continue, Awaited
  <2>2. CASE ~(sessions[i] = rsess[r] /\ rwant[r] = 0)
    <3>1. Idle(i)
      BY <1>19, <2>2 DEF ApiSet, Idle, mgrVars
    <3>2. RequestsKept(i)
      BY <1>19 DEF ApiSet, Continue, Return, RequestsKept
    <3>3. TimersKept(i) /\ HandlersKept(i)
      BY <1>19, <1>t, <1>h DEF ApiSet, mgrVars, wsVars
    <3>q. QED
      BY <3>1, <3>2, <3>3, <1>a, AwaitedKept
  <2>q. QED
    BY <2>1, <2>2
<1>20. ASSUME NEW r \in Requests, ApiClear(r)
      PROVE  Awaited(i)'
  <2>0. ClearInactive(sid[rsess[r]]) /\ sid[rsess[r]] \in Ids
    BY <1>20 DEF ApiClear, Pointers
  <2>1. Idle(i)
    BY <1>20, <2>0, ClearInactiveTimes DEF ApiClear, Idle, sessVars
  <2>2. CASE sid[rsess[r]] = i
    <3>1. \E t \in Timers : timerState'[t] # "idle" /\ timerId'[t] = i
      BY <2>0, <2>1, <2>2, ClearInactiveTimes
    <3>q. QED
      BY <3>1 DEF Awaited
  <2>3. CASE sid[rsess[r]] # i
    <3>1. TimersKept(i)
      BY <2>0, ClearInactiveTimes
    <3>2. RequestsKept(i) /\ HandlersKept(i)
      BY <1>20, <1>h, <2>3 DEF ApiClear, Return, sessVars, wsVars, RequestsKept
    <3>q. QED
      BY <2>1, <3>1, <3>2, <1>a, AwaitedKept
  <2>q. QED
    BY <2>2, <2>3
<1>21. ASSUME NEW r \in Requests, ApiRemoves(r)
      PROVE  Awaited(i)'
  <2>1. sid[rsess[r]] # i /\ Idle(i) /\ sid[rsess[r]] \in Ids
    BY <1>21 DEF ApiRemoves, Remove, Idle, sessVars, Pointers
  <2>2. TimersKept(i)
    BY <1>21, <2>1, StoppedKept DEF ApiRemoves, Remove
  <2>3. RequestsKept(i)
    BY <1>21 DEF ApiRemoves, Return, Continue, sessVars, RequestsKept
  <2>4. HandlersKept(i)
    BY <1>21, <1>h DEF ApiRemoves, wsVars
  <2>q. QED
    BY <2>1, <2>2, <2>3, <2>4, <1>a, AwaitedKept
<1>22. ASSUME DisconnectAllWebsockets
      PROVE  Awaited(i)'
  <2>1. sessions[i] \in Sessions
    BY <1>22 DEF DisconnectAllWebsockets, Idle, mgrVars
  <2>2. CASE \E h \in Handlers : h \in listeners[sessions[i]]
    <3>1. PICK h \in Handlers : h \in listeners[sessions[i]]
      BY <2>2
    <3>2. hid[h] = i /\ pc[h] \in Serving
      BY <2>1, <3>1 DEF Channels, ListedChannelsOpen, Owners, Ghosts, Serving
    <3>q. QED
      BY <1>22, <3>2 DEF DisconnectAllWebsockets, Awaited
  <2>3. CASE ~\E h \in Handlers : h \in listeners[sessions[i]]
    <3>1. Idle(i)
      BY <1>22, <2>1, <2>3 DEF DisconnectAllWebsockets, Idle, mgrVars
    <3>2. TimersKept(i) /\ RequestsKept(i) /\ HandlersKept(i)
      BY <1>22, <1>t, <1>r, <1>h DEF DisconnectAllWebsockets, mgrVars, apiVars
    <3>q. QED
      BY <3>1, <3>2, <1>a, AwaitedKept
  <2>q. QED
    BY <2>2, <2>3
<1>23. ASSUME UNCHANGED vars
      PROVE  Awaited(i)'
  BY <1>23, <1>a DEF vars, mgrVars, sessVars, wsVars, apiVars, Idle, Awaited
<1>q. QED
  BY <1>1, <1>2, <1>3, <1>4, <1>5, <1>6, <1>7, <1>8, <1>9, <1>10, <1>11, <1>12, <1>13,
     <1>14, <1>15, <1>16, <1>17, <1>18, <1>19, <1>20, <1>21, <1>22, <1>23
  DEF Next, HandlerStep, RunStep, ApiStep

\* What holds in every reachable state.
IInv == TypeInv /\ Owners /\ Held /\ Channels /\ Ghosts /\ ListedTimersLive /\ Timed

LEMMA Initially == Init => IInv
<1> SUFFICES ASSUME Init PROVE IInv
  OBVIOUS
<1>1. TypeInv
  BY TypeInit
<1>2. Owners /\ Held /\ Channels /\ Ghosts /\ ListedTimersLive /\ Timed
  BY DEF Init, Owners, Held, Before, Channels, ListedChannelsOpen, Ghosts, ListedTimersLive, Timed, Idle
<1>q. QED
  BY <1>1, <1>2 DEF IInv

LEMMA Inductive == IInv /\ [Next]_vars => IInv'
  BY TypeStep, OwnersStep, HeldStep, ChannelsStep, GhostsStep, TimersStep, TimedStep DEF IInv

LEMMA Invariance == Spec => []IInv
  BY Initially, Inductive, PTL DEF Spec

-----------------------------------------------------------------------------
(* The theorems *)

\* Every field keeps its type; the attempts of one reconnection stay below
\* their bound (session/session.go:158).
THEOREM TypeCorrect == Spec => []TypeOK
<1>1. IInv => TypeOK
  BY DEF IInv, TypeInv
<1>q. QED
  BY <1>1, Invariance, PTL

\* The listener channels of session.go: what is listed is open and belongs to
\* the one session its handler serves, so that nothing is sent on a closed
\* channel and none is closed twice.
THEOREM ChannelsSafe == Spec => []ListedChannelsOpen
<1>1. IInv => ListedChannelsOpen
  BY DEF IInv, Channels
<1>q. QED
  BY <1>1, Invariance, PTL

\* The disconnect timers of session.go: a listed one is to run, and its id
\* names a session.
THEOREM TimersSafe == Spec => []ListedTimersLive
<1>1. IInv => ListedTimersLive
  BY DEF IInv
<1>q. QED
  BY <1>1, Invariance, PTL

\* RemoveListener works by id: still, no handler that has returned is left
\* among the listeners of a registered session.
THEOREM NoGhosts == Spec => []NoGhostListeners
<1>1. IInv => NoGhostListeners
  BY DEF IInv, TypeInv, TypeOK, MgrTypeOK, Ghosts, NoGhostListeners
<1>q. QED
  BY <1>1, Invariance, PTL

\* The disconnect timer of a session nobody looks at: one is pending, or a
\* connection or an unpin request of its id is on its way to ClearInactive.
THEOREM IdleAwaited == Spec => []IdleSessionsTimed
<1>1. IInv => IdleSessionsTimed
  BY DEF IInv, Timed, Idle, Awaited, Serving, IdleSessionsTimed, Pending
<1>q. QED
  BY <1>1, Invariance, PTL

=============================================================================
