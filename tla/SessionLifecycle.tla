-------------------------- MODULE SessionLifecycle --------------------------
(***************************************************************************)
(* The life of terminal sessions: the registry of session/session.go       *)
(* (SessionManager), the read goroutine of each Session (run), the         *)
(* one-minute disconnect timers, the WebSocket handlers of ws/ws.go        *)
(* (HandleTerminal) and the /api/sessions requests and /api/logout_all of  *)
(* app.go.  One action is one critical section of m.mu or s.mu; a section  *)
(* of s.mu nested in one of m.mu is one action with it.  Time is           *)
(* abstracted: a timer, a retry pause or a dial takes any time.            *)
(***************************************************************************)
EXTENDS Naturals, FiniteSets

CONSTANTS
    Ids,        \* session ids, chosen by the browsers
    Handlers,   \* WebSocket connections, each served by one HandleTerminal
    Sessions,   \* Session objects that may be created
    Timers,     \* time.AfterFunc objects, reused once they have run
    Requests,   \* concurrent calls of the /api/sessions endpoints
    NoSession, NoTimer,
    MaxRetries, \* 30 in the code
    Wanted,     \* the tab states browsers ask for
    Lossy       \* TRUE: a listener's queue may be full, so a send may be dropped

ASSUME ConstantsAssumption ==
    /\ Ids # {}
    /\ NoSession \notin Sessions
    /\ NoTimer \notin Timers
    /\ MaxRetries \in Nat \ {0}
    /\ Wanted \subseteq 0..3
    /\ Lossy \in BOOLEAN

VARIABLES
    \* SessionManager
    sessions,           \* [Ids -> Sessions \cup {NoSession}]
    disconnectTimers,   \* [Ids -> Timers \cup {NoTimer}]
    timerState,         \* "idle" (unused, stopped or has run), "armed", "fired"
    timerId,            \* the id the callback of a timer has captured
    \* Session
    sid,                \* s.ID
    tabState,           \* 0 normal, 1 pinned, 2 pinned+locked, 3 +hidden
    listeners,          \* s.listeners, each channel named by its handler
    run,                \* where the goroutine run() is
    link,               \* the PTY or SSH channel behind Reader and Writer
    retryable,          \* s.RetryFunc # nil
    retries,            \* attempts made since the last read error
    \* HandleTerminal
    pc, hid, hsess,     \* its next step, sessionID and local variable s
    hfound,             \* a session it looked up in the registry to act on
    chan,               \* its listener channel
    conn,               \* its WebSocket
    told,               \* the final connection state put on its channel
    \* API requests
    rpc, rsess, rwant,  \* next step, session in hand and requested tab state
    rtodo               \* sessions a close request still has to end

mgrVars == <<sessions, disconnectTimers, timerState, timerId>>
sessVars == <<sid, tabState, listeners, run, link, retryable, retries>>
wsVars == <<pc, hid, hsess, hfound, chan, conn, told>>
apiVars == <<rpc, rsess, rwant, rtodo>>
vars == <<mgrVars, sessVars, wsVars, apiVars>>

TabStates == 0..3
RunStates == {"free", "reading", "retrying", "exited", "failed", "removing", "done"}
Steps == {"idle", "reconnectClose", "reconnectRemove", "get", "create", "add",
          "steal", "state", "unhide", "cancel", "attach", "serve", "unlisten",
          "clear", "gone"}
ApiSteps == {"idle", "set", "clear", "check", "close", "remove"}
\* "connected" and "disconnected" only change what an open terminal shows.
StateMsgs == {"none", "stolen", "exited", "fatal"}

MgrTypeOK ==
    /\ sessions \in [Ids -> Sessions \cup {NoSession}]
    /\ disconnectTimers \in [Ids -> Timers \cup {NoTimer}]
    /\ timerState \in [Timers -> {"idle", "armed", "fired"}]
    /\ timerId \in [Timers -> Ids]

SessTypeOK ==
    /\ sid \in [Sessions -> Ids]
    /\ tabState \in [Sessions -> TabStates]
    /\ listeners \in [Sessions -> SUBSET Handlers]
    /\ run \in [Sessions -> RunStates]
    /\ link \in [Sessions -> {"up", "closed"}]
    /\ retryable \in [Sessions -> BOOLEAN]
    /\ retries \in [Sessions -> 0..(MaxRetries - 1)]

WsTypeOK ==
    /\ pc \in [Handlers -> Steps]
    /\ hid \in [Handlers -> Ids]
    /\ hsess \in [Handlers -> Sessions \cup {NoSession}]
    /\ hfound \in [Handlers -> Sessions \cup {NoSession}]
    /\ chan \in [Handlers -> {"none", "open", "closed"}]
    /\ conn \in [Handlers -> {"open", "closed"}]
    /\ told \in [Handlers -> StateMsgs]

ApiTypeOK ==
    /\ rpc \in [Requests -> ApiSteps]
    /\ rsess \in [Requests -> Sessions \cup {NoSession}]
    /\ rwant \in [Requests -> TabStates]
    /\ rtodo \in [Requests -> SUBSET Sessions]

TypeOK == MgrTypeOK /\ SessTypeOK /\ WsTypeOK /\ ApiTypeOK

SomeId == CHOOSE i \in Ids : TRUE  \* value of id fields not yet in use

\* A server that has just started: nothing registered, nobody connected.
Init ==
    /\ sessions = [i \in Ids |-> NoSession]
    /\ disconnectTimers = [i \in Ids |-> NoTimer]
    /\ timerState = [t \in Timers |-> "idle"]
    /\ timerId = [t \in Timers |-> SomeId]
    /\ sid = [s \in Sessions |-> SomeId]
    /\ tabState = [s \in Sessions |-> 0]
    /\ listeners = [s \in Sessions |-> {}]
    /\ run = [s \in Sessions |-> "free"]
    /\ link = [s \in Sessions |-> "closed"]
    /\ retryable = [s \in Sessions |-> FALSE]
    /\ retries = [s \in Sessions |-> 0]
    /\ pc = [h \in Handlers |-> "idle"]
    /\ hid = [h \in Handlers |-> SomeId]
    /\ hsess = [h \in Handlers |-> NoSession]
    /\ hfound = [h \in Handlers |-> NoSession]
    /\ chan = [h \in Handlers |-> "none"]
    /\ conn = [h \in Handlers |-> "open"]
    /\ told = [h \in Handlers |-> "none"]
    /\ rpc = [r \in Requests |-> "idle"]
    /\ rsess = [r \in Requests |-> NoSession]
    /\ rwant = [r \in Requests |-> 0]
    /\ rtodo = [r \in Requests |-> {}]

-----------------------------------------------------------------------------
(* Critical sections shared by several callers *)

\* timer.Stop(): a timer that has not fired is gone, one that has fired is not
\* called back; the result is ignored.
Stopped(t) == IF t # NoTimer /\ timerState[t] = "armed"
              THEN [timerState EXCEPT ![t] = "idle"] ELSE timerState

\* mutant: the timer of the id is left listed
Remove_KeepsTimer(i) ==
    /\ sessions' = [sessions EXCEPT ![i] = NoSession]
    /\ UNCHANGED <<disconnectTimers, timerState, timerId>>

\* SessionManager.Remove: by id, whatever session is registered under it.
Remove(i) ==
    /\ sessions' = [sessions EXCEPT ![i] = NoSession]
    /\ timerState' = Stopped(disconnectTimers[i])
    /\ disconnectTimers' = [disconnectTimers EXCEPT ![i] = NoTimer]
    /\ UNCHANGED timerId

\* The disconnect timer of i is wanted: its session has no listener, is
\* neither pinned nor locked, and no timer is listed.
Inactive(i) ==
    /\ sessions[i] # NoSession
    /\ tabState[sessions[i]] = 0
    /\ listeners[sessions[i]] = {}
    /\ disconnectTimers[i] = NoTimer

\* SessionManager.ClearInactive
ClearInactive(i) ==
    \/ /\ Inactive(i)
       /\ \E t \in Timers :
            /\ timerState[t] = "idle"
            /\ disconnectTimers' = [disconnectTimers EXCEPT ![i] = t]
            /\ timerState' = [timerState EXCEPT ![t] = "armed"]
            /\ timerId' = [timerId EXCEPT ![t] = i]
       /\ UNCHANGED sessions
    \/ ~Inactive(i) /\ UNCHANGED mgrVars

\* Session.Broadcast: a non-blocking send of m to every listener of s.
Broadcast(s, m) ==
    \E reached \in IF Lossy THEN SUBSET listeners[s] ELSE {listeners[s]} :
        told' = [h \in Handlers |-> IF h \in reached THEN m ELSE told[h]]

\* Close every channel in the set hs.
Closed(hs) == [h \in Handlers |-> IF h \in hs THEN "closed" ELSE chan[h]]

\* s.listeners = nil
Forgotten_Not(s) == listeners  \* mutant: the list is not reset
Forgotten(s) == [listeners EXCEPT ![s] = {}]

\* Session.Close(): CloseFunc ends the PTY or the SSH channel.
Close(s) == link' = [link EXCEPT ![s] = "closed"]

-----------------------------------------------------------------------------
(* HandleTerminal *)

Goto(h, step) == pc' = [pc EXCEPT ![h] = step]

\* A browser opens a WebSocket for session id i; with reconnect=1 the handler
\* first looks up the session to end.
Connect(h, i, reconnect) ==
    /\ pc[h] = "idle"
    /\ hid' = [hid EXCEPT ![h] = i]
    /\ IF reconnect /\ sessions[i] # NoSession
       THEN Goto(h, "reconnectClose") /\ hfound' = [hfound EXCEPT ![h] = sessions[i]]
       ELSE Goto(h, "get") /\ UNCHANGED hfound
    /\ UNCHANGED <<mgrVars, sessVars, apiVars, hsess, chan, conn, told>>

ReconnectClose(h) ==
    /\ pc[h] = "reconnectClose"
    /\ Close(hfound[h])
    /\ Goto(h, "reconnectRemove")
    /\ UNCHANGED <<mgrVars, sid, tabState, listeners, run, retryable, retries, apiVars,
                   hid, hsess, hfound, chan, conn, told>>

ReconnectRemove(h) ==
    /\ pc[h] = "reconnectRemove"
    /\ Remove(hid[h])
    /\ Goto(h, "get")
    /\ hfound' = [hfound EXCEPT ![h] = NoSession]
    /\ UNCHANGED <<sessVars, apiVars, hid, hsess, chan, conn, told>>

\* GlobalManager.Get(sessionID) decides between creating and taking over.
GetSession(h) ==
    /\ pc[h] = "get"
    /\ hsess' = [hsess EXCEPT ![h] = sessions[hid[h]]]
    /\ Goto(h, IF sessions[hid[h]] = NoSession THEN "create" ELSE "steal")
    /\ UNCHANGED <<mgrVars, sessVars, apiVars, hid, hfound, chan, conn, told>>

\* localpty.Start or DialSSH and NewSession, which starts the goroutine run().
CreateSession(h) ==
    /\ pc[h] = "create"
    /\ \E s \in Sessions :
         /\ run[s] = "free"
         /\ run' = [run EXCEPT ![s] = "reading"]
         /\ link' = [link EXCEPT ![s] = "up"]
         /\ sid' = [sid EXCEPT ![s] = hid[h]]
         /\ hsess' = [hsess EXCEPT ![h] = s]
    /\ Goto(h, "add")
    /\ UNCHANGED <<mgrVars, tabState, listeners, retryable, retries, apiVars,
                   hid, hfound, chan, conn, told>>

\* The shell cannot be started or the server cannot be reached.
CreateFails(h) ==
    /\ pc[h] = "create"
    /\ Goto(h, "gone")
    /\ conn' = [conn EXCEPT ![h] = "closed"]
    /\ UNCHANGED <<mgrVars, sessVars, apiVars, hid, hsess, hfound, chan, told>>

\* An SSH session gets its RetryFunc, a local one none; GlobalManager.Add
\* registers it, in place of whatever the id names by now.
AddSession(h) ==
    /\ pc[h] = "add"
    /\ \E ssh \in BOOLEAN : retryable' = [retryable EXCEPT ![hsess[h]] = ssh]
    /\ sessions' = [sessions EXCEPT ![hid[h]] = hsess[h]]
    /\ Goto(h, "state")
    /\ UNCHANGED <<disconnectTimers, timerState, timerId, sid, tabState, listeners, run,
                   link, retries, apiVars, hid, hsess, hfound, chan, conn, told>>

\* Session.Steal: every listener is told, closed and forgotten.
Steal(h) ==
    /\ pc[h] = "steal"
    /\ Broadcast(hsess[h], "stolen")
    /\ chan' = Closed(listeners[hsess[h]])
    /\ listeners' = Forgotten(hsess[h])
    /\ Goto(h, "state")
    /\ UNCHANGED <<mgrVars, sid, tabState, run, link, retryable, retries, apiVars,
                   hid, hsess, hfound, conn>>

\* The query names the tab state the browser wants.
QueryState(h, k) ==
    /\ pc[h] = "state"
    /\ tabState' = [tabState EXCEPT ![hsess[h]] = k]
    /\ Goto(h, "cancel")
    /\ UNCHANGED <<mgrVars, sid, listeners, run, link, retryable, retries, apiVars,
                   hid, hsess, hfound, chan, conn, told>>

\* It names none: a session seen to be hidden is to become visible, in a
\* section of its own.
NoQueryState(h) ==
    /\ pc[h] = "state"
    /\ Goto(h, IF tabState[hsess[h]] = 3 THEN "unhide" ELSE "cancel")
    /\ UNCHANGED <<mgrVars, sessVars, apiVars, hid, hsess, hfound, chan, conn, told>>

Unhide(h) ==
    /\ pc[h] = "unhide"
    /\ tabState' = [tabState EXCEPT ![hsess[h]] = 2]
    /\ Goto(h, "cancel")
    /\ UNCHANGED <<mgrVars, sid, listeners, run, link, retryable, retries, apiVars,
                   hid, hsess, hfound, chan, conn, told>>

\* SessionManager.CancelDisconnectTimer
CancelTimer(h) ==
    /\ pc[h] = "cancel"
    /\ timerState' = Stopped(disconnectTimers[hid[h]])
    /\ disconnectTimers' = [disconnectTimers EXCEPT ![hid[h]] = NoTimer]
    /\ Goto(h, "attach")
    /\ UNCHANGED <<sessions, timerId, sessVars, apiVars, hid, hsess, hfound,
                   chan, conn, told>>

\* Session.AddListener; then the writer goroutine starts on the channel.
Attach(h) ==
    /\ pc[h] = "attach"
    /\ listeners' = [listeners EXCEPT ![hsess[h]] = @ \cup {h}]
    /\ chan' = [chan EXCEPT ![h] = "open"]
    /\ Goto(h, "serve")
    /\ UNCHANGED <<mgrVars, sid, tabState, run, link, retryable, retries, apiVars,
                   hid, hsess, hfound, conn, told>>

\* The browser closes the WebSocket, or stops answering pings.
ClientLeaves(h) ==
    /\ pc[h] \notin {"idle", "gone"}
    /\ conn[h] = "open"
    /\ conn' = [conn EXCEPT ![h] = "closed"]
    /\ UNCHANGED <<mgrVars, sessVars, apiVars, pc, hid, hsess, hfound, chan, told>>

\* mutant: the writer goroutine returns on "stolen" and leaves the socket open
WriterCloses_NotStolen(h) ==
    /\ chan[h] = "closed" /\ told[h] # "stolen"
    /\ conn[h] = "open"
    /\ conn' = [conn EXCEPT ![h] = "closed"]
    /\ UNCHANGED <<mgrVars, sessVars, apiVars, pc, hid, hsess, hfound, chan, told>>

\* The writer goroutine has drained a closed channel and closes the WebSocket.
WriterCloses(h) ==
    /\ chan[h] = "closed"
    /\ conn[h] = "open"
    /\ conn' = [conn EXCEPT ![h] = "closed"]
    /\ UNCHANGED <<mgrVars, sessVars, apiVars, pc, hid, hsess, hfound, chan, told>>

\* ReadMessage fails: the deferred SessionManager.RemoveListener looks up the
\* session by id and does nothing when none is registered.
Lookup(h) ==
    /\ pc[h] = "serve"
    /\ conn[h] = "closed"
    /\ hfound' = [hfound EXCEPT ![h] = sessions[hid[h]]]
    /\ Goto(h, IF sessions[hid[h]] = NoSession THEN "gone" ELSE "unlisten")
    /\ UNCHANGED <<mgrVars, sessVars, apiVars, hid, hsess, chan, conn, told>>

\* mutant: the handler leaves without removing its channel
Unlisten_Not(h) ==
    /\ pc[h] = "unlisten"
    /\ Goto(h, "clear")
    /\ hfound' = [hfound EXCEPT ![h] = NoSession]
    /\ UNCHANGED <<mgrVars, sessVars, apiVars, hid, hsess, chan, conn, told>>

\* Session.RemoveListener, on the session found: closes the channel if listed.
Unlisten(h) ==
    /\ pc[h] = "unlisten"
    /\ listeners' = [listeners EXCEPT ![hfound[h]] = @ \ {h}]
    /\ chan' = IF h \in listeners[hfound[h]] THEN Closed({h}) ELSE chan
    /\ Goto(h, "clear")
    /\ hfound' = [hfound EXCEPT ![h] = NoSession]
    /\ UNCHANGED <<mgrVars, sid, tabState, run, link, retryable, retries, apiVars,
                   hid, hsess, conn, told>>

Leave(h) ==
    /\ pc[h] = "clear"
    /\ ClearInactive(hid[h])
    /\ Goto(h, "gone")
    /\ UNCHANGED <<sessVars, apiVars, hid, hsess, hfound, chan, conn, told>>

HandlerStep(h) ==
    \/ ReconnectClose(h) \/ ReconnectRemove(h) \/ GetSession(h)
    \/ CreateSession(h) \/ CreateFails(h) \/ AddSession(h) \/ Steal(h)
    \/ \E k \in Wanted : QueryState(h, k)
    \/ NoQueryState(h) \/ Unhide(h) \/ CancelTimer(h) \/ Attach(h)
    \/ Lookup(h) \/ Unlisten(h) \/ Leave(h)

-----------------------------------------------------------------------------
(* Session.run *)

Run(s, step) == run' = [run EXCEPT ![s] = step]

\* The process exits or the network fails.
LinkEnds(s) ==
    /\ link[s] = "up"
    /\ Close(s)
    /\ UNCHANGED <<mgrVars, sid, tabState, listeners, run, retryable, retries, wsVars, apiVars>>

\* Read returns io.EOF: "exited" is broadcast and nothing is retried.
ReadEOF(s) ==
    /\ run[s] = "reading" /\ link[s] = "closed"
    /\ Broadcast(s, "exited")
    /\ Run(s, "exited")
    /\ UNCHANGED <<mgrVars, sid, tabState, listeners, link, retryable, retries,
                   pc, hid, hsess, hfound, chan, conn, apiVars>>

\* Any other read error: an SSH session starts to reconnect.
ReadError(s) ==
    /\ run[s] = "reading" /\ link[s] = "closed"
    /\ Run(s, IF retryable[s] THEN "retrying" ELSE "failed")
    /\ UNCHANGED <<mgrVars, sid, tabState, listeners, link, retryable, retries, wsVars, apiVars>>

\* mutant: one attempt too many
RetryFails_Extra(s) ==
    /\ run[s] = "retrying"
    /\ retries' = [retries EXCEPT ![s] = @ + 1]
    /\ Run(s, IF retries[s] > MaxRetries THEN "failed" ELSE "retrying")
    /\ UNCHANGED <<mgrVars, sid, tabState, listeners, link, retryable, wsVars, apiVars>>

\* One RetryFunc: the server cannot be reached.
RetryFails(s) ==
    /\ run[s] = "retrying"
    /\ retries' = [retries EXCEPT ![s] = IF @ + 1 = MaxRetries THEN 0 ELSE @ + 1]
    /\ Run(s, IF retries[s] + 1 = MaxRetries THEN "failed" ELSE "retrying")
    /\ UNCHANGED <<mgrVars, sid, tabState, listeners, link, retryable, wsVars, apiVars>>

\* Authentication or host key trouble ends the attempts.
RetryFatal(s) ==
    /\ run[s] = "retrying"
    /\ Broadcast(s, "fatal")
    /\ Run(s, "failed")
    /\ retries' = [retries EXCEPT ![s] = 0]
    /\ UNCHANGED <<mgrVars, sid, tabState, listeners, link, retryable,
                   pc, hid, hsess, hfound, chan, conn, apiVars>>

\* The session gets a new SSH channel, whether or not it was closed meanwhile.
RetrySucceeds(s) ==
    /\ run[s] = "retrying"
    /\ link' = [link EXCEPT ![s] = "up"]
    /\ Run(s, "reading")
    /\ retries' = [retries EXCEPT ![s] = 0]
    /\ UNCHANGED <<mgrVars, sid, tabState, listeners, retryable, wsVars, apiVars>>

\* The session is over: every listener is closed and forgotten.
CloseListeners(s) ==
    /\ run[s] \in {"exited", "failed"}
    /\ chan' = Closed(listeners[s])
    /\ listeners' = Forgotten(s)
    /\ Run(s, "removing")
    /\ UNCHANGED <<mgrVars, sid, tabState, link, retryable, retries,
                   pc, hid, hsess, hfound, conn, told, apiVars>>

\* GlobalManager.Remove(s.ID), after s.mu has been released.
RunRemoves(s) ==
    /\ run[s] = "removing"
    /\ Remove(sid[s])
    /\ Run(s, "done")
    /\ UNCHANGED <<sid, tabState, listeners, link, retryable, retries, wsVars, apiVars>>

RunStep(s) ==
    \/ ReadEOF(s) \/ ReadError(s) \/ RetryFails(s) \/ RetryFatal(s) \/ RetrySucceeds(s)
    \/ CloseListeners(s) \/ RunRemoves(s)

-----------------------------------------------------------------------------
(* Disconnect timers *)

\* A minute has passed: the callback's goroutine starts and waits for m.mu.
TimerFires(t) ==
    /\ timerState[t] = "armed"
    /\ timerState' = [timerState EXCEPT ![t] = "fired"]
    /\ UNCHANGED <<sessions, disconnectTimers, timerId, sessVars, wsVars, apiVars>>

\* mutant: the entry is deleted only with the session
TimerCallback_KeepsEntry(t) ==
    LET i == timerId[t]
        idle == sessions[i] # NoSession /\ listeners[sessions[i]] = {}
    IN  /\ timerState[t] = "fired"
        /\ \/ /\ idle /\ Close(sessions[i])
              /\ sessions' = [sessions EXCEPT ![i] = NoSession]
              /\ disconnectTimers' = [disconnectTimers EXCEPT ![i] = NoTimer]
           \/ ~idle /\ UNCHANGED <<link, sessions, disconnectTimers>>
        /\ timerState' = [timerState EXCEPT ![t] = "idle"]
        /\ UNCHANGED <<timerId, sid, tabState, listeners, run, retryable, retries,
                       wsVars, apiVars>>

\* The callback: only the listener count is looked at again; the entry of the
\* id is deleted, even if it has become another timer's.
TimerCallback(t) ==
    LET i == timerId[t]
        idle == sessions[i] # NoSession /\ listeners[sessions[i]] = {}
    IN  /\ timerState[t] = "fired"
        /\ \/ idle /\ Close(sessions[i]) /\ sessions' = [sessions EXCEPT ![i] = NoSession]
           \/ ~idle /\ UNCHANGED <<link, sessions>>
        /\ disconnectTimers' = [disconnectTimers EXCEPT ![i] = NoTimer]
        /\ timerState' = [timerState EXCEPT ![t] = "idle"]
        /\ UNCHANGED <<timerId, sid, tabState, listeners, run, retryable, retries,
                       wsVars, apiVars>>

-----------------------------------------------------------------------------
(* The requests of app.go *)

Locked(s) == tabState[s] \in {2, 3}

\* The request r is answered; its local variables are gone.
Return(r) ==
    /\ rpc' = [rpc EXCEPT ![r] = "idle"]
    /\ rsess' = [rsess EXCEPT ![r] = NoSession]
    /\ rwant' = [rwant EXCEPT ![r] = 0]
    /\ rtodo' = [rtodo EXCEPT ![r] = {}]

\* The request r goes on to another step.
Continue(r, step) == rpc' = [rpc EXCEPT ![r] = step]

\* /api/sessions/pin, lock, hide, unpin: k is 1, 2, 3, 0.
ApiState(r, i, k) ==
    /\ rpc[r] = "idle" /\ sessions[i] # NoSession
    /\ Continue(r, "set")
    /\ rsess' = [rsess EXCEPT ![r] = sessions[i]]
    /\ rwant' = [rwant EXCEPT ![r] = k]
    /\ UNCHANGED <<mgrVars, sessVars, wsVars, rtodo>>

ApiSet(r) ==
    /\ rpc[r] = "set"
    /\ tabState' = [tabState EXCEPT ![rsess[r]] = rwant[r]]
    /\ IF rwant[r] = 0 THEN Continue(r, "clear") /\ UNCHANGED <<rsess, rwant, rtodo>>
                       ELSE Return(r)
    /\ UNCHANGED <<mgrVars, sid, listeners, run, link, retryable, retries, wsVars>>

\* mutant: unpin does not look for listeners
ApiClear_Not(r) ==
    /\ rpc[r] = "clear"
    /\ Return(r)
    /\ UNCHANGED <<mgrVars, sessVars, wsVars>>

\* unpin ends with ClearInactive.
ApiClear(r) ==
    /\ rpc[r] = "clear"
    /\ ClearInactive(sid[rsess[r]])
    /\ Return(r)
    /\ UNCHANGED <<sessVars, wsVars>>

\* /api/sessions/close: CloseIfNotLocked gets the session ...
ApiClose(r, i) ==
    /\ rpc[r] = "idle" /\ sessions[i] # NoSession
    /\ Continue(r, "check")
    /\ rsess' = [rsess EXCEPT ![r] = sessions[i]]
    /\ UNCHANGED <<mgrVars, sessVars, wsVars, rwant, rtodo>>

\* ... looks whether it is locked ...
ApiCheck(r) ==
    /\ rpc[r] = "check"
    /\ \/ Locked(rsess[r]) /\ Return(r)
       \/ /\ ~Locked(rsess[r])
          /\ rtodo' = [rtodo EXCEPT ![r] = {rsess[r]}]
          /\ Continue(r, "close") /\ UNCHANGED <<rsess, rwant>>
    /\ UNCHANGED <<mgrVars, sessVars, wsVars>>

\* (/api/sessions/close_all_normal: CloseAllNormal collects the unlocked ones)
ApiCloseAll(r) ==
    /\ rpc[r] = "idle"
    /\ LET toClose == {sessions[i] : i \in {j \in Ids : sessions[j] # NoSession /\ ~Locked(sessions[j])}}
       IN  /\ toClose # {}
           /\ rtodo' = [rtodo EXCEPT ![r] = toClose]
    /\ Continue(r, "close")
    /\ UNCHANGED <<mgrVars, sessVars, wsVars, rsess, rwant>>

\* ... closes it ...
ApiCloses(r) ==
    /\ rpc[r] = "close"
    /\ \E s \in rtodo[r] :
         /\ Close(s)
         /\ rsess' = [rsess EXCEPT ![r] = s]
         /\ rtodo' = [rtodo EXCEPT ![r] = @ \ {s}]
    /\ Continue(r, "remove")
    /\ UNCHANGED <<mgrVars, sid, tabState, listeners, run, retryable, retries, wsVars, rwant>>

\* ... and removes its id.
ApiRemoves(r) ==
    /\ rpc[r] = "remove"
    /\ Remove(sid[rsess[r]])
    /\ IF rtodo[r] = {} THEN Return(r)
                       ELSE Continue(r, "close") /\ UNCHANGED <<rsess, rwant, rtodo>>
    /\ UNCHANGED <<sessVars, wsVars>>

ApiStep(r) ==
    ApiSet(r) \/ ApiClear(r) \/ ApiCheck(r) \/ ApiCloses(r) \/ ApiRemoves(r)

\* mutant: the lists are not reset
DisconnectAllWebsockets_Keeps ==
    LET registered == {sessions[i] : i \in Ids} \ {NoSession}
    IN  /\ \E s \in registered : listeners[s] # {}
        /\ chan' = Closed(UNION {listeners[s] : s \in registered})
        /\ UNCHANGED <<mgrVars, sessVars, pc, hid, hsess, hfound, conn, told, apiVars>>

\* /api/logout_all and a password change: DisconnectAllWebsockets closes the
\* listeners of every registered session.
DisconnectAllWebsockets ==
    LET registered == {sessions[i] : i \in Ids} \ {NoSession}
    IN  /\ \E s \in registered : listeners[s] # {}
        /\ chan' = Closed(UNION {listeners[s] : s \in registered})
        /\ listeners' = [s \in Sessions |-> IF s \in registered THEN {} ELSE listeners[s]]
        /\ UNCHANGED <<mgrVars, sid, tabState, run, link, retryable, retries,
                       pc, hid, hsess, hfound, conn, told, apiVars>>

-----------------------------------------------------------------------------

Next ==
    \/ \E h \in Handlers, i \in Ids, reconnect \in BOOLEAN : Connect(h, i, reconnect)
    \/ \E h \in Handlers : HandlerStep(h) \/ ClientLeaves(h) \/ WriterCloses(h)
    \/ \E s \in Sessions : LinkEnds(s) \/ RunStep(s)
    \/ \E t \in Timers : TimerFires(t) \/ TimerCallback(t)
    \/ \E r \in Requests, i \in Ids, k \in Wanted : ApiState(r, i, k)
    \/ \E r \in Requests, i \in Ids : ApiClose(r, i)
    \/ \E r \in Requests : ApiCloseAll(r) \/ ApiStep(r)
    \/ DisconnectAllWebsockets

Spec == Init /\ [][Next]_vars

\* Goroutines that can run do run, and a timer fires; browsers, processes and
\* networks may do nothing.
Fairness ==
    /\ \A h \in Handlers : WF_vars(HandlerStep(h)) /\ WF_vars(WriterCloses(h))
    /\ \A s \in Sessions : WF_vars(RunStep(s))
    /\ \A t \in Timers : WF_vars(TimerFires(t)) /\ WF_vars(TimerCallback(t))
    /\ \A r \in Requests : WF_vars(ApiStep(r))

FairSpec == Spec /\ Fairness

-----------------------------------------------------------------------------
(* Properties *)

\* A channel is in the listeners of exactly the session its handler serves
\* while it is open, and of none otherwise: no goroutine ever sends on or
\* closes a closed channel (which would panic and end the whole server), and
\* no open channel is forgotten, whatever steals, removals, endings of
\* sessions and logouts overlap.
ListedChannelsOpen ==
    \A h \in Handlers, s \in Sessions :
        h \in listeners[s] <=> chan[h] = "open" /\ hsess[h] = s

\* A listed disconnect timer belongs to a registered session, was started for
\* that id and is still to run: an entry that ClearInactive finds and lets
\* stand can never be a dead one that leaves its session without a timer.
ListedTimersLive ==
    \A i \in Ids : disconnectTimers[i] # NoTimer =>
        /\ sessions[i] # NoSession
        /\ timerState[disconnectTimers[i]] # "idle"
        /\ timerId[disconnectTimers[i]] = i

\* A handler that has returned is not among the listeners of a registered
\* session, although RemoveListener looks the session up by id and the id may
\* have been given to another session: a ghost listener would keep the
\* session's disconnect timer from closing it.
NoGhostListeners ==
    \A i \in Ids, h \in Handlers :
        sessions[i] # NoSession /\ h \in listeners[sessions[i]] => pc[h] # "gone"

\* A registered, unpinned session without listeners is never left to itself: a
\* disconnect timer of its id is pending, or a connection or an unpin request of
\* the id is still under way and will see to one.  Attaching, leaving, pinning
\* and unpinning read and write the timers, the tab state and the listeners in
\* separate critical sections, and a stale callback deletes the entry of a newer
\* timer; none of it may lose the last of these.
Pending(i) ==
    \/ \E t \in Timers : timerState[t] # "idle" /\ timerId[t] = i
    \/ \E h \in Handlers : hid[h] = i /\ pc[h] \notin {"idle", "gone"}
    \/ \E r \in Requests : rpc[r] = "clear" /\ sid[rsess[r]] = i

IdleSessionsTimed ==
    \A i \in Ids :
        sessions[i] # NoSession /\ tabState[sessions[i]] = 0 /\ listeners[sessions[i]] = {}
        => Pending(i)

\* A registered, unpinned session of an id that no connection is left for does
\* not stay so: its disconnect timer closes it, or a browser comes back.  It
\* needs every path that takes the last listener away to leave a timer behind,
\* in spite of stale callbacks that delete the entries of newer timers.
Abandoned(i, s) ==
    /\ sessions[i] = s /\ tabState[s] = 0 /\ listeners[s] = {}
    /\ \A h \in Handlers : hid[h] = i => pc[h] \in {"idle", "gone"}

AbandonedSessionsEnd ==
    \A i \in Ids, s \in Sessions : Abandoned(i, s) ~> ~Abandoned(i, s)

\* A WebSocket whose channel was closed, by a steal, a logout or the end of
\* its session, is closed and its handler returns.
ClosedChannelsReturn ==
    \A h \in Handlers : chan[h] = "closed" ~> pc[h] = "gone"

(* What the documentation says and the code does not keep; each is checked *)
(* by a run of its own that finds it violated.                             *)

\* ws/ws.go:396-400: RemoveListener is there not to leave "bash/SSH processes alive
\* indefinitely": a live session that is not registered and that no handler
\* serves comes to an end.
LeftBehind(s) ==
    /\ run[s] = "reading" /\ link[s] = "up"
    /\ \A i \in Ids : sessions[i] # s
    /\ \A h \in Handlers : hsess[h] = s => pc[h] = "gone"

NoneLeftBehind == \A s \in Sessions : LeftBehind(s) ~> ~LeftBehind(s)
=============================================================================
