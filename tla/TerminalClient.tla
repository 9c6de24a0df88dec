--------------------------- MODULE TerminalClient ---------------------------
(***************************************************************************)
(* The browser's side of a terminal: the sockets, the flags and the timers *)
(* of one terminal pane (frontend/src/Terminal.tsx, connectWS and the      *)
(* effect around it, and TerminalGrid.tsx, which mounts it).  The server   *)
(* is reduced to the one session of the pane's id and the handlers of the  *)
(* pane's requests; SessionLifecycle has the whole of it.                  *)
(*                                                                         *)
(* connectWS waits for the promises of user scripts, and nothing keeps it  *)
(* from being called again meanwhile: each call that waits makes a socket, *)
(* and wsRef knows the last.  The calls that wait are alike, so they are   *)
(* counted.                                                                *)
(***************************************************************************)
EXTENDS Naturals, FiniteSets, Sequences

CONSTANTS
    Sockets,    \* WebSocket objects; one is used again once nobody holds it
    NoSocket,
    MaxOverlaps \* bound on the calls of connectWS that begin while one waits

ASSUME SocketsAssumption ==
    /\ IsFiniteSet(Sockets)
    /\ NoSocket \notin Sockets
    /\ MaxOverlaps \in Nat

VARIABLES
    mounted,    \* the effect of the pane has run and not been cleaned up
    initial,    \* the 50 ms timer of the effect is pending
    disposed,   \* isDisposed
    dead,       \* isDead and deathType: "no", "stolen", "ended" (or fatal)
    exited,     \* sessionExited
    forced,     \* params has reconnect=1
    timer,      \* reconnectTimer is pending
    strays,     \* pending timers that onclose set before it set reconnectTimer
    waits,      \* the calls of connectWS that wait for scripts
    failed,     \* history: scripts have made the last of them fail
    overlaps,   \* history: the calls that began while another waited
    cur,        \* wsRef.current
    ws,         \* readyState; "cut" is OPEN on a connection that is lost
    hooked,     \* sockets with an onclose handler
    inbox,      \* state messages on their way to the pane
    srv,        \* the server's handler: "none", "asked" (until it has a
                \*   session), "attached" (a listener of the session)
    wants,      \* the request says reconnect=1 and is not obeyed yet
    running     \* the session of the pane's id is alive

callVars == <<waits, failed, overlaps>>
paneVars == <<mounted, initial, disposed, dead, exited, forced, timer, strays, callVars>>
socketVars == <<cur, ws, hooked>>
serverVars == <<srv, wants, running>>
vars == <<paneVars, socketVars, inbox, serverVars>>

Messages == {"stolen", "exited", "fatal"}

\* Sockets that can still carry data, as far as the browser knows.
Live == {w \in Sockets : ws[w] \in {"connecting", "open", "cut"}}

Attached == {w \in Sockets : srv[w] = "attached"}

Init ==
    /\ mounted = TRUE /\ initial = TRUE /\ timer = FALSE /\ strays = 0
    /\ waits = 0 /\ failed = FALSE /\ overlaps = 0
    /\ disposed = FALSE /\ dead = "no" /\ exited = FALSE /\ forced = FALSE
    /\ cur = NoSocket /\ hooked = {}
    /\ ws = [w \in Sockets |-> "closed"]
    /\ inbox = [w \in Sockets |-> <<>>]
    /\ srv = [w \in Sockets |-> "none"]
    /\ wants = [w \in Sockets |-> FALSE]
    /\ running \in BOOLEAN      \* restored pinned tabs find their session

-----------------------------------------------------------------------------
(* connectWS *)

\* close() of the socket w, which has an effect once.
CloseSocket(w) ==
    ws' = [x \in Sockets |-> IF x = w /\ x \in Live THEN "closing" ELSE ws[x]]

\* One more call waits.
Waits ==
    /\ waits = 0 \/ overlaps < MaxOverlaps
    /\ waits' = waits + 1 /\ failed' = FALSE
    /\ overlaps' = IF waits = 0 THEN overlaps ELSE overlaps + 1

\* mutant: the former socket is only forgotten, not closed.
Begin_LeavesSocket(force) ==
    /\ Waits
    /\ hooked' = hooked \ {cur}
    /\ timer' = FALSE
    /\ forced' = (forced \/ force)
    /\ UNCHANGED <<cur, ws>>

\* Up to the await: the former socket is dropped, the parameters are set.
\* The parameter reconnect, once set, stays.
Begin(force) ==
    /\ Waits
    /\ hooked' = hooked \ {cur}
    /\ CloseSocket(cur)
    /\ timer' = FALSE
    /\ forced' = (forced \/ force)
    /\ UNCHANGED cur

NewSocket(w) ==
    /\ ws[w] = "closed" /\ srv[w] = "none"
    /\ ws' = [ws EXCEPT ![w] = "connecting"]
    /\ hooked' = hooked \cup {w}
    /\ cur' = w
    /\ srv' = [srv EXCEPT ![w] = "asked"]
    /\ wants' = [wants EXCEPT ![w] = forced]

\* After the await; wsRef is not looked at again.
Resume ==
    /\ waits > 0
    /\ waits' = waits - 1
    /\ IF disposed THEN UNCHANGED <<dead, failed, socketVars, srv, wants>>
                   ELSE dead' = "no" /\ failed' = FALSE /\ \E w \in Sockets : NewSocket(w)
    /\ UNCHANGED <<mounted, initial, disposed, exited, forced, timer, strays, overlaps, inbox,
                   running>>

\* A script's promise is rejected.
SetupFails ==
    /\ waits > 0
    /\ waits' = waits - 1 /\ failed' = TRUE
    /\ UNCHANGED <<mounted, initial, disposed, dead, exited, forced, timer, strays, overlaps,
                   socketVars, inbox, serverVars>>

-----------------------------------------------------------------------------
(* What makes the pane connect *)

InitialTimer ==
    /\ initial /\ initial' = FALSE
    /\ Begin(FALSE)
    /\ UNCHANGED <<mounted, disposed, dead, exited, strays, inbox, serverVars>>

\* Of two that are pending connectWS clears the one that it knows.
ReconnectTimer ==
    /\ \/ timer /\ UNCHANGED strays
       \/ strays > 0 /\ strays' = strays - 1
    /\ Begin(FALSE)
    /\ UNCHANGED <<mounted, initial, disposed, dead, exited, inbox, serverVars>>

\* The handle's reconnect: a shortcut or the menu of the tab.
Reconnect ==
    /\ mounted
    /\ Begin(TRUE)
    /\ UNCHANGED <<mounted, initial, disposed, dead, exited, strays, inbox, serverVars>>

\* mutant: isDisposed is not reset.
Enter_Disposed ==
    /\ mounted /\ dead = "ended"
    /\ dead' = "no"
    /\ Begin(FALSE)
    /\ UNCHANGED <<mounted, initial, disposed, exited, strays, inbox, serverVars>>

\* Enter in a pane whose session ended or was refused.
Enter ==
    /\ mounted /\ dead = "ended"
    /\ dead' = "no" /\ disposed' = FALSE
    /\ Begin(FALSE)
    /\ UNCHANGED <<mounted, initial, exited, strays, inbox, serverVars>>

\* mutant: the socket is closed, but isDisposed is not set.
Unmount_NotDisposed ==
    /\ mounted
    /\ mounted' = FALSE /\ timer' = FALSE
    /\ CloseSocket(cur)
    /\ UNCHANGED <<initial, disposed, dead, exited, forced, strays, callVars, cur, hooked, inbox,
                   serverVars>>

\* The cleanup of the effect: the pane is closed, or, by Enter in a stolen
\* one, replaced by a pane of another id.
Unmount ==
    /\ mounted
    /\ mounted' = FALSE /\ disposed' = TRUE /\ timer' = FALSE
    /\ CloseSocket(cur)
    /\ UNCHANGED <<initial, dead, exited, forced, strays, callVars, cur, hooked, inbox, serverVars>>

-----------------------------------------------------------------------------
(* The events of a socket *)

\* onopen; a disposed pane closes the socket at once.
Opened(w) ==
    /\ ws[w] = "connecting"
    /\ ws' = [ws EXCEPT ![w] = IF disposed THEN "closing" ELSE "open"]
    /\ UNCHANGED <<paneVars, cur, hooked, inbox, serverVars>>

\* mutant: the socket is left for the server to close.
Message_KeepsSocket(w) ==
    /\ ws[w] \in {"open", "cut"} /\ inbox[w] # <<>>
    /\ inbox' = [inbox EXCEPT ![w] = Tail(@)]
    /\ IF Head(inbox[w]) = "exited"
         THEN exited' = TRUE /\ UNCHANGED <<disposed, dead>>
         ELSE /\ disposed' = TRUE
              /\ dead' = IF Head(inbox[w]) = "stolen" THEN "stolen" ELSE "ended"
              /\ UNCHANGED exited
    /\ UNCHANGED <<mounted, initial, forced, timer, strays, callVars, socketVars, serverVars>>

\* onmessage, for the states it acts on.
Message(w) ==
    /\ ws[w] \in {"open", "cut"} /\ inbox[w] # <<>>
    /\ inbox' = [inbox EXCEPT ![w] = Tail(@)]
    /\ IF Head(inbox[w]) = "exited"
         THEN exited' = TRUE /\ UNCHANGED <<disposed, dead, ws>>
         ELSE /\ disposed' = TRUE
              /\ dead' = IF Head(inbox[w]) = "stolen" THEN "stolen" ELSE "ended"
              /\ CloseSocket(w)
              /\ UNCHANGED exited
    /\ UNCHANGED <<mounted, initial, forced, timer, strays, callVars, cur, hooked, serverVars>>

\* A closing socket is closed; or it ends after all that was sent, because
\* the server ended it or the connection is lost.
Ends(w) ==
    \/ ws[w] = "closing"
    \/ w \in Live /\ inbox[w] = <<>> /\ (srv[w] = "none" \/ ws[w] = "cut")

\* onclose; reconnectTimer is set anew, whether it is pending or not.
OnClose(w) ==
    IF w \notin hooked \/ disposed THEN UNCHANGED <<disposed, dead, exited, timer, strays>>
    ELSE IF exited
      THEN exited' = FALSE /\ disposed' = TRUE /\ dead' = "ended" /\ UNCHANGED <<timer, strays>>
      ELSE /\ timer' = TRUE /\ strays' = IF timer THEN strays + 1 ELSE strays
           /\ UNCHANGED <<disposed, dead, exited>>

Closed(w) ==
    /\ Ends(w)
    /\ ws' = [ws EXCEPT ![w] = "closed"]
    /\ inbox' = [inbox EXCEPT ![w] = <<>>]
    /\ OnClose(w)
    /\ UNCHANGED <<mounted, initial, forced, callVars, cur, hooked, serverVars>>

\* The network fails; what was on its way is lost.
NetworkDrops(w) ==
    /\ ws[w] \in {"connecting", "open"}
    /\ ws' = [ws EXCEPT ![w] = "cut"]
    /\ inbox' = [inbox EXCEPT ![w] = <<>>]
    /\ UNCHANGED <<paneVars, cur, hooked, serverVars>>

-----------------------------------------------------------------------------
(* The server *)

\* The handlers in gone return, each having sent what is in msgs; what is
\* sent into a lost or closed connection does not arrive.
Dismiss(gone, msgs) ==
    inbox' = [w \in Sockets |->
        IF w \in gone /\ ws[w] \in {"connecting", "open"} THEN inbox[w] \o msgs ELSE inbox[w]]

\* The session is over: listeners are told that it exited, or cannot be
\* dialled again, or miss it, and are closed.
EndSession ==
    /\ running' = FALSE
    /\ srv' = [w \in Sockets |-> IF w \in Attached THEN "none" ELSE srv[w]]
    /\ \E msgs \in {<<>>, <<"exited">>, <<"fatal">>} : Dismiss(Attached, msgs)

\* reconnect=1: a session with the id is closed first.
ObeyReconnect(w) ==
    /\ srv[w] = "asked" /\ wants[w]
    /\ wants' = [wants EXCEPT ![w] = FALSE]
    /\ IF running THEN EndSession ELSE UNCHANGED <<running, srv, inbox>>
    /\ UNCHANGED <<paneVars, socketVars>>

\* The session is found, and taken from its other listeners, or created.
Attach(w) ==
    /\ srv[w] = "asked" /\ ~wants[w]
    /\ running' = TRUE
    /\ srv' = [x \in Sockets |-> IF x = w THEN "attached"
                                 ELSE IF x \in Attached THEN "none" ELSE srv[x]]
    /\ Dismiss(Attached, <<"stolen">>)
    /\ UNCHANGED <<paneVars, socketVars, wants>>

\* No session can be created: a failure that is fatal is told.
AttachFails(w) ==
    /\ srv[w] = "asked" /\ ~wants[w] /\ ~running
    /\ srv' = [srv EXCEPT ![w] = "none"]
    /\ \E msgs \in {<<>>, <<"fatal">>} : Dismiss({w}, msgs)
    /\ UNCHANGED <<paneVars, socketVars, wants, running>>

\* The shell exits, or the session is closed by a timer or a request.
SessionEnds ==
    /\ running
    /\ EndSession
    /\ UNCHANGED <<paneVars, socketVars, wants>>

\* mutant: those it is taken from stay listeners.
OtherTakes_Keeps ==
    /\ running /\ Attached # {}
    /\ Dismiss(Attached, <<"stolen">>)
    /\ UNCHANGED <<paneVars, socketVars, serverVars>>

\* Another browser attaches to the session.
OtherTakes ==
    /\ running /\ Attached # {}
    /\ Dismiss(Attached, <<"stolen">>)
    /\ srv' = [w \in Sockets |-> IF w \in Attached THEN "none" ELSE srv[w]]
    /\ UNCHANGED <<paneVars, socketVars, wants, running>>

\* The handler's read fails: the browser closed, or pings are not answered.
ServerNotices(w) ==
    /\ srv[w] = "attached" /\ ws[w] \notin {"connecting", "open"}
    /\ srv' = [srv EXCEPT ![w] = "none"]
    /\ UNCHANGED <<paneVars, socketVars, inbox, wants, running>>

-----------------------------------------------------------------------------

Pane == Resume \/ SetupFails \/ InitialTimer \/ ReconnectTimer

User == Reconnect \/ Enter \/ Unmount

SocketEvent(w) == Opened(w) \/ Message(w) \/ Closed(w)

Handler(w) == ObeyReconnect(w) \/ Attach(w) \/ AttachFails(w) \/ ServerNotices(w)

Next ==
    \/ Pane
    \/ User
    \/ \E w \in Sockets : SocketEvent(w) \/ Handler(w) \/ NetworkDrops(w)
    \/ SessionEnds
    \/ OtherTakes

Spec == Init /\ [][Next]_vars

\* Timers run out, promises settle, events are delivered, handlers go on.
\* Nothing is promised of the user, the network and the shell.
FairSpec ==
    /\ Spec
    /\ WF_vars(Pane)
    /\ \A w \in Sockets : WF_vars(SocketEvent(w)) /\ WF_vars(Handler(w))

-----------------------------------------------------------------------------
(* Properties *)

CountsOK == overlaps \in 0 .. MaxOverlaps /\ waits \in 0 .. overlaps + 1 /\ strays \in Nat

\* The variables have their types.  A handler says at most one thing about the
\* end of its session, so at most one state message is on its way to a socket.
TypeOK ==
    /\ CountsOK
    /\ {mounted, initial, disposed, exited, forced, timer, failed, running} \subseteq BOOLEAN
    /\ dead \in {"no", "stolen", "ended"}
    /\ cur \in Sockets \cup {NoSocket}
    /\ ws \in [Sockets -> {"closed", "connecting", "open", "cut", "closing"}]
    /\ hooked \subseteq Sockets
    /\ inbox \in [Sockets -> {<<>>} \cup {<<m>> : m \in Messages}]
    /\ srv \in [Sockets -> {"none", "asked", "attached"}]
    /\ wants \in [Sockets -> BOOLEAN]

\* Whatever timers, scripts, the user and the server do in whatever order,
\* beside the socket that wsRef knows at most one is live for every connectWS
\* that was called while another awaited its scripts: when none was, no socket
\* is left to steal the session from the one the user sees.
OneSocket == Cardinality(Live \ {cur}) <= overlaps

\* A pane that is shown as over (stolen, ended or refused), and one that is
\* gone, has closed its socket: live are at most those that overlapping calls
\* left, of which one may have stolen the session from another.
OverHoldsNothing == dead # "no" \/ ~mounted => Cardinality(Live) <= overlaps

\* A pane that is not over always has something that makes it go on: the first
\* timer, a reconnect timer, a call of connectWS, or a live or closing socket
\* whose onclose will be handled; only a script that fails stops it.  This
\* holds of calls that overlap, too.
NeverStuck ==
    mounted /\ dead = "no" =>
        \/ initial \/ timer \/ strays > 0 \/ waits > 0 \/ failed
        \/ cur \in hooked /\ ws[cur] # "closed"

\* When the pane is gone, all its handlers on the server return, so that the
\* session gets its disconnect timer: those of sockets still connecting too.
\* A call that overlapped another may leave a socket that nobody closes, whose
\* handler stays.
UnmountedLeaves ==
    ~mounted ~> Cardinality({w \in Sockets : srv[w] # "none"}) <= overlaps
=============================================================================
