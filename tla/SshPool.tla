------------------------------ MODULE SshPool ------------------------------
(***************************************************************************)
(* The SSH connections behind terminal sessions and what shares them: the  *)
(* reference counts of sshmanager/client.go (PooledClient, DialSSH,        *)
(* CloneSSH), the port forwardings of sshmanager/portforward.go, and the   *)
(* closures ws/ws.go gives a session to close it (CloseFunc) and to dial   *)
(* again (RetryFunc).  All sessions are of one host: the registry keeps    *)
(* hosts apart.  The registry of sessions is reduced to the set of those   *)
(* that requests and timers can find; SessionLifecycle has the rest.       *)
(***************************************************************************)
EXTENDS Integers, FiniteSets

CONSTANTS
    Sessions,   \* terminal sessions of the host, each opened once
    Clients,    \* PooledClient objects that may be made
    NoClient,
    Rules,      \* forwardings configured for the host, one port each
    Remote,     \* those whose listener is on the server (RemoteForward)
    Callers     \* requests, timers and reconnects that close a session

ASSUME PoolAssumption ==
    /\ IsFiniteSet(Sessions) /\ Sessions # {}
    /\ NoClient \notin Clients
    /\ Remote \subseteq Rules

VARIABLES
    refs,       \* PooledClient.Refs
    conn,       \* its transport: "unused", "up", "lost" (network), "closed"
    step,       \* where HandleTerminal is with the session
    client,     \* pClient, which is also s.SSHClient
    channel,    \* sshSession: "none", "open", "ended" (by the server), "closed"
    run,        \* Session.run: "none", "reading", "retrying", "over"
    closeFunc,  \* s.CloseFunc: "none", "plain", "tunnels" (cleans up first)
    todo,       \* forwardings still to start
    registered, \* sessions GlobalManager.Get finds
    tunnels,    \* tunnelRegistry: the active tunnel entries of the host
    bound,      \* the client whose listener holds the port of a rule
    cstep,      \* a caller's next step
    csess,      \* the session it closes
    centries    \* entries it has taken from the registry

clientVars == <<refs, conn>>
sessionVars == <<step, client, channel, run, closeFunc, todo, registered>>
tunnelVars == <<tunnels, bound>>
callerVars == <<cstep, csess, centries>>
vars == <<clientVars, sessionVars, tunnelVars, callerVars>>

Entries == [rule : Rules, client : Clients]

SomeSession == CHOOSE s \in Sessions : TRUE

Typed ==
    /\ refs \in [Clients -> Int]
    /\ conn \in [Clients -> {"unused", "up", "lost", "closed"}]
    /\ step \in [Sessions -> {"new", "clone", "cloned", "shell", "forwards",
                              "tunnels", "add", "served", "failed"}]
    /\ client \in [Sessions -> Clients \cup {NoClient}]
    /\ channel \in [Sessions -> {"none", "open", "ended", "closed"}]
    /\ run \in [Sessions -> {"none", "reading", "retrying", "over"}]
    /\ closeFunc \in [Sessions -> {"none", "plain", "tunnels"}]
    /\ todo \in [Sessions -> SUBSET Rules]
    /\ registered \subseteq Sessions
    /\ tunnels \subseteq Entries
    /\ bound \in [Rules -> Clients \cup {NoClient}]
    /\ cstep \in [Callers -> {"idle", "close", "untunnel", "release", "remove"}]
    /\ csess \in [Callers -> Sessions]
    /\ centries \in [Callers -> SUBSET Entries]

\* A count never exceeds the sessions there are.
TypeOK == Typed /\ \A c \in Clients : refs[c] <= Cardinality(Sessions)

Init ==
    /\ refs = [c \in Clients |-> 0]
    /\ conn = [c \in Clients |-> "unused"]
    /\ step = [s \in Sessions |-> "new"]
    /\ client = [s \in Sessions |-> NoClient]
    /\ channel = [s \in Sessions |-> "none"]
    /\ run = [s \in Sessions |-> "none"]
    /\ closeFunc = [s \in Sessions |-> "none"]
    /\ todo = [s \in Sessions |-> {}]
    /\ registered = {}
    /\ tunnels = {}
    /\ bound = [r \in Rules |-> NoClient]
    /\ cstep = [k \in Callers |-> "idle"]
    /\ csess = [k \in Callers |-> SomeSession]
    /\ centries = [k \in Callers |-> {}]

-----------------------------------------------------------------------------
(* PooledClient *)

\* The ports that are free once the transport of c is gone: the server's.
PortsWithout(c) ==
    [r \in Rules |-> IF r \in Remote /\ bound[r] = c THEN NoClient ELSE bound[r]]

\* Release: the last reference closes the client; a surplus one does so again.
Release(c) ==
    /\ refs' = [refs EXCEPT ![c] = @ - 1]
    /\ IF refs[c] <= 1 THEN conn' = [conn EXCEPT ![c] = "closed"] /\ bound' = PortsWithout(c)
                       ELSE UNCHANGED <<conn, bound>>

\* A DialSSH that succeeds: a new independent connection with one reference.
Dialled(c) == conn[c] = "unused" /\ conn' = [conn EXCEPT ![c] = "up"]

\* The network fails, or the keepalive finds it dead.
NetworkFails(c) ==
    /\ conn[c] = "up"
    /\ conn' = [conn EXCEPT ![c] = "lost"]
    /\ bound' = PortsWithout(c)
    /\ UNCHANGED <<refs, sessionVars, tunnels, callerVars>>

-----------------------------------------------------------------------------
(* HandleTerminal opens a session *)

To(s, st) == step' = [step EXCEPT ![s] = st]

\* DialSSH with its first channel.
Dial(s) ==
    /\ step[s] = "new"
    /\ \E c \in Clients :
         /\ Dialled(c)
         /\ refs' = [refs EXCEPT ![c] = 1]
         /\ client' = [client EXCEPT ![s] = c]
    /\ channel' = [channel EXCEPT ![s] = "open"]
    /\ To(s, "shell")
    /\ UNCHANGED <<run, closeFunc, todo, registered, tunnelVars, callerVars>>

\* cloneFrom names a registered session: its SSHClient is taken ...
CloneGet(s, p) ==
    /\ step[s] = "new" /\ p \in registered
    /\ client' = [client EXCEPT ![s] = client[p]]
    /\ To(s, "clone")
    /\ UNCHANGED <<clientVars, channel, run, closeFunc, todo, registered,
                   tunnelVars, callerVars>>

\* mutant: HandleTerminal counts the clone as well
CloneRef_Twice(s) ==
    /\ step[s] = "clone"
    /\ refs' = [refs EXCEPT ![client[s]] = @ + 2]
    /\ To(s, "cloned")
    /\ UNCHANGED <<conn, client, channel, run, closeFunc, todo, registered,
                   tunnelVars, callerVars>>

\* ... and CloneSSH counts one more user of it ...
CloneRef(s) ==
    /\ step[s] = "clone"
    /\ refs' = [refs EXCEPT ![client[s]] = @ + 1]
    /\ To(s, "cloned")
    /\ UNCHANGED <<conn, client, channel, run, closeFunc, todo, registered,
                   tunnelVars, callerVars>>

\* ... and opens a channel on it.
CloneOpens(s) ==
    /\ step[s] = "cloned" /\ conn[client[s]] = "up"
    /\ channel' = [channel EXCEPT ![s] = "open"]
    /\ To(s, "shell")
    /\ UNCHANGED <<clientVars, client, run, closeFunc, todo, registered,
                   tunnelVars, callerVars>>

\* mutant: the reference of a failed clone is kept
CloneFails_Keeps(s) ==
    /\ step[s] = "cloned"
    /\ To(s, "failed")
    /\ UNCHANGED <<clientVars, client, channel, run, closeFunc, todo, registered,
                   tunnelVars, callerVars>>

\* The connection is gone, or the server refuses another channel or its pty.
CloneFails(s) ==
    /\ step[s] = "cloned"
    /\ Release(client[s])
    /\ To(s, "failed")
    /\ UNCHANGED <<client, channel, run, closeFunc, todo, registered,
                   tunnels, callerVars>>

\* Start or Shell succeeds; NewSession starts the goroutine run().
ShellStarts(s) ==
    /\ step[s] = "shell" /\ conn[client[s]] = "up"
    /\ run' = [run EXCEPT ![s] = "reading"]
    /\ closeFunc' = [closeFunc EXCEPT ![s] = "plain"]
    /\ To(s, IF Rules = {} THEN "add" ELSE "forwards")
    /\ UNCHANGED <<clientVars, client, channel, todo, registered, tunnelVars, callerVars>>

ShellFails(s) ==
    /\ step[s] = "shell"
    /\ Release(client[s])
    /\ To(s, "failed")
    /\ UNCHANGED <<client, channel, run, closeFunc, todo, registered,
                   tunnels, callerVars>>

\* SetupPortForwarding does nothing when the registry has a tunnel of the host.
HasTunnels(s) ==
    /\ step[s] = "forwards" /\ tunnels # {}
    /\ To(s, "add")
    /\ UNCHANGED <<clientVars, client, channel, run, closeFunc, todo, registered,
                   tunnelVars, callerVars>>

SetupPortForwarding(s) ==
    /\ step[s] = "forwards" /\ tunnels = {}
    /\ todo' = [todo EXCEPT ![s] = Rules]
    /\ To(s, "tunnels")
    /\ UNCHANGED <<clientVars, client, channel, run, closeFunc, registered,
                   tunnelVars, callerVars>>

\* A listener can be opened: its port is free, and for a remote one the
\* connection is up.
CanListen(s, r) == bound[r] = NoClient /\ (r \in Remote => conn[client[s]] = "up")

\* startLocalForward, startRemoteForward or startDynamicForward for one rule;
\* an error is ignored.  The rules have a port each: their order is immaterial.
StartForward(s, r) ==
    /\ step[s] = "tunnels" /\ r \in todo[s]
    /\ \/ /\ CanListen(s, r)
          /\ bound' = [bound EXCEPT ![r] = client[s]]
          /\ tunnels' = tunnels \cup {[rule |-> r, client |-> client[s]]}
       \/ ~CanListen(s, r) /\ UNCHANGED tunnelVars
    /\ todo' = [todo EXCEPT ![s] = @ \ {r}]
    /\ UNCHANGED <<clientVars, step, client, channel, run, closeFunc, registered,
                   callerVars>>

\* CloseFunc is wrapped so that it removes the host's tunnels first.
WrapClose(s) ==
    /\ step[s] = "tunnels" /\ todo[s] = {}
    /\ closeFunc' = [closeFunc EXCEPT ![s] = "tunnels"]
    /\ To(s, "add")
    /\ UNCHANGED <<clientVars, client, channel, run, todo, registered,
                   tunnelVars, callerVars>>

AddSession(s) ==
    /\ step[s] = "add"
    /\ registered' = registered \cup {s}
    /\ To(s, "served")
    /\ UNCHANGED <<clientVars, client, channel, run, closeFunc, todo, tunnelVars,
                   callerVars>>

OpenStep(s) ==
    \/ CloneRef(s) \/ CloneOpens(s) \/ CloneFails(s) \/ ShellStarts(s) \/ ShellFails(s)
    \/ HasTunnels(s) \/ SetupPortForwarding(s) \/ (\E r \in Rules : StartForward(s, r))
    \/ WrapClose(s) \/ AddSession(s)

-----------------------------------------------------------------------------
(* Session.run *)

\* The remote shell or command exits.
ShellExits(s) ==
    /\ channel[s] = "open" /\ run[s] = "reading" /\ conn[client[s]] = "up"
    /\ channel' = [channel EXCEPT ![s] = "ended"]
    /\ UNCHANGED <<clientVars, step, client, run, closeFunc, todo, registered,
                   tunnelVars, callerVars>>

\* The channel has no more to read.
Broken(s) == channel[s] # "open" \/ conn[client[s]] # "up"

\* io.EOF, or no RetryFunc yet: the session is over and unregistered; nobody
\* calls its CloseFunc.
RunEnds(s) ==
    /\ run[s] = "reading" /\ Broken(s)
    /\ run' = [run EXCEPT ![s] = "over"]
    /\ registered' = registered \ {s}
    /\ UNCHANGED <<clientVars, step, client, channel, closeFunc, todo,
                   tunnelVars, callerVars>>

\* Another error, which only a broken connection gives.
RunRetries(s) ==
    /\ run[s] = "reading" /\ conn[client[s]] # "up"
    /\ step[s] \in {"add", "served"}
    /\ run' = [run EXCEPT ![s] = "retrying"]
    /\ UNCHANGED <<clientVars, step, client, channel, closeFunc, todo, registered,
                   tunnelVars, callerVars>>

\* RetryFunc dials; the new CloseFunc closes the new connection only, and the
\* reference to the old one is released.
RetrySucceeds(s) ==
    /\ run[s] = "retrying"
    /\ \E c \in Clients :
         LET old == client[s] IN
         /\ conn[c] = "unused"
         /\ conn' = [conn EXCEPT ![c] = "up", ![old] = IF refs[old] <= 1 THEN "closed" ELSE @]
         /\ bound' = IF refs[old] <= 1 THEN PortsWithout(old) ELSE bound
         /\ refs' = [refs EXCEPT ![c] = 1, ![old] = @ - 1]
         /\ client' = [client EXCEPT ![s] = c]
    /\ channel' = [channel EXCEPT ![s] = "open"]
    /\ closeFunc' = [closeFunc EXCEPT ![s] = "plain"]
    /\ run' = [run EXCEPT ![s] = "reading"]
    /\ UNCHANGED <<step, todo, registered, tunnels, callerVars>>

\* The attempts are used up, or authentication fails.
RetryGivesUp(s) ==
    /\ run[s] = "retrying"
    /\ run' = [run EXCEPT ![s] = "over"]
    /\ registered' = registered \ {s}
    /\ UNCHANGED <<clientVars, step, client, channel, closeFunc, todo,
                   tunnelVars, callerVars>>

RunStep(s) == RunEnds(s) \/ RunRetries(s) \/ RetrySucceeds(s) \/ RetryGivesUp(s)

-----------------------------------------------------------------------------
(* Closing a session: CloseIfNotLocked, CloseAllNormal, a disconnect timer, *)
(* or a connection with reconnect=1.                                        *)

Then(k, st) == cstep' = [cstep EXCEPT ![k] = st]

Find(k, s) ==
    /\ cstep[k] = "idle" /\ s \in registered
    /\ csess' = [csess EXCEPT ![k] = s]
    /\ Then(k, "close")
    /\ UNCHANGED <<clientVars, sessionVars, tunnelVars, centries>>

\* CloseFunc begins; cleanupTunnels takes the host's entries out ...
CloseBegins(k) ==
    /\ cstep[k] = "close"
    /\ IF closeFunc[csess[k]] = "tunnels"
       THEN /\ centries' = [centries EXCEPT ![k] = tunnels]
            /\ tunnels' = {}
            /\ Then(k, "untunnel")
       ELSE Then(k, "release") /\ UNCHANGED <<centries, tunnels>>
    /\ UNCHANGED <<clientVars, sessionVars, bound, csess>>

\* mutant: the entries are forgotten, their listeners stay open
RemoveTunnels_Leaks(k) ==
    /\ cstep[k] = "untunnel"
    /\ centries' = [centries EXCEPT ![k] = {}]
    /\ Then(k, "release")
    /\ UNCHANGED <<clientVars, sessionVars, tunnelVars, csess>>

\* ... and closes their listeners after unlocking the registry.
RemoveTunnels(k) ==
    /\ cstep[k] = "untunnel"
    /\ bound' = [r \in Rules |->
                    IF [rule |-> r, client |-> bound[r]] \in centries[k] THEN NoClient ELSE bound[r]]
    /\ centries' = [centries EXCEPT ![k] = {}]
    /\ Then(k, "release")
    /\ UNCHANGED <<clientVars, sessionVars, tunnels, csess>>

\* sshSession.Close() and pClient.Release().
CloseReleases(k) ==
    /\ cstep[k] = "release"
    /\ channel' = [channel EXCEPT ![csess[k]] = "closed"]
    /\ Release(client[csess[k]])
    /\ Then(k, "remove")
    /\ UNCHANGED <<step, client, run, closeFunc, todo, registered,
                   tunnels, csess, centries>>

\* SessionManager.Remove
CallerRemoves(k) ==
    /\ cstep[k] = "remove"
    /\ registered' = registered \ {csess[k]}
    /\ Then(k, "idle")
    /\ UNCHANGED <<clientVars, step, client, channel, run, closeFunc, todo,
                   tunnelVars, csess, centries>>

CallerStep(k) == CloseBegins(k) \/ RemoveTunnels(k) \/ CloseReleases(k) \/ CallerRemoves(k)


-----------------------------------------------------------------------------

Next ==
    \/ \E c \in Clients : NetworkFails(c)
    \/ \E s \in Sessions : Dial(s) \/ OpenStep(s) \/ ShellExits(s) \/ RunStep(s)
    \/ \E s, p \in Sessions : CloneGet(s, p)
    \/ \E k \in Callers, s \in Sessions : Find(k, s)
    \/ \E k \in Callers : CallerStep(k)

Spec == Init /\ [][Next]_vars

\* Goroutines that can run do run; servers, networks and users need not act.
Fairness ==
    /\ \A s \in Sessions : WF_vars(OpenStep(s)) /\ WF_vars(RunStep(s))
    /\ \A k \in Callers : WF_vars(CallerStep(k))

FairSpec == Spec /\ Fairness

-----------------------------------------------------------------------------
(* Properties *)

\* The sessions that hold a reference to c: they have taken it and their
\* CloseFunc has not given it back.
Holders(c) ==
    {s \in Sessions : /\ client[s] = c
                      /\ step[s] \notin {"new", "clone", "failed"}
                      /\ channel[s] # "closed"}

\* A connection is never kept up by a reference nobody holds: while it is up
\* it is counted at least once, and no more often than sessions hold it, in
\* spite of clones that fail half-way, closes that overlap and retries that
\* release the old connection of a session that was closed meanwhile.  It may be
\* counted less often, after a second close of one of them.
CountedByHolders ==
    \A c \in Clients : conn[c] = "up" => refs[c] \in 1..Cardinality(Holders(c))

\* A local port that is listened on belongs to a tunnel in the registry, or to
\* one that a close has taken out and is about to shut: a listener that fell
\* out of both would hold the port until the server ends.
ListenersListed ==
    \A r \in Rules \ Remote :
        bound[r] # NoClient =>
            \/ [rule |-> r, client |-> bound[r]] \in tunnels
            \/ \E k \in Callers : [rule |-> r, client |-> bound[r]] \in centries[k]

(* What comments and documentation say and the code does not keep. *)

\* sshmanager/client.go:1696-1697: "The sessions will eventually get read
\* errors and call Release": a connection whose sessions are all over is closed.
Forsaken(c) ==
    /\ conn[c] = "up"
    /\ \A s \in Sessions : client[s] = c => run[s] = "over" /\ step[s] \in {"served", "failed"}

SessionsRelease == \A c \in Clients : Forsaken(c) ~> conn[c] = "closed"
=============================================================================
