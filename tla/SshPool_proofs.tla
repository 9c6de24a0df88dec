---------------------------- MODULE SshPool_proofs ----------------------------
(***************************************************************************)
(* The safety properties of SshPool, for any finite number of sessions and *)
(* any clients, rules and callers: connections are counted by those that   *)
(* hold them, and local listeners are listed.                              *)
(***************************************************************************)
EXTENDS SshPool, FiniteSetTheorems, TLAPS

\* Where a session is when something refers to it.
Placed ==
    /\ \A s \in Sessions :
         /\ step[s] # "new" => client[s] \in Clients /\ conn[client[s]] # "unused"
         /\ step[s] \in {"new", "clone", "cloned"} => channel[s] = "none"
         /\ run[s] = "retrying" => step[s] \in {"add", "served"}
    /\ \A s \in registered : step[s] = "served"
    /\ \A k \in Callers :
         /\ cstep[k] # "idle" => step[csess[k]] = "served"
         /\ cstep[k] # "untunnel" => centries[k] = {}

\* The bound from above holds of connections that are gone, too: a clone of one counts.
Counted ==
    \A c \in Clients : /\ refs[c] <= Cardinality(Holders(c))
                       /\ conn[c] = "up" => refs[c] >= 1

IInv == Typed /\ Placed /\ Counted /\ ListenersListed

LEMMA HoldersFinite ==
    \A c : /\ Holders(c) \subseteq Sessions /\ IsFiniteSet(Holders(c))
           /\ Cardinality(Holders(c)) \in Nat
           /\ Cardinality(Holders(c)) <= Cardinality(Sessions)
<1> TAKE c
<1>1. Holders(c) \subseteq Sessions
  BY DEF Holders
<1> QED BY <1>1, PoolAssumption, FS_Subset, FS_CardinalityType

LEMMA InitInv == Init => IInv
<1> SUFFICES ASSUME Init PROVE IInv
  OBVIOUS
<1> USE DEF Init
<1>1. Typed
  BY PoolAssumption DEF Typed, SomeSession
<1>2. Placed
  BY DEF Placed
<1>3. Counted
  BY HoldersFinite DEF Counted
<1>4. ListenersListed
  BY DEF ListenersListed
<1> QED BY <1>1, <1>2, <1>3, <1>4 DEF IInv

-----------------------------------------------------------------------------
(* References.                                                             *)

\* Nothing is counted, given back or dialled, and the holders stay.
LEMMA KeptCounted ==
    ASSUME Counted, UNCHANGED refs,
           \A c \in Clients : Holders(c)' = Holders(c),
           \A c \in Clients : conn'[c] = "up" => conn[c] = "up"
    PROVE  Counted'
BY DEF Counted

\* A session, which may have given it back before, gives back its reference.
LEMMA ReleaseCounted ==
    ASSUME Typed, Counted, NEW s \in Sessions, client[s] \in Clients,
           Release(client[s]), UNCHANGED client,
           \A c \in Clients : Holders(c) \ {s} \subseteq Holders(c)'
    PROVE  Counted'
<1> DEFINE old == client[s]
<1> SUFFICES ASSUME NEW c \in Clients
             PROVE  /\ refs'[c] <= Cardinality(Holders(c)')
                    /\ conn'[c] = "up" => refs'[c] >= 1
  BY DEF Counted
<1>0. /\ refs[c] \in Int /\ refs[c] <= Cardinality(Holders(c))
      /\ conn[c] = "up" => refs[c] >= 1
  BY DEF Typed, Counted
<1>1. /\ Cardinality(Holders(c)) \in Nat /\ Cardinality(Holders(c)') \in Nat
      /\ IsFiniteSet(Holders(c)) /\ IsFiniteSet(Holders(c)')
  <2>1. Holders(c)' \subseteq Sessions
    BY DEF Holders
  <2> QED BY <2>1, HoldersFinite, PoolAssumption, FS_Subset, FS_CardinalityType
<1>2. CASE c = old
  <2>0. Cardinality(Holders(c) \ {s}) =
           IF s \in Holders(c) THEN Cardinality(Holders(c)) - 1 ELSE Cardinality(Holders(c))
    BY <1>1, FS_RemoveElement, Zenon
  <2>1. Cardinality(Holders(c) \ {s}) >= Cardinality(Holders(c)) - 1
    BY <1>1, <2>0
  <2>2. /\ Cardinality(Holders(c) \ {s}) <= Cardinality(Holders(c)')
        /\ Cardinality(Holders(c) \ {s}) \in Nat
    BY <1>1, FS_Subset, FS_RemoveElement, FS_CardinalityType
  <2>3. refs'[c] = refs[c] - 1 /\ (refs[c] <= 1 => conn'[c] = "closed")
    BY <1>2 DEF Release, Typed
  <2>4. refs[c] > 1 => conn'[c] = conn[c]
    BY <1>0, <1>2 DEF Release, Typed
  <2> QED BY <1>0, <1>1, <2>1, <2>2, <2>3, <2>4
<1>3. CASE c # old
  <2>1. Holders(c) \subseteq Holders(c)'
    BY <1>3 DEF Holders
  <2>2. refs'[c] = refs[c] /\ conn'[c] = conn[c]
    BY <1>3 DEF Release, Typed
  <2> QED BY <1>0, <1>1, <2>1, <2>2, FS_Subset
<1> QED BY <1>2, <1>3

-----------------------------------------------------------------------------
(* Local listeners.                                                        *)

LEMMA KeptListed ==
    ASSUME ListenersListed, UNCHANGED <<tunnels, centries>>,
           \A r \in Rules \ Remote : bound'[r] = bound[r]
    PROVE  ListenersListed'
BY DEF ListenersListed

LEMMA ReleaseListed ==
    ASSUME ListenersListed, UNCHANGED <<tunnels, centries>>, NEW c, Release(c)
    PROVE  ListenersListed'
<1>1. \A r \in Rules \ Remote : bound'[r] = bound[r]
  BY DEF Release, PortsWithout
<1> QED BY <1>1, KeptListed

-----------------------------------------------------------------------------
(* A session is opened.                                                    *)

LEMMA NetworkFailsInv == ASSUME IInv, NEW c \in Clients, NetworkFails(c) PROVE IInv'
<1> USE DEF IInv, NetworkFails, sessionVars, callerVars
<1>1. Typed'
  BY DEF Typed, PortsWithout
<1>2. Placed'
  BY DEF Typed, Placed
<1>3. Counted'
  <2>1. \A d \in Clients : Holders(d)' = Holders(d) /\ (conn'[d] = "up" => conn[d] = "up")
    BY DEF Holders, Typed
  <2> QED BY <2>1, KeptCounted
<1>4. ListenersListed'
  <2>1. \A r \in Rules \ Remote : bound'[r] = bound[r]
    BY DEF PortsWithout
  <2> QED BY <2>1, KeptListed
<1> QED BY <1>1, <1>2, <1>3, <1>4

LEMMA DialInv == ASSUME IInv, NEW s \in Sessions, Dial(s) PROVE IInv'
<1> USE DEF IInv, Dial, Dialled, To, tunnelVars, callerVars
<1>1. PICK c \in Clients : /\ conn[c] = "unused" /\ conn' = [conn EXCEPT ![c] = "up"]
                           /\ refs' = [refs EXCEPT ![c] = 1]
                           /\ client' = [client EXCEPT ![s] = c]
  OBVIOUS
<1>2. Typed'
  BY <1>1 DEF Typed
<1>3. Placed'
  BY <1>1 DEF Typed, Placed
<1>4. Counted'
  <2>1. s \in Holders(c)'
    BY <1>1 DEF Holders, Typed
  <2>2. \A d \in Clients \ {c} : Holders(d)' = Holders(d)
    BY <1>1 DEF Holders, Typed
  <2>3. /\ Holders(c)' \subseteq Sessions /\ Holders(c)' # {}
        /\ IsFiniteSet(Holders(c)')
    BY <2>1, PoolAssumption, FS_Subset DEF Holders
  <2>4. Cardinality(Holders(c)') \in Nat /\ Cardinality(Holders(c)') # 0
    BY <2>3, FS_EmptySet, FS_CardinalityType
  <2>5. refs'[c] = 1 /\ \A d \in Clients \ {c} : refs'[d] = refs[d] /\ conn'[d] = conn[d]
    BY <1>1 DEF Typed
  <2> QED BY <2>2, <2>4, <2>5 DEF Counted
<1>5. ListenersListed'
  BY KeptListed
<1> QED BY <1>2, <1>3, <1>4, <1>5

LEMMA CloneGetInv ==
    ASSUME IInv, NEW s \in Sessions, NEW p \in Sessions, CloneGet(s, p) PROVE IInv'
<1> USE DEF IInv, CloneGet, To, clientVars, tunnelVars, callerVars
<1>1. Typed'
  BY DEF Typed
<1>2. Placed'
  BY DEF Typed, Placed
<1>3. Counted'
  <2>1. \A d \in Clients : Holders(d)' = Holders(d)
    BY DEF Holders, Typed
  <2> QED BY <2>1, KeptCounted
<1>4. ListenersListed'
  BY KeptListed
<1> QED BY <1>1, <1>2, <1>3, <1>4

LEMMA CloneRefInv == ASSUME IInv, NEW s \in Sessions, CloneRef(s) PROVE IInv'
<1> USE DEF IInv, CloneRef, To, tunnelVars, callerVars
<1> DEFINE c == client[s]
<1>1. c \in Clients /\ channel[s] = "none"
  BY DEF Placed
<1>2. Typed'
  BY <1>1 DEF Typed
<1>3. Placed'
  BY DEF Typed, Placed
<1>4. Counted'
  <2>1. s \notin Holders(c) /\ Holders(c)' = Holders(c) \cup {s}
    BY <1>1 DEF Holders, Typed
  <2>2. \A d \in Clients \ {c} : Holders(d)' = Holders(d)
    BY <1>1 DEF Holders, Typed
  <2>3. Cardinality(Holders(c) \cup {s}) = Cardinality(Holders(c)) + 1
    BY <2>1, HoldersFinite, FS_AddElement, Zenon
  <2>4. /\ refs'[c] = refs[c] + 1 /\ refs[c] \in Int
        /\ \A d \in Clients \ {c} : refs'[d] = refs[d]
    BY <1>1 DEF Typed
  <2> QED BY <1>1, <2>1, <2>2, <2>3, <2>4, HoldersFinite DEF Counted
<1>5. ListenersListed'
  BY KeptListed
<1> QED BY <1>2, <1>3, <1>4, <1>5

\* A clone, or the shell of a session, fails: the reference is given back.
LEMMA OpenFailsInv ==
    ASSUME IInv, NEW s \in Sessions, CloneFails(s) \/ ShellFails(s) PROVE IInv'
<1> USE DEF IInv, CloneFails, ShellFails, To, callerVars
<1>1. client[s] \in Clients /\ Release(client[s]) /\ step[s] \in {"cloned", "shell"}
  BY DEF Placed
<1>2. Typed'
  BY <1>1 DEF Typed, Release, PortsWithout
<1>3. Placed'
  BY <1>1 DEF Typed, Placed, Release
<1>4. Counted'
  <2>1. \A d \in Clients : Holders(d) \ {s} \subseteq Holders(d)'
    BY DEF Holders, Typed
  <2> QED BY <1>1, <2>1, ReleaseCounted
<1>5. ListenersListed'
  BY <1>1, ReleaseListed
<1> QED BY <1>2, <1>3, <1>4, <1>5

\* What else HandleTerminal does, but for the forwardings, counts nothing.
LEMMA OpensInv ==
    ASSUME IInv, NEW s \in Sessions,
           \/ CloneOpens(s) \/ ShellStarts(s) \/ HasTunnels(s) \/ SetupPortForwarding(s)
           \/ WrapClose(s) \/ AddSession(s)
    PROVE  IInv'
<1> USE DEF IInv, CloneOpens, ShellStarts, HasTunnels, SetupPortForwarding, WrapClose, AddSession,
            To, clientVars, tunnelVars, callerVars
<1>1. Typed'
  BY DEF Typed
<1>2. Placed'
  BY DEF Typed, Placed
<1>3. Counted'
  <2>1. /\ step[s] \notin {"new", "clone", "failed"}
        /\ step'[s] \notin {"new", "clone", "failed"}
        /\ channel'[s] = "closed" <=> channel[s] = "closed"
    BY DEF Typed, Placed
  <2>2. \A t \in Sessions \ {s} : step'[t] = step[t] /\ channel'[t] = channel[t]
    BY DEF Typed
  <2>3. \A d \in Clients : Holders(d)' = Holders(d)
    BY <2>1, <2>2 DEF Holders
  <2> QED BY <2>3, KeptCounted
<1>4. ListenersListed'
  BY KeptListed
<1> QED BY <1>1, <1>2, <1>3, <1>4

LEMMA StartForwardInv ==
    ASSUME IInv, NEW s \in Sessions, NEW r \in Rules, StartForward(s, r) PROVE IInv'
<1> USE DEF IInv, StartForward, clientVars, tunnelVars, callerVars
<1>1. client[s] \in Clients
  BY DEF Placed
<1>2. Typed'
  BY <1>1 DEF Typed, Entries
<1>3. Placed'
  BY DEF Typed, Placed
<1>4. Counted'
  <2>1. \A d \in Clients : Holders(d)' = Holders(d)
    BY DEF Holders
  <2> QED BY <2>1, KeptCounted
<1>5. ListenersListed'
  BY DEF ListenersListed, Typed
<1> QED BY <1>2, <1>3, <1>4, <1>5

-----------------------------------------------------------------------------
(* A session runs.                                                         *)

LEMMA RunsInv ==
    ASSUME IInv, NEW s \in Sessions,
           ShellExits(s) \/ RunEnds(s) \/ RunRetries(s) \/ RetryGivesUp(s)
    PROVE  IInv'
<1> USE DEF IInv, ShellExits, RunEnds, RunRetries, RetryGivesUp, clientVars, tunnelVars, callerVars
<1>1. Typed'
  BY DEF Typed
<1>2. Placed'
  BY DEF Typed, Placed
<1>3. Counted'
  <2>1. \A t \in Sessions : channel'[t] = "closed" <=> channel[t] = "closed"
    BY DEF Typed
  <2>2. \A d \in Clients : Holders(d)' = Holders(d)
    BY <2>1 DEF Holders
  <2> QED BY <2>2, KeptCounted
<1>4. ListenersListed'
  BY KeptListed
<1> QED BY <1>1, <1>2, <1>3, <1>4

LEMMA RetrySucceedsInv == ASSUME IInv, NEW s \in Sessions, RetrySucceeds(s) PROVE IInv'
<1> USE DEF IInv, RetrySucceeds, callerVars
<1>0. PICK old \in Clients : old = client[s] /\ conn[old] # "unused"
  BY DEF Placed
<1>1. PICK c \in Clients :
         /\ conn[c] = "unused"
         /\ conn' = [conn EXCEPT ![c] = "up", ![old] = IF refs[old] <= 1 THEN "closed" ELSE @]
         /\ bound' = IF refs[old] <= 1 THEN PortsWithout(old) ELSE bound
         /\ refs' = [refs EXCEPT ![c] = 1, ![old] = @ - 1]
         /\ client' = [client EXCEPT ![s] = c]
  BY <1>0
<1>2. old = client[s] /\ old # c /\ step[s] \in {"add", "served"}
  BY <1>0, <1>1 DEF Placed
<1>3. Typed'
  <2>1. refs' \in [Clients -> Int] /\ bound' \in [Rules -> Clients \cup {NoClient}]
    BY <1>1, <1>2 DEF Typed, PortsWithout
  <2>2. conn' \in [Clients -> {"unused", "up", "lost", "closed"}]
    BY <1>1, <1>2 DEF Typed
  <2> QED BY <1>1, <2>1, <2>2 DEF Typed
<1>4. Placed'
  <2>1. \A d \in Clients : conn'[d] = "unused" => conn[d] = "unused"
    BY <1>1, <1>2 DEF Typed
  <2>2. conn'[c] = "up"
    BY <1>1, <1>2 DEF Typed
  <2>3. /\ client'[s] = c /\ channel'[s] = "open" /\ run'[s] = "reading"
        /\ \A t \in Sessions \ {s} : /\ client'[t] = client[t] /\ channel'[t] = channel[t]
                                     /\ run'[t] = run[t]
    BY <1>1 DEF Typed
  <2> QED BY <1>2, <2>1, <2>2, <2>3 DEF Placed, Typed
<1>5. Counted'
  <2>0. /\ client'[s] = c /\ channel'[s] = "open"
        /\ \A t \in Sessions \ {s} : client'[t] = client[t] /\ channel'[t] = channel[t]
    BY <1>1 DEF Typed
  <2>1. /\ refs'[c] = 1 /\ refs'[old] = refs[old] - 1
        /\ refs[old] \in Int
        /\ conn'[old] = IF refs[old] <= 1 THEN "closed" ELSE conn[old]
        /\ \A d \in Clients \ {c, old} : refs'[d] = refs[d] /\ conn'[d] = conn[d]
    BY <1>1, <1>2 DEF Typed
  <2>2. /\ s \in Holders(c)'
        /\ Holders(old)' = Holders(old) \ {s}
    <3>1. s \in Holders(c)'
      BY <1>2, <2>0 DEF Holders
    <3>2. Holders(old)' = Holders(old) \ {s}
      BY <1>2, <2>0 DEF Holders
    <3> QED BY <3>1, <3>2
  <2>3. Cardinality(Holders(c)') \in Nat /\ Cardinality(Holders(c)') # 0
    <3>1. Holders(c)' \subseteq Sessions
      BY DEF Holders
    <3> QED BY <2>2, <3>1, PoolAssumption, FS_Subset, FS_EmptySet, FS_CardinalityType
  <2>4. Cardinality(Holders(old) \ {s}) =
           IF s \in Holders(old) THEN Cardinality(Holders(old)) - 1 ELSE Cardinality(Holders(old))
    BY HoldersFinite, FS_RemoveElement, Zenon
  <2>5. Cardinality(Holders(old)) \in Nat
    BY HoldersFinite
  <2>6. refs'[old] <= Cardinality(Holders(old)') /\ (conn'[old] = "up" => refs'[old] >= 1)
    <3>1. /\ refs[old] <= Cardinality(Holders(old))
          /\ conn[old] = "up" => refs[old] >= 1
      BY <1>2 DEF Counted
    <3>2. Cardinality(Holders(old)') = Cardinality(Holders(old) \ {s})
      BY <2>2
    <3>3. refs[old] - 1 <= Cardinality(Holders(old) \ {s})
      BY <2>1, <2>4, <2>5, <3>1
    <3>4. conn'[old] = "up" => refs[old] > 1
      BY <2>1
    <3>5. refs'[old] <= Cardinality(Holders(old)')
      BY <2>1, <3>2, <3>3
    <3>6. conn'[old] = "up" => refs'[old] >= 1
      BY <2>1, <3>4
    <3> QED BY <3>5, <3>6
  <2>7. refs'[c] <= Cardinality(Holders(c)') /\ refs'[c] >= 1
    BY <2>1, <2>3
  <2>8. ASSUME NEW d \in Clients
        PROVE  refs'[d] <= Cardinality(Holders(d)') /\ (conn'[d] = "up" => refs'[d] >= 1)
    <3>1. CASE d = c
      BY <2>7, <3>1
    <3>2. CASE d = old
      BY <2>6, <3>2
    <3>3. CASE d \notin {c, old}
      <4>1. Holders(d)' = Holders(d)
        BY <1>2, <2>0, <3>3 DEF Holders
      <4>2. refs'[d] = refs[d] /\ conn'[d] = conn[d]
        BY <2>1, <3>3
      <4> QED BY <4>1, <4>2 DEF Counted
    <3> QED BY <3>1, <3>2, <3>3
  <2> QED BY <2>8 DEF Counted
<1>6. ListenersListed'
  <2>1. \A r \in Rules \ Remote : bound'[r] = bound[r]
    BY <1>1 DEF PortsWithout
  <2> QED BY <2>1, KeptListed
<1> QED BY <1>3, <1>4, <1>5, <1>6

-----------------------------------------------------------------------------
(* A session is closed.                                                    *)

LEMMA FindInv ==
    ASSUME IInv, NEW k \in Callers, NEW s \in Sessions, Find(k, s) PROVE IInv'
<1> USE DEF IInv, Find, Then, clientVars, sessionVars, tunnelVars
<1>1. Typed'
  BY DEF Typed
<1>2. Placed'
  BY DEF Typed, Placed
<1>3. Counted'
  BY KeptCounted DEF Holders
<1>4. ListenersListed'
  BY KeptListed
<1> QED BY <1>1, <1>2, <1>3, <1>4

LEMMA CloseBeginsInv == ASSUME IInv, NEW k \in Callers, CloseBegins(k) PROVE IInv'
<1> USE DEF IInv, CloseBegins, Then, clientVars, sessionVars
<1>1. Typed'
  BY DEF Typed
<1>2. Placed'
  BY DEF Typed, Placed
<1>3. Counted'
  BY KeptCounted DEF Holders
<1>4. ListenersListed'
  <2>1. centries[k] = {}
    BY DEF Placed
  <2>2. CASE closeFunc[csess[k]] = "tunnels"
    <3>1. centries'[k] = tunnels /\ \A j \in Callers \ {k} : centries'[j] = centries[j]
      BY <2>2 DEF Typed
    <3> QED BY <2>1, <3>1 DEF ListenersListed
  <2>3. CASE closeFunc[csess[k]] # "tunnels"
    BY <2>3 DEF ListenersListed
  <2> QED BY <2>2, <2>3
<1> QED BY <1>1, <1>2, <1>3, <1>4

LEMMA RemoveTunnelsInv == ASSUME IInv, NEW k \in Callers, RemoveTunnels(k) PROVE IInv'
<1> USE DEF IInv, RemoveTunnels, Then, clientVars, sessionVars
<1>1. Typed'
  BY DEF Typed
<1>2. Placed'
  BY DEF Typed, Placed
<1>3. Counted'
  BY KeptCounted DEF Holders
<1>4. ListenersListed'
  <2>1. \A j \in Callers \ {k} : centries'[j] = centries[j]
    BY DEF Typed
  <2>2. \A r \in Rules : bound'[r] # NoClient =>
           bound'[r] = bound[r] /\ [rule |-> r, client |-> bound[r]] \notin centries[k]
    OBVIOUS
  <2> QED BY <2>1, <2>2 DEF ListenersListed
<1> QED BY <1>1, <1>2, <1>3, <1>4

LEMMA CloseReleasesInv == ASSUME IInv, NEW k \in Callers, CloseReleases(k) PROVE IInv'
<1> USE DEF IInv, CloseReleases, Then
<1> DEFINE s == csess[k]
<1>1. s \in Sessions /\ step[s] = "served" /\ client[s] \in Clients /\ Release(client[s])
  BY DEF Typed, Placed
<1>2. Typed'
  BY <1>1 DEF Typed, Release, PortsWithout
<1>3. Placed'
  BY <1>1 DEF Typed, Placed, Release
<1>4. Counted'
  <2>1. \A d \in Clients : Holders(d) \ {s} \subseteq Holders(d)'
    BY <1>1 DEF Holders, Typed
  <2> QED BY <1>1, <2>1, ReleaseCounted
<1>5. ListenersListed'
  BY <1>1, ReleaseListed
<1> QED BY <1>2, <1>3, <1>4, <1>5

LEMMA CallerRemovesInv == ASSUME IInv, NEW k \in Callers, CallerRemoves(k) PROVE IInv'
<1> USE DEF IInv, CallerRemoves, Then, clientVars, tunnelVars
<1>1. Typed'
  BY DEF Typed
<1>2. Placed'
  BY DEF Typed, Placed
<1>3. Counted'
  BY KeptCounted DEF Holders
<1>4. ListenersListed'
  BY KeptListed
<1> QED BY <1>1, <1>2, <1>3, <1>4

-----------------------------------------------------------------------------

LEMMA NextInv == IInv /\ [Next]_vars => IInv'
<1> SUFFICES ASSUME IInv, [Next]_vars PROVE IInv'
  OBVIOUS
<1>1. CASE \E c \in Clients : NetworkFails(c)
  BY <1>1, NetworkFailsInv
<1>2. ASSUME NEW s \in Sessions, Dial(s) \/ OpenStep(s) PROVE IInv'
  BY <1>2, DialInv, CloneRefInv, OpenFailsInv, OpensInv, StartForwardInv DEF OpenStep
<1>3. ASSUME NEW s \in Sessions, ShellExits(s) \/ RunStep(s) PROVE IInv'
  BY <1>3, RunsInv, RetrySucceedsInv DEF RunStep
<1>4. CASE \E s, p \in Sessions : CloneGet(s, p)
  BY <1>4, CloneGetInv
<1>5. CASE \E k \in Callers, s \in Sessions : Find(k, s)
  BY <1>5, FindInv
<1>6. ASSUME NEW k \in Callers, CallerStep(k) PROVE IInv'
  BY <1>6, CloseBeginsInv, RemoveTunnelsInv, CloseReleasesInv, CallerRemovesInv DEF CallerStep
<1>7. CASE UNCHANGED vars
  <2> USE <1>7 DEF vars, clientVars, sessionVars, tunnelVars, callerVars, IInv
  <2>1. Typed' /\ Placed'
    BY DEF Typed, Placed
  <2>2. Counted'
    BY KeptCounted DEF Holders
  <2>3. ListenersListed'
    BY KeptListed
  <2> QED BY <2>1, <2>2, <2>3
<1> QED BY <1>1, <1>2, <1>3, <1>4, <1>5, <1>6, <1>7 DEF Next

LEMMA Invariant == Spec => []IInv
BY InitInv, NextInv, PTL DEF Spec

\* Types, and no connection is counted more often than there are sessions.
THEOREM PoolTypes == Spec => []TypeOK
<1>1. IInv => TypeOK
  <2> SUFFICES ASSUME IInv, NEW c \in Clients PROVE refs[c] <= Cardinality(Sessions)
    BY DEF IInv, TypeOK
  <2>1. refs[c] \in Int /\ refs[c] <= Cardinality(Holders(c))
    BY DEF IInv, Typed, Counted
  <2>2. Cardinality(Sessions) \in Nat
    BY PoolAssumption, FS_CardinalityType
  <2> QED BY <2>1, <2>2, HoldersFinite
<1> QED BY <1>1, Invariant, PTL

\* A connection that is up is counted at least once, and never more often than
\* sessions hold it (client.go, Release and CloneSSH); it may be counted less often,
\* as a second close of a session gives back the reference of another one.
THEOREM PoolCounted == Spec => []CountedByHolders
<1>1. IInv => CountedByHolders
  BY HoldersFinite DEF IInv, Typed, Counted, CountedByHolders
<1> QED BY <1>1, Invariant, PTL

\* A local port that is listened on is in the registry or about to be closed
\* (portforward.go).
THEOREM PoolListed == Spec => []ListenersListed
BY Invariant, PTL DEF IInv
=============================================================================
