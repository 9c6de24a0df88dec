------------------------------ MODULE Transfers ------------------------------
(***************************************************************************)
(* What the queue of uploads promises, whatever the panel, the ref and the *)
(* renders of React do: an item runs once, after those queued before it    *)
(* that were not withdrawn, and while no other runs.                       *)
(***************************************************************************)
EXTENDS Naturals

CONSTANT MaxItems

Items == 1 .. MaxItems

VARIABLE phase

Phases == {"none", "waiting", "running", "ended"}

Queue(new) ==
    /\ \A i \in new : phase[i] = "none"
    /\ phase' = [i \in Items |-> IF i \in new THEN "waiting" ELSE phase[i]]

Start(i) ==
    /\ phase[i] = "waiting" /\ \A j \in Items : phase[j] # "running"
    /\ \A j \in Items : phase[j] = "waiting" => i <= j
    /\ phase' = [phase EXCEPT ![i] = "running"]

End(i) == phase[i] = "running" /\ phase' = [phase EXCEPT ![i] = "ended"]

Withdraw(i) == phase[i] = "waiting" /\ phase' = [phase EXCEPT ![i] = "ended"]

Init == phase = [i \in Items |-> "none"]

Next ==
    \/ \E new \in SUBSET Items : Queue(new)
    \/ \E i \in Items : Start(i)
    \/ \E i \in Items : End(i)
    \/ \E i \in Items : Withdraw(i)

Spec == Init /\ [][Next]_phase
=============================================================================
