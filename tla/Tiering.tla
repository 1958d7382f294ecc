------------------------------- MODULE Tiering -------------------------------
(***************************************************************************)
(* What storage tiering promises, without brokers, maps, acks and retries: *)
(* a message that leaves the local store of its station is taken over,     *)
(* stays in a queue, and leaves the queue only after it was written to the *)
(* second tier or its tenant gave the second tier up.                      *)
(***************************************************************************)
CONSTANT Messages

VARIABLES
    taken,   \* messages taken over from the local store
    queued,  \* messages that have yet to be moved
    stored,  \* messages written to the second tier
    waived   \* messages whose tenant had no second tier when their turn came

vars == <<taken, queued, stored, waived>>

Init == taken = {} /\ queued = {} /\ stored = {} /\ waived = {}

\* A message may be taken over again: another replica sends it later.
Take(m) ==
    /\ taken' = taken \cup {m}
    /\ queued' = queued \cup {m}
    /\ UNCHANGED <<stored, waived>>

\* A message may be written again, also after it has left the queue.
Store(S) ==
    /\ stored' = stored \cup S
    /\ UNCHANGED <<taken, queued, waived>>

Waive(S) ==
    /\ waived' = waived \cup S
    /\ UNCHANGED <<taken, queued, stored>>

Release(m) ==
    /\ m \in queued
    /\ m \in stored \cup waived
    /\ queued' = queued \ {m}
    /\ UNCHANGED <<taken, stored, waived>>

Next ==
    \/ \E m \in Messages : Take(m) \/ Release(m)
    \/ \E S \in SUBSET taken : Store(S) \/ Waive(S)

Spec == Init /\ [][Next]_vars
=============================================================================
