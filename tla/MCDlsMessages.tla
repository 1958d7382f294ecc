---------------------------- MODULE MCDlsMessages ----------------------------
(* Instances of DlsMessages for TLC: which reports may be raised. *)
EXTENDS DlsMessages, TLC

CONSTANTS b1, b2, cgA, cgB

Raised(q, p, s, g) == [queue |-> q, part |-> p, seq |-> s, cg |-> g]

\* Two groups fail the same message, one of them by an explicit nack.
TwoGroups == {Raised("unacked", 1, 1, cgA), Raised("nacked", 1, 1, cgB)}

\* As TwoGroups, and group A gives up on a message that had been resent to it.
ResentOne == {Raised("unacked", 1, 2, cgA)}
WithResent == TwoGroups \cup ResentOne

\* Message 1 of both partitions and message 2 of the second fail.
TwoPartitions == {Raised("unacked", 1, 1, cgA), Raised("unacked", 2, 1, cgB),
                  Raised("unacked", 2, 2, cgA)}

Symmetry == Permutations(Brokers)
=============================================================================
