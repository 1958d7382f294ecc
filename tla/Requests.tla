------------------------------ MODULE Requests ------------------------------
(***************************************************************************)
(* Requests under way, as the pages of the console keep them: in the order *)
(* they were sent, and answered in any order.                              *)
(*                                                                         *)
(* SequencesExt has these operators too.  The modules that are proved      *)
(* about take them from here, because a prover carries every definition    *)
(* that an instance brings along through every obligation.                 *)
(***************************************************************************)
EXTENDS Naturals, Sequences, FiniteSets

\* What a list holds.
Range(list) == {list[i] : i \in DOMAIN list}

\* The others, in their order, when the i-th request leaves.
RemoveAt(list, i) == SubSeq(list, 1, i - 1) \o SubSeq(list, i + 1, Len(list))

\* The elements of a set, each at one place.
SetToSeq(S) ==
    CHOOSE s \in [1..Cardinality(S) -> S] : \A i, j \in DOMAIN s : s[i] = s[j] => i = j
=============================================================================
