------------------------------ MODULE VecFilter ------------------------------
(***************************************************************************)
(* Iterator::filter over a Vec and Vec::retain: the entries that are in a  *)
(* set, in their order.  What SelectSeq computes by recursion is defined   *)
(* here by the entries' places, so that proofs can open it.                *)
(***************************************************************************)
EXTENDS Naturals, FiniteSets, Sequences

Places(s, S) == {i \in 1..Len(s) : s[i] \in S}

(* How many of the places at there are up to i.                            *)
UpTo(at, i) == Cardinality({j \in at : j <= i})

EntriesAt(s, at) == [n \in 1..Cardinality(at) |-> s[CHOOSE i \in at : UpTo(at, i) = n]]

Filter(s, S) == EntriesAt(s, Places(s, S))
=============================================================================
