---------------------------- MODULE EvictionLoop ----------------------------
(***************************************************************************)
(* enforce_loaded_limit as the loop it is, a reference for the closed form *)
(* (Evicted, Enforced) that PageManagerOps and every front-end module use. *)
(* Only for TLC: the loop is a RECURSIVE operator, and the modules with    *)
(* proofs stay clear of it.                                                *)
(***************************************************************************)
EXTENDS PageManager

(* min_by_key(|p| p.last_accessed) over the loaded pages not in front.     *)
Oldest(c) ==
  CHOOSE p \in Candidates(c) : \A q \in Candidates(c) : c.accessed[p] <= c.accessed[q]

RECURSIVE EnforceLoop(_, _)
EnforceLoop(c, evicted) ==
  IF \/ c.limit = Unlimited
     \/ Cardinality(c.loaded) <= c.limit
     \/ Candidates(c) = {}
  THEN [left |-> c.loaded, evicted |-> evicted]
  ELSE EnforceLoop([c EXCEPT !.loaded = @ \ {Oldest(c)}], Append(evicted, Oldest(c)))

(* Whatever limit the next enforcement works with, the loop stops with the *)
(* pages the closed form leaves loaded and hands back the ones it names,   *)
(* each once and the one unused for longest first (enforce_loaded_limit).  *)
EvictionMatchesLoop ==
  \A limit \in Limits :
    LET c == Relimited(core, limit)
        run == EnforceLoop(c, <<>>)
    IN /\ run.left = Enforced(c).loaded
       /\ Elements(run.evicted) = Evicted(c)
       /\ \A i, j \in 1..Len(run.evicted) :
            i < j => c.accessed[run.evicted[i]] < c.accessed[run.evicted[j]]
=============================================================================
