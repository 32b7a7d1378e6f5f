--------------------------- MODULE MCReactorPages ---------------------------
(* Instances of ReactorPages for TLC.                                      *)
EXTENDS ReactorPages

CONSTANTS home, away

MCUrls == {home, away}
MCLimits == {1, 2}

(* What can still matter: not the last_url of closed pages, whether a      *)
(* control that no page knows is shown, the tick of a dead engine's        *)
(* control that no request waits for, or what is in the file while the     *)
(* process runs: what a kill leaves there Quit leaves there too, in the    *)
(* state in which it was saved, and a launch needs nothing else.           *)
MCView ==
  <<up, core, [p \in Live(core) |-> last[p]], web, due, view,
    [n \in 1..Len(slots) |-> [slots[n] EXCEPT !.shown = @ /\ slots[n].held]],
    {t \in late : t.live \/ t.page \in pending}, asked, pending, restoring, plan,
    IF up /\ ~restoring THEN <<>> ELSE disk>>

(* Bound: while a new-window request waits, and in a process in which one  *)
(* will never be answered, all pages stay at one URL.                      *)
OneUrlWithRequests ==
  \/ asked = 0 /\ pending = {}
  \/ /\ \A p \in Live(core) : last[p] # away /\ web[p] # away
     /\ \A i \in 1..Len(slots) : slots[i].source # away /\ slots[i].going # away

(* filter keeps what is asked for in its order.                            *)
ASSUME FilterAssumption ==
         \A n \in 0..4, kept \in SUBSET (1..3) : \A s \in [1..n -> 1..3] :
           Filter(s, kept) = SelectSeq(s, LAMBDA x : x \in kept)
=============================================================================
