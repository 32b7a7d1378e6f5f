--------------------------- MODULE MCPageManager ---------------------------
(* Instances of PageManager for TLC.                                       *)
EXTENDS EvictionLoop

MCLimits == {0, 1, 2, Unlimited}
=============================================================================
