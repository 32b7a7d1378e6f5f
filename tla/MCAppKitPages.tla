---------------------------- MODULE MCAppKitPages ---------------------------
(* Instances of AppKitPages for TLC.                                       *)
EXTENDS AppKitPages

CONSTANTS home, away

MCUrls == {home, away}
MCLimits == {1, 2}
=============================================================================
