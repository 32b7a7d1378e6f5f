------------------------- MODULE MCRpcChildProcess -------------------------
(* Instances of RpcChildProcess for TLC.                                   *)
EXTENDS RpcChildProcess

CONSTANTS c1, c2

MCCallers == {c1, c2}
=============================================================================
