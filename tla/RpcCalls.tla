------------------------------ MODULE RpcCalls ------------------------------
(***************************************************************************)
(* What RpcChildProcess::call promises its callers, without the threads    *)
(* and tables behind it: a call ends with the child's answer to it, or     *)
(* with an error if the connection has broken, and once it has broken      *)
(* every call ends.                                                        *)
(***************************************************************************)
EXTENDS Naturals

CONSTANTS
  Callers,     (* the threads that call *)
  MaxCalls     (* bound: calls made in a behaviour *)

VARIABLES
  made,        (* calls made so far *)
  waiting,     (* the number of the call each caller waits for, 0 if none *)
  answered,    (* the calls the child has answered *)
  broken       (* the connection has broken *)

vars == <<made, waiting, answered, broken>>

Init ==
  /\ made = 0
  /\ waiting = [c \in Callers |-> 0]
  /\ answered = {}
  /\ broken = FALSE

Call(c) ==
  /\ waiting[c] = 0 /\ made < MaxCalls
  /\ made' = made + 1
  /\ waiting' = [waiting EXCEPT ![c] = made + 1]
  /\ UNCHANGED <<answered, broken>>

Answer(n) ==
  /\ answered' = answered \cup {n}
  /\ UNCHANGED <<made, waiting, broken>>

Break ==
  /\ broken' = TRUE
  /\ UNCHANGED <<made, waiting, answered>>

Return(c) ==
  /\ waiting[c] # 0
  /\ waiting[c] \in answered \/ broken
  /\ waiting' = [waiting EXCEPT ![c] = 0]
  /\ UNCHANGED <<made, answered, broken>>

Next ==
  \/ \E c \in Callers : Call(c) \/ Return(c)
  \/ \E n \in 1..made : Answer(n)
  \/ Break

Spec == Init /\ [][Next]_vars /\ \A c \in Callers : WF_vars(Return(c))
=============================================================================
