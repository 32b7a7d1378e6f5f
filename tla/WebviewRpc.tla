----------------------------- MODULE WebviewRpc -----------------------------
(***************************************************************************)
(* How a page of the browser calls the browser: fetch() to a loopback HTTP *)
(* server (browser-chrome-core/src/webview_rpc.rs), whose one thread takes *)
(* a request at a time, posts it to the GTK thread and waits for the reply *)
(* (browser-linux-gtk3/src/internal_rpc.rs).  What the GTK thread does for *)
(* a call, and what the page does with the answer, is the module's that    *)
(* extends this one.                                                       *)
(*                                                                         *)
(* Calls reach the server's queue in any order (each is a connection of    *)
(* its own, after a preflight request that the same thread answers), and   *)
(* their answers reach the page in any order.  The pages only make calls   *)
(* that exist, with JSON parameters: the server's 400 and 404 for anything *)
(* else are not taken here.                                                *)
(***************************************************************************)
EXTENDS Naturals

CONSTANTS
  MaxCalls,          (* bound: calls under way at a time *)
  NoCall             (* what an unused slot holds *)

VARIABLE calls       (* of each slot: the call under way in it *)

Slots == 1..MaxCalls
Stages == {"sent",      (* by the page; on its way, or in the server's queue *)
           "handled",   (* posted to the GTK thread, whose reply the server awaits *)
           "returned"}  (* the response is on its way to the page *)

Stage(s) == IF calls[s] = NoCall THEN "none" ELSE calls[s].stage
FreeSlots == {s \in Slots : calls[s] = NoCall}

(* A call of a method, after whose answer the page goes on with `then'.    *)
Call(method, params, then) ==
  [stage |-> "sent", method |-> method, params |-> params, then |-> then]

(* rpcCall, in a slot of `cs' that no call uses.                           *)
With(cs, call) ==
  LET free == {s \in Slots : cs[s] = NoCall}
      s == CHOOSE s \in free : \A t \in free : s =< t
  IN [cs EXCEPT ![s] = call]
Without(s) == [calls EXCEPT ![s] = NoCall]

(* Mutant: a thread for each request, so that they overlap.                *)
TakeRequestAnyway(s) ==
  /\ Stage(s) = "sent"
  /\ calls' = [calls EXCEPT ![s].stage = "handled"]

(* The server's thread takes a request, finds its handler and waits in it. *)
TakeRequest(s) ==
  /\ \A t \in Slots : Stage(t) # "handled"
  /\ Stage(s) = "sent"
  /\ calls' = [calls EXCEPT ![s].stage = "handled"]

(* The GTK thread runs the method of the call in slot s.                   *)
Dispatched(s, method) == Stage(s) = "handled" /\ calls[s].method = method

(* It replies, and the server's thread responds and is free again.         *)
Returned(s, ok, reply) ==
  [calls EXCEPT ![s] = [stage |-> "returned", then |-> calls[s].then, ok |-> ok, reply |-> reply]]
Replied(s, reply) == Returned(s, TRUE, reply)

(* respond_error                                                           *)
Refused(s) == Returned(s, FALSE, NoCall)

(* The page is told to go on with what awaited the call in slot s.         *)
Answer(s, then) == Stage(s) = "returned" /\ calls[s].then \in then

(* The page gives up its calls (it is reloaded or closed).  The server may *)
(* have them, and goes on: what changes nothing need not be followed.      *)
Orphaned(reads) ==
  [s \in Slots |-> IF \/ Stage(s) \in {"none", "returned"}
                      \/ Stage(s) = "sent" /\ calls[s].method \in reads
                   THEN NoCall
                   ELSE [calls[s] EXCEPT !.then = "nothing"]]
=============================================================================
