--------------------------- MODULE RpcChildProcess ---------------------------
(***************************************************************************)
(* rpc-protocol's RpcChildProcess: any number of threads in call, the      *)
(* reader thread that routes what the child sends, one thread in           *)
(* serve_incoming, and the child at the other end of two pipes.            *)
(*                                                                         *)
(* Each step of a thread is one access to what it shares with others: the  *)
(* pending table (under its mutex), the closed flag, a pipe, a channel.    *)
(* The writer mutex is held from the write to its failure path and no      *)
(* thread takes it while holding another, so a blocked write is modelled   *)
(* by its pipe alone.  Of a message only its kind and id matter.           *)
(***************************************************************************)
EXTENDS Naturals, Sequences

CONSTANTS
  Callers,      (* the threads that call *)
  MaxCalls,     (* bound: calls made in a behaviour *)
  PipeSize,     (* messages a pipe holds before a write to it blocks *)
  MaxStray      (* bound: what the child sends besides one answer per request *)

ASSUME RpcAssumption ==
  MaxCalls \in Nat /\ PipeSize \in Nat \ {0} /\ MaxStray \in Nat

VARIABLES
  nextId,       (* next_id - 1: ids handed out *)
  pending,      (* the ids in the pending table *)
  reply,        (* what the channel of each call holds *)
  closed,       (* the closed flag *)
  pc, id,       (* of each caller: its next step, and the id of its call *)
  result,       (* of each caller: how its last call returned *)
  reader,       (* the reader thread *)
  incoming,     (* requests queued for serve_incoming *)
  server,       (* the thread in serve_incoming *)
  toChild, fromChild,   (* the pipes *)
  stdin, stdout,        (* whether the child still has its ends open *)
  asked,        (* requests the child has read and not answered for good *)
  answered,     (* calls the child has ever answered *)
  stray         (* what the child sent besides *)

callerVars == <<nextId, pc, id, result>>
childVars == <<stdin, stdout, asked, answered, stray>>
vars == <<nextId, pending, reply, closed, pc, id, result, reader, incoming,
          server, toChild, fromChild, stdin, stdout, asked, answered, stray>>

Ids == 1..MaxCalls
Request(n) == [kind |-> "request", id |-> n]
Response(n) == [kind |-> "response", id |-> n]
Reply == [kind |-> "reply", id |-> 0]
Garbage == [kind |-> "garbage", id |-> 0]

-----------------------------------------------------------------------------
(* call, step by step.                                                     *)

(* next_id.fetch_add, and the call's own channel.                          *)
TakeId(c) ==
  /\ pc[c] = "idle" /\ nextId < MaxCalls
  /\ nextId' = nextId + 1
  /\ id' = [id EXCEPT ![c] = nextId + 1]
  /\ pc' = [pc EXCEPT ![c] = "insert"]
  /\ UNCHANGED <<pending, reply, closed, result, reader, incoming, server,
                 toChild, fromChild, childVars>>

InsertPending(c) ==
  /\ pc[c] = "insert"
  /\ pending' = pending \cup {id[c]}
  /\ pc' = [pc EXCEPT ![c] = "write"]
  /\ UNCHANGED <<nextId, reply, closed, id, result, reader, incoming, server,
                 toChild, fromChild, childVars>>

(* write_message: blocks while the pipe is full, fails once the child's    *)
(* end is closed.                                                          *)
WriteRequest(c) ==
  /\ pc[c] = "write"
  /\ \/ /\ stdin /\ Len(toChild) < PipeSize
        /\ toChild' = Append(toChild, Request(id[c]))
        /\ pc' = [pc EXCEPT ![c] = "check"]
     \/ /\ ~stdin
        /\ pc' = [pc EXCEPT ![c] = "withdraw"]
        /\ UNCHANGED toChild
  /\ UNCHANGED <<nextId, pending, reply, closed, id, result, reader, incoming,
                 server, fromChild, childVars>>

Return(c, r) ==
  /\ pc' = [pc EXCEPT ![c] = "idle"]
  /\ result' = [result EXCEPT ![c] = r]

(* The entry of a request that could not be written.                       *)
Withdraw(c) ==
  /\ pc[c] = "withdraw"
  /\ pending' = pending \ {id[c]}
  /\ Return(c, "unwritten")
  /\ UNCHANGED <<nextId, reply, closed, id, reader, incoming, server, toChild,
                 fromChild, childVars>>

(* Mutant: call waits without looking at the flag.                         *)
CheckNothing(c) ==
  /\ pc[c] = "check"
  /\ pc' = [pc EXCEPT ![c] = "receive"]
  /\ UNCHANGED <<nextId, pending, reply, closed, id, result, reader, incoming,
                 server, toChild, fromChild, childVars>>

CheckClosed(c) ==
  /\ pc[c] = "check"
  /\ pc' = [pc EXCEPT ![c] = IF closed THEN "reclaim" ELSE "receive"]
  /\ UNCHANGED <<nextId, pending, reply, closed, id, result, reader, incoming,
                 server, toChild, fromChild, childVars>>

(* closed was set: the entry is still there if the drain came before it.   *)
Reclaim(c) ==
  /\ pc[c] = "reclaim"
  /\ \/ /\ id[c] \in pending
        /\ pending' = pending \ {id[c]}
        /\ Return(c, "closed")
     \/ /\ id[c] \notin pending
        /\ pc' = [pc EXCEPT ![c] = "receive"]
        /\ UNCHANGED <<pending, result>>
  /\ UNCHANGED <<nextId, reply, closed, id, reader, incoming, server, toChild,
                 fromChild, childVars>>

(* rx.recv: what the reader sent; a sender that is gone counts as closed.  *)
Receive(c) ==
  /\ pc[c] = "receive"
  /\ reply[id[c]] # "none" \/ id[c] \notin pending
  /\ Return(c, IF reply[id[c]] = "none" THEN "closed" ELSE reply[id[c]])
  /\ UNCHANGED <<nextId, pending, reply, closed, id, reader, incoming, server,
                 toChild, fromChild, childVars>>

CallerStep(c) ==
  \/ InsertPending(c) \/ WriteRequest(c) \/ Withdraw(c)
  \/ CheckClosed(c) \/ Reclaim(c) \/ Receive(c)

-----------------------------------------------------------------------------
(* The reader thread.                                                      *)

(* A message, in the order the child wrote them.  A response is taken out  *)
(* of the table and sent in one go, under the table's mutex; one that      *)
(* nobody waits for is dropped.                                            *)
ReadMessage ==
  /\ reader = "reading" /\ fromChild # <<>>
  /\ fromChild' = Tail(fromChild)
  /\ LET m == Head(fromChild)
     IN \/ /\ m.kind = "response"
           /\ pending' = pending \ {m.id}
           /\ reply' = IF m.id \in pending THEN [reply EXCEPT ![m.id] = "answer"] ELSE reply
           /\ UNCHANGED <<incoming, reader>>
        \/ /\ m.kind = "request"
           /\ incoming' = incoming + 1
           /\ UNCHANGED <<pending, reply, reader>>
        \/ /\ m.kind = "garbage"
           /\ reader' = "closing"
           /\ UNCHANGED <<pending, reply, incoming>>
  /\ UNCHANGED <<callerVars, closed, server, toChild, childVars>>

(* Mutant: end of file drains the table without setting the flag.          *)
ReadEofUnflagged ==
  /\ reader = "reading" /\ fromChild = <<>> /\ ~stdout
  /\ reader' = "draining"
  /\ UNCHANGED <<callerVars, pending, reply, closed, incoming, server, toChild,
                 fromChild, childVars>>

ReadEof ==
  /\ reader = "reading" /\ fromChild = <<>> /\ ~stdout
  /\ reader' = "closing"
  /\ UNCHANGED <<callerVars, pending, reply, closed, incoming, server, toChild,
                 fromChild, childVars>>

SetClosed ==
  /\ reader = "closing"
  /\ closed' = TRUE
  /\ reader' = "draining"
  /\ UNCHANGED <<callerVars, pending, reply, incoming, server, toChild, fromChild,
                 childVars>>

(* The last thing the thread does; its end of `incoming' goes with it.     *)
DrainPending ==
  /\ reader = "draining"
  /\ reply' = [n \in Ids |-> IF n \in pending THEN "closed" ELSE reply[n]]
  /\ pending' = {}
  /\ reader' = "ended"
  /\ UNCHANGED <<callerVars, closed, incoming, server, toChild, fromChild, childVars>>

ReaderStep == ReadMessage \/ ReadEof \/ SetClosed \/ DrainPending

-----------------------------------------------------------------------------
(* serve_incoming: the handler runs on what it takes, and a request gets a *)
(* reply, a notification none.                                             *)
TakeIncoming ==
  /\ server = "waiting" /\ incoming > 0
  /\ incoming' = incoming - 1
  /\ server' \in {"replying", "waiting"}
  /\ UNCHANGED <<callerVars, pending, reply, closed, reader, toChild, fromChild,
                 childVars>>

(* Mutant: a reply that cannot be written is not given up.                 *)
WriteReplyUntilSent ==
  /\ server = "replying"
  /\ stdin /\ Len(toChild) < PipeSize /\ toChild' = Append(toChild, Reply)
  /\ server' = "waiting"
  /\ UNCHANGED <<callerVars, pending, reply, closed, reader, incoming, fromChild,
                 childVars>>

WriteReply ==
  /\ server = "replying"
  /\ \/ stdin /\ Len(toChild) < PipeSize /\ toChild' = Append(toChild, Reply)
     \/ ~stdin /\ UNCHANGED toChild
  /\ server' = "waiting"
  /\ UNCHANGED <<callerVars, pending, reply, closed, reader, incoming, fromChild,
                 childVars>>

StopServing ==
  /\ server = "waiting" /\ incoming = 0 /\ reader = "ended"
  /\ server' = "ended"
  /\ UNCHANGED <<callerVars, pending, reply, closed, reader, incoming, toChild,
                 fromChild, childVars>>

ServerStep == TakeIncoming \/ WriteReply \/ StopServing

-----------------------------------------------------------------------------
(* The child, and the host killing it.                                     *)
hostVars == <<callerVars, pending, reply, closed, reader, incoming, server>>

ChildReads ==
  /\ stdin /\ toChild # <<>>
  /\ toChild' = Tail(toChild)
  /\ asked' = asked \cup (IF Head(toChild).kind = "request" THEN {Head(toChild).id} ELSE {})
  /\ UNCHANGED <<hostVars, fromChild, stdin, stdout, answered, stray>>

ChildSends(m) ==
  /\ stdout /\ reader = "reading" /\ Len(fromChild) < PipeSize
  /\ fromChild' = Append(fromChild, m)
  /\ UNCHANGED <<hostVars, toChild, stdin, stdout>>

(* In any order, and perhaps once too often.                               *)
ChildAnswers(n) ==
  /\ n \in asked
  /\ answered' = answered \cup {n}
  /\ \/ asked' = asked \ {n} /\ UNCHANGED stray
     \/ stray < MaxStray /\ stray' = stray + 1 /\ UNCHANGED asked
  /\ ChildSends(Response(n))

ChildCalls ==
  /\ stray < MaxStray /\ stray' = stray + 1
  /\ ChildSends(Request(0))
  /\ UNCHANGED <<asked, answered>>

ChildGarbles ==
  /\ stray < MaxStray /\ stray' = stray + 1
  /\ ChildSends(Garbage)
  /\ UNCHANGED <<asked, answered>>

ChildClosesStdout ==
  /\ stdout /\ stdout' = FALSE
  /\ UNCHANGED <<hostVars, toChild, fromChild, stdin, asked, answered, stray>>

(* The child ends, by itself or by shutdown; what it wrote can be read.    *)
ChildEnds ==
  /\ stdin
  /\ stdin' = FALSE /\ stdout' = FALSE
  /\ toChild' = <<>>
  /\ UNCHANGED <<hostVars, fromChild, asked, answered, stray>>

-----------------------------------------------------------------------------
Init ==
  /\ nextId = 0 /\ pending = {} /\ closed = FALSE
  /\ reply = [n \in Ids |-> "none"]
  /\ pc = [c \in Callers |-> "idle"]
  /\ id = [c \in Callers |-> 0]
  /\ result = [c \in Callers |-> "none"]
  /\ reader = "reading" /\ server = "waiting" /\ incoming = 0
  /\ toChild = <<>> /\ fromChild = <<>>
  /\ stdin = TRUE /\ stdout = TRUE
  /\ asked = {} /\ answered = {} /\ stray = 0

Next ==
  \/ \E c \in Callers : TakeId(c) \/ CallerStep(c)
  \/ ReaderStep
  \/ ServerStep
  \/ ChildReads
  \/ \E n \in Ids : ChildAnswers(n)
  \/ ChildCalls \/ ChildGarbles \/ ChildClosesStdout \/ ChildEnds

Spec == Init /\ [][Next]_vars

(* The host's threads are scheduled; of the child nothing is assumed.      *)
HostFairSpec ==
  Spec /\ WF_vars(ReaderStep) /\ WF_vars(ServerStep)
       /\ \A c \in Callers : WF_vars(CallerStep(c))

(* The child also keeps reading its stdin for as long as it runs.          *)
FairSpec == HostFairSpec /\ WF_vars(ChildReads)

-----------------------------------------------------------------------------
Messages ==
  [kind : {"request", "response", "reply", "garbage"}, id : 0..MaxCalls]

TypeOK ==
  /\ nextId \in 0..MaxCalls /\ pending \subseteq 1..nextId
  /\ closed \in BOOLEAN /\ stdin \in BOOLEAN /\ stdout \in BOOLEAN
  /\ reply \in [Ids -> {"none", "answer", "closed"}]
  /\ pc \in [Callers -> {"idle", "insert", "write", "withdraw", "check",
                         "reclaim", "receive"}]
  /\ id \in [Callers -> 0..nextId]
  /\ result \in [Callers -> {"none", "answer", "closed", "unwritten"}]
  /\ reader \in {"reading", "closing", "draining", "ended"}
  /\ server \in {"waiting", "replying", "ended"} /\ incoming \in Nat
  /\ toChild \in Seq(Messages) /\ fromChild \in Seq(Messages)
  /\ asked \subseteq 1..nextId /\ answered \subseteq 1..nextId /\ stray \in 0..MaxStray

InFlight(c) == pc[c] # "idle"

(* The connection is broken as far as a call is concerned: the child can   *)
(* no longer be written to, or what it sent last was the end or nonsense.  *)
Broken == ~stdin \/ ~stdout \/ reader # "reading" \/ closed
          \/ \E i \in 1..Len(fromChild) : fromChild[i].kind = "garbage"

(* A caller blocked on its channel is always somebody's to wake: its entry *)
(* is in the table and the table will still be drained, or its reply is    *)
(* already in the channel.  An entry made after the drain is never left to *)
(* wait on (closed, and the order of the steps in call and in the reader). *)
WaitersAreWoken ==
  \A c \in Callers :
    pc[c] = "receive" =>
      \/ reply[id[c]] # "none"
      \/ id[c] \in pending /\ reader # "ended"

(* A call returns the answer the child gave to it, and an error only when  *)
(* the connection has broken: a second response, a response to another     *)
(* call or a slow child never make one fail.                               *)
NoSpuriousOutcome ==
  \A c \in Callers :
    /\ result[c] \in {"closed", "unwritten"} => Broken
    /\ ~InFlight(c) /\ result[c] = "answer" => id[c] \in answered

(* No entry outlives its call, so the table stays as small as the number   *)
(* of threads that call (remove on every way out of call).                 *)
NoEntryLeaks ==
  \A n \in pending : \E c \in Callers : id[c] = n /\ InFlight(c)

(* Each channel is sent to at most once: what a caller is about to receive *)
(* is never overtaken by the drain or by a second response.                *)
OneReplyPerCall ==
  [][\A n \in Ids : reply[n] # "none" => reply'[n] = reply[n]]_vars

(* What the callers see is RpcCalls: every call ends with its answer, or   *)
(* with an error once the connection has broken, and when it has broken it *)
(* does end.                                                               *)
Abstract == INSTANCE RpcCalls WITH
  made <- nextId,
  waiting <- [c \in Callers |-> IF InFlight(c) THEN id[c] ELSE 0],
  broken <- Broken
RefinesRpcCalls == Abstract!Spec

(* When the child is gone serve_incoming returns, whatever is still queued *)
(* for it (shutdown).                                                      *)
ServeEndsAfterShutdown == ~stdin /\ ~stdout ~> server = "ended"

(* A sentence of the code that TLC refutes when it is added to the        *)
(* run (README, "What the code does not keep").                            *)

(* "the reader thread treats the whole connection as dead: it stops, and   *)
(* every still-pending call() gets a real error instead of hanging         *)
(* forever" (spawn).                                                       *)
DeadConnectionFailsCalls ==
  \A c \in Callers : reader = "ended" /\ InFlight(c) ~> ~InFlight(c)
=============================================================================
