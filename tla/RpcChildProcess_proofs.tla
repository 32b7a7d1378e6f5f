----------------------- MODULE RpcChildProcess_proofs -----------------------
(***************************************************************************)
(* Proofs about RpcChildProcess, for any number of calling threads, calls  *)
(* and stray messages and any size of the pipes: no lost wakeup, no leaked *)
(* entry, one reply per call, and only outcomes RpcCalls allows.           *)
(***************************************************************************)
EXTENDS RpcChildProcess, SequenceTheorems, TLAPS

-----------------------------------------------------------------------------
(* The inductive invariant, in four parts.                                 *)

(* What is in the pipes: requests of calls that were made, and responses   *)
(* to calls the child has answered.                                        *)
PipesOK ==
  /\ \A i \in 1..Len(toChild) :
       toChild[i].kind = "request" => toChild[i].id \in 1..nextId
  /\ \A i \in 1..Len(fromChild) :
       fromChild[i].kind = "response" => fromChild[i].id \in answered

(* Whose the ids are: each call in flight has one of its own, it is in the *)
(* table only after InsertPending, and never once it has been replied to.  *)
TableOK ==
  /\ \A c \in Callers : InFlight(c) => id[c] \in 1..nextId
  /\ \A c, d \in Callers : InFlight(c) /\ InFlight(d) /\ id[c] = id[d] => c = d
  /\ \A c \in Callers :
       pc[c] = "insert" => id[c] \notin pending /\ reply[id[c]] = "none"
  /\ \A n \in Ids : reply[n] # "none" => n \notin pending /\ n <= nextId

(* Until it knows how it ends a call is in the table or has its reply; one *)
(* that waits is not left there by the drain, which closed announces.      *)
WakeOK ==
  /\ reader \in {"draining", "ended"} => closed
  /\ \A c \in Callers :
       pc[c] \in {"write", "check", "reclaim"} =>
         id[c] \in pending \/ reply[id[c]] # "none"
  /\ WaitersAreWoken

(* Why a reply or an outcome is what it is.                                *)
OutcomeOK ==
  /\ \A c \in Callers : pc[c] = "withdraw" => ~stdin
  /\ \A c \in Callers : pc[c] = "reclaim" => closed
  /\ \A n \in Ids : reply[n] = "answer" => n \in answered
  /\ \A n \in Ids : reply[n] = "closed" => closed
  /\ \A c \in Callers : result[c] \in {"closed", "unwritten"} => closed \/ ~stdin
  /\ \A c \in Callers : ~InFlight(c) /\ result[c] = "answer" => id[c] \in answered

IInv == TypeOK /\ PipesOK /\ TableOK /\ NoEntryLeaks /\ WakeOK /\ OutcomeOK
-----------------------------------------------------------------------------
(* A message written to a pipe comes after those in it.                    *)
LEMMA Appended ==
  ASSUME NEW S, NEW s \in Seq(S), NEW e \in S
  PROVE  /\ Append(s, e) \in Seq(S)
         /\ Len(Append(s, e)) = Len(s) + 1
         /\ \A i \in 1 .. Len(s) + 1 : Append(s, e)[i] = IF i = Len(s) + 1 THEN e ELSE s[i]
  OBVIOUS

(* A message read from a pipe leaves those after it.                       *)
LEMMA Taken ==
  ASSUME NEW S, NEW s \in Seq(S), s # <<>>
  PROVE  /\ Head(s) \in S /\ Len(s) \in Nat /\ 1 \in 1 .. Len(s) /\ Head(s) = s[1]
         /\ Tail(s) \in Seq(S)
         /\ Len(Tail(s)) = Len(s) - 1
         /\ \A i \in 1 .. Len(s) - 1 : Tail(s)[i] = s[i + 1] /\ i + 1 \in 1 .. Len(s)
  BY HeadTailProperties

(* The messages of the model, and what tells them apart.                   *)
LEMMA MessageKinds ==
  /\ \A n \in 0..MaxCalls :
       /\ Request(n) \in Messages /\ Request(n).kind = "request" /\ Request(n).id = n
       /\ Response(n) \in Messages /\ Response(n).kind = "response" /\ Response(n).id = n
  /\ Reply \in Messages /\ Reply.kind = "reply"
  /\ Garbage \in Messages /\ Garbage.kind = "garbage"
  /\ \A m \in Messages : m.kind \in {"request", "response", "reply", "garbage"}
  BY RpcAssumption DEF Messages, Request, Response, Reply, Garbage

(* What the reader finds at the head of its pipe.                          *)
LEMMA ReaderHead ==
  ASSUME TypeOK, PipesOK, fromChild # <<>>
  PROVE  /\ Head(fromChild) = fromChild[1] /\ 1 \in 1..Len(fromChild)
         /\ Head(fromChild).kind \in {"request", "response", "reply", "garbage"}
         /\ Head(fromChild).kind = "response" => Head(fromChild).id \in Ids \cap answered
         /\ Tail(fromChild) \in Seq(Messages)
         /\ Len(Tail(fromChild)) = Len(fromChild) - 1 /\ Len(fromChild) \in Nat
         /\ \A i \in 1..Len(fromChild) - 1 :
              Tail(fromChild)[i] = fromChild[i + 1] /\ i + 1 \in 1..Len(fromChild)
  <1>1. answered \subseteq Ids /\ fromChild \in Seq(Messages)
    BY RpcAssumption DEF TypeOK, Ids
  <1>2. /\ Head(fromChild) \in Messages /\ Head(fromChild) = fromChild[1]
        /\ 1 \in 1..Len(fromChild) /\ Tail(fromChild) \in Seq(Messages)
        /\ Len(fromChild) \in Nat /\ Len(Tail(fromChild)) = Len(fromChild) - 1
        /\ \A i \in 1..Len(fromChild) - 1 :
             Tail(fromChild)[i] = fromChild[i + 1] /\ i + 1 \in 1..Len(fromChild)
    BY <1>1, Taken
  <1>3. Head(fromChild).kind = "response" => Head(fromChild).id \in answered
    BY <1>2 DEF PipesOK
  <1>4. Head(fromChild).kind \in {"request", "response", "reply", "garbage"}
    BY <1>2, MessageKinds
  <1> QED BY <1>1, <1>2, <1>3, <1>4, Zenon

(* What the child finds at the head of its pipe.                           *)
LEMMA ChildHead ==
  ASSUME TypeOK, PipesOK, toChild # <<>>
  PROVE  /\ Head(toChild).kind = "request" => Head(toChild).id \in 1..nextId
         /\ Tail(toChild) \in Seq(Messages)
         /\ Len(Tail(toChild)) = Len(toChild) - 1 /\ Len(toChild) \in Nat
         /\ \A i \in 1..Len(toChild) - 1 :
              Tail(toChild)[i] = toChild[i + 1] /\ i + 1 \in 1..Len(toChild)
  <1>1. /\ Head(toChild) = toChild[1] /\ 1 \in 1..Len(toChild)
        /\ Tail(toChild) \in Seq(Messages)
        /\ Len(toChild) \in Nat /\ Len(Tail(toChild)) = Len(toChild) - 1
        /\ \A i \in 1..Len(toChild) - 1 :
             Tail(toChild)[i] = toChild[i + 1] /\ i + 1 \in 1..Len(toChild)
    BY Taken DEF TypeOK
  <1>2. Head(toChild).kind = "request" => Head(toChild).id \in 1..nextId
    BY <1>1 DEF PipesOK
  <1> QED BY <1>1, <1>2, Zenon

(* A response names a call that was made (PipesOK), a call in flight has an *)
(* id (TableOK): what is put in the table and taken from it is one.        *)
LEMMA NextType == TypeOK /\ PipesOK /\ TableOK /\ [Next]_vars => TypeOK'
  <1> SUFFICES ASSUME TypeOK /\ PipesOK /\ TableOK, [Next]_vars PROVE TypeOK'
    OBVIOUS
  <1> USE RpcAssumption DEF TypeOK, Ids, callerVars, childVars, hostVars
  <1>1. ASSUME NEW c \in Callers, TakeId(c) PROVE TypeOK'
    BY <1>1 DEF TakeId
  <1>2. ASSUME NEW c \in Callers, InsertPending(c) PROVE TypeOK'
    BY <1>2 DEF InsertPending, TableOK, InFlight
  <1>3. ASSUME NEW c \in Callers, WriteRequest(c) PROVE TypeOK'
    <2>1. toChild' \in {toChild, Append(toChild, Request(id[c]))}
      BY <1>3 DEF WriteRequest
    <2>2. toChild' \in Seq(Messages)
      <3>1. id[c] \in 0..MaxCalls
        OBVIOUS
      <3>2. Request(id[c]) \in Messages
        BY <3>1, MessageKinds
      <3>3. Append(toChild, Request(id[c])) \in Seq(Messages)
        BY <3>2, Appended
      <3> QED BY <2>1, <3>3
    <2>3. pc' \in [Callers -> {"idle", "insert", "write", "withdraw", "check",
                            "reclaim", "receive"}]
      BY <1>3 DEF WriteRequest
    <2> QED BY <1>3, <2>2, <2>3 DEF WriteRequest
  <1>4. ASSUME NEW c \in Callers, Withdraw(c) PROVE TypeOK'
    BY <1>4 DEF Withdraw, Return
  <1>5. ASSUME NEW c \in Callers, CheckClosed(c) PROVE TypeOK'
    BY <1>5 DEF CheckClosed
  <1>6. ASSUME NEW c \in Callers, Reclaim(c) PROVE TypeOK'
    BY <1>6 DEF Reclaim, Return
  <1>7. ASSUME NEW c \in Callers, Receive(c) PROVE TypeOK'
    <2>1. id[c] \in Ids
      BY <1>7 DEF Receive, TableOK, InFlight
    <2> QED BY <1>7, <2>1 DEF Receive, Return
  <1>8. CASE ReadMessage
    <2> DEFINE m == Head(fromChild)
    <2>1. fromChild' \in Seq(Messages) /\ (m.kind = "response" => m.id \in Ids)
      BY <1>8, ReaderHead DEF ReadMessage
    <2> HIDE DEF m
    <2>2. /\ fromChild' \in Seq(Messages)
          /\ UNCHANGED <<callerVars, closed, server, toChild, childVars>>
          /\ \/ m.id \in Ids /\ pending' = pending \ {m.id} /\ UNCHANGED <<incoming, reader>>
                /\ reply' = IF m.id \in pending THEN [reply EXCEPT ![m.id] = "answer"] ELSE reply
             \/ incoming' = incoming + 1 /\ UNCHANGED <<pending, reply, reader>>
             \/ reader' = "closing" /\ UNCHANGED <<pending, reply, incoming>>
      BY <1>8, <2>1 DEF ReadMessage, m
    <2>3. pending' \subseteq 1..nextId
      BY <2>2
    <2>6. incoming' \in Nat
      BY <2>2
    <2>4. reply' \in [Ids -> {"none", "answer", "closed"}]
      BY <2>2
    <2>5. reader' \in {"reading", "closing", "draining", "ended"}
      BY <2>2
    <2> QED BY <2>2, <2>3, <2>4, <2>5, <2>6
  <1>9. CASE ReadEof
    BY <1>9 DEF ReadEof
  <1>10. CASE SetClosed
    BY <1>10 DEF SetClosed
  <1>11. CASE DrainPending
    BY <1>11 DEF DrainPending
  <1>12. CASE TakeIncoming
    BY <1>12 DEF TakeIncoming
  <1>13. CASE WriteReply
    <2>1. toChild' \in Seq(Messages)
      <3>1. toChild' \in {toChild, Append(toChild, Reply)}
        BY <1>13 DEF WriteReply
      <3>2. Append(toChild, Reply) \in Seq(Messages)
        BY MessageKinds, Appended
      <3> QED BY <3>1, <3>2
    <2> QED BY <1>13, <2>1 DEF WriteReply
  <1>14. CASE StopServing
    BY <1>14 DEF StopServing
  <1>15. CASE ChildReads
    <2>1. toChild' \in Seq(Messages) /\ asked' \subseteq 1..nextId
      BY <1>15, ChildHead DEF ChildReads
    <2> QED BY <1>15, <2>1 DEF ChildReads
  <1>16. ASSUME NEW n \in Ids, ChildAnswers(n) PROVE TypeOK'
    <2>1. fromChild' \in Seq(Messages)
      BY <1>16, Appended, MessageKinds DEF ChildAnswers, ChildSends
    <2>2. answered' \subseteq 1..nextId /\ asked' \subseteq 1..nextId
      BY <1>16 DEF ChildAnswers
    <2>3. stray' \in 0..MaxStray
      BY <1>16 DEF ChildAnswers
    <2> QED BY <1>16, <2>1, <2>2, <2>3 DEF ChildAnswers, ChildSends
  <1>17. CASE ChildCalls
    <2>1. fromChild' \in Seq(Messages)
      BY <1>17, Appended, MessageKinds DEF ChildCalls, ChildSends
    <2> QED BY <1>17, <2>1 DEF ChildCalls, ChildSends
  <1>18. CASE ChildGarbles
    <2>1. fromChild' \in Seq(Messages)
      BY <1>18, Appended, MessageKinds DEF ChildGarbles, ChildSends
    <2> QED BY <1>18, <2>1 DEF ChildGarbles, ChildSends
  <1>19. CASE ChildClosesStdout
    BY <1>19 DEF ChildClosesStdout
  <1>20. CASE ChildEnds
    <2>1. toChild' \in Seq(Messages)
      BY <1>20 DEF ChildEnds
    <2> QED BY <1>20, <2>1 DEF ChildEnds
  <1>21. CASE UNCHANGED vars
    BY <1>21 DEF vars
  <1> QED BY <1>1, <1>2, <1>3, <1>4, <1>5, <1>6, <1>7, <1>8, <1>9, <1>10,
             <1>11, <1>12, <1>13, <1>14, <1>15, <1>16, <1>17, <1>18, <1>19,
             <1>20, <1>21 DEF Next, CallerStep, ReaderStep, ServerStep

(* Only WriteRequest and ChildSends add to a pipe, and nextId and answered *)
(* only grow.                                                              *)
LEMMA NextPipes == TypeOK /\ PipesOK /\ TableOK /\ [Next]_vars => PipesOK'
  <1> SUFFICES ASSUME TypeOK /\ PipesOK /\ TableOK, [Next]_vars PROVE PipesOK'
    OBVIOUS
  <1> USE RpcAssumption DEF TypeOK, PipesOK, callerVars, childVars, hostVars
  <1>1. ASSUME NEW c \in Callers, TakeId(c) PROVE PipesOK'
    BY <1>1 DEF TakeId
  <1>2. ASSUME NEW c \in Callers, InsertPending(c) PROVE PipesOK'
    BY <1>2 DEF InsertPending
  <1>3. ASSUME NEW c \in Callers, WriteRequest(c) PROVE PipesOK'
    <2>1. toChild' \in {toChild, Append(toChild, Request(id[c]))}
      BY <1>3 DEF WriteRequest
    <2>2. id[c] \in 0..MaxCalls /\ id[c] \in 1..nextId
      BY <1>3 DEF WriteRequest, TableOK, InFlight
    <2>3. Request(id[c]) \in Messages /\ Request(id[c]).id = id[c]
      BY <2>2, MessageKinds
    <2>4. \A i \in 1..Len(toChild') :
            toChild'[i].kind = "request" => toChild'[i].id \in 1..nextId
      <3>1. CASE toChild' = Append(toChild, Request(id[c]))
        BY <2>2, <2>3, <3>1, Appended
      <3> QED BY <2>1, <3>1
    <2> QED BY <1>3, <2>4 DEF WriteRequest
  <1>4. ASSUME NEW c \in Callers, Withdraw(c) PROVE PipesOK'
    BY <1>4 DEF Withdraw, Return
  <1>5. ASSUME NEW c \in Callers, CheckClosed(c) PROVE PipesOK'
    BY <1>5 DEF CheckClosed
  <1>6. ASSUME NEW c \in Callers, Reclaim(c) PROVE PipesOK'
    BY <1>6 DEF Reclaim, Return
  <1>7. ASSUME NEW c \in Callers, Receive(c) PROVE PipesOK'
    BY <1>7 DEF Receive, Return
  <1>8. CASE ReadMessage
    <2>1. fromChild # <<>> /\ fromChild' = Tail(fromChild)
      BY <1>8 DEF ReadMessage
    <2>2. \A i \in 1..Len(fromChild') :
            fromChild'[i].kind = "response" => fromChild'[i].id \in answered
      BY <2>1, ReaderHead
    <2> QED BY <1>8, <2>2 DEF ReadMessage
  <1>9. CASE ReadEof
    BY <1>9 DEF ReadEof
  <1>10. CASE SetClosed
    BY <1>10 DEF SetClosed
  <1>11. CASE DrainPending
    BY <1>11 DEF DrainPending
  <1>12. CASE TakeIncoming
    BY <1>12 DEF TakeIncoming
  <1>13. CASE WriteReply
    <2>1. toChild' \in {toChild, Append(toChild, Reply)}
      BY <1>13 DEF WriteReply
    <2>2. \A i \in 1..Len(toChild') :
            toChild'[i].kind = "request" => toChild'[i].id \in 1..nextId
      <3>1. CASE toChild' = Append(toChild, Reply)
        BY <3>1, Appended, MessageKinds
      <3> QED BY <2>1, <3>1
    <2> QED BY <1>13, <2>2 DEF WriteReply
  <1>14. CASE StopServing
    BY <1>14 DEF StopServing
  <1>15. CASE ChildReads
    <2>1. toChild # <<>> /\ toChild' = Tail(toChild)
      BY <1>15 DEF ChildReads
    <2>2. \A i \in 1..Len(toChild') :
            toChild'[i].kind = "request" => toChild'[i].id \in 1..nextId
      BY <2>1, ChildHead
    <2> QED BY <1>15, <2>2 DEF ChildReads
  <1>16. ASSUME NEW n \in Ids, ChildAnswers(n) PROVE PipesOK'
    <2>1. fromChild' = Append(fromChild, Response(n)) /\ answered' = answered \cup {n}
      BY <1>16 DEF ChildAnswers, ChildSends
    <2>2. Response(n) \in Messages /\ Response(n).kind = "response"
      BY MessageKinds DEF Ids
    <2>3. \A i \in 1..Len(fromChild') :
            fromChild'[i].kind = "response" => fromChild'[i].id \in answered'
      BY <2>1, <2>2, Appended, MessageKinds DEF Ids
    <2> QED BY <1>16, <2>3 DEF ChildAnswers, ChildSends
  <1>17. CASE ChildCalls
    <2>1. fromChild' = Append(fromChild, Request(0)) /\ answered' = answered
      BY <1>17 DEF ChildCalls, ChildSends
    <2>2. Request(0) \in Messages /\ Request(0).kind = "request"
      BY MessageKinds DEF Ids
    <2>3. \A i \in 1..Len(fromChild') :
            fromChild'[i].kind = "response" => fromChild'[i].id \in answered'
      BY <2>1, <2>2, Appended
    <2> QED BY <1>17, <2>3 DEF ChildCalls, ChildSends
  <1>18. CASE ChildGarbles
    <2>1. fromChild' = Append(fromChild, Garbage) /\ answered' = answered
      BY <1>18 DEF ChildGarbles, ChildSends
    <2>2. Garbage \in Messages /\ Garbage.kind = "garbage"
      BY MessageKinds DEF Ids
    <2>3. \A i \in 1..Len(fromChild') :
            fromChild'[i].kind = "response" => fromChild'[i].id \in answered'
      BY <2>1, <2>2, Appended
    <2> QED BY <1>18, <2>3 DEF ChildGarbles, ChildSends
  <1>19. CASE ChildClosesStdout
    BY <1>19 DEF ChildClosesStdout
  <1>20. CASE ChildEnds
    BY <1>20 DEF ChildEnds
  <1>21. CASE UNCHANGED vars
    BY <1>21 DEF vars
  <1> QED BY <1>1, <1>2, <1>3, <1>4, <1>5, <1>6, <1>7, <1>8, <1>9, <1>10,
             <1>11, <1>12, <1>13, <1>14, <1>15, <1>16, <1>17, <1>18, <1>19,
             <1>20, <1>21 DEF Next, CallerStep, ReaderStep, ServerStep

(* A new id is in nobody's hands; a reply is only sent by taking the entry *)
(* out, and the entry of an id is made once.                               *)
LEMMA NextTable == TypeOK /\ PipesOK /\ TableOK /\ [Next]_vars => TableOK'
  <1> SUFFICES ASSUME TypeOK /\ PipesOK /\ TableOK, [Next]_vars PROVE TableOK'
    OBVIOUS
  <1> USE RpcAssumption DEF TypeOK, PipesOK, TableOK, InFlight,
      Ids, callerVars, childVars, hostVars
  <1>1. ASSUME NEW c \in Callers, TakeId(c) PROVE TableOK'
    BY <1>1 DEF TakeId
  <1>2. ASSUME NEW c \in Callers, InsertPending(c) PROVE TableOK'
    BY <1>2 DEF InsertPending
  <1>3. ASSUME NEW c \in Callers, WriteRequest(c) PROVE TableOK'
    <2>1. pc' \in {[pc EXCEPT ![c] = "check"], [pc EXCEPT ![c] = "withdraw"]}
      BY <1>3 DEF WriteRequest
    <2>2. \A d \in Callers : InFlight(d)' = InFlight(d) /\ (pc'[d] = "insert" <=> pc[d] = "insert")
      BY <1>3, <2>1 DEF WriteRequest
    <2> QED BY <1>3, <2>2 DEF WriteRequest
  <1>4. ASSUME NEW c \in Callers, Withdraw(c) PROVE TableOK'
    BY <1>4 DEF Withdraw, Return
  <1>5. ASSUME NEW c \in Callers, CheckClosed(c) PROVE TableOK'
    BY <1>5 DEF CheckClosed
  <1>6. ASSUME NEW c \in Callers, Reclaim(c) PROVE TableOK'
    <2>1. CASE id[c] \in pending
      BY SMTT(30), <1>6, <2>1 DEF Reclaim, Return
    <2>2. CASE id[c] \notin pending
      <3>1. pc' = [pc EXCEPT ![c] = "receive"] /\ UNCHANGED <<nextId, pending, reply, id>>
        BY <1>6, <2>2 DEF Reclaim
      <3>2. \A d \in Callers : /\ InFlight(d)' = InFlight(d)
                               /\ pc'[d] = "insert" <=> pc[d] = "insert"
        BY <1>6, <3>1 DEF Reclaim
      <3> QED BY <3>1, <3>2
    <2> QED BY <2>1, <2>2
  <1>7. ASSUME NEW c \in Callers, Receive(c) PROVE TableOK'
    BY <1>7 DEF Receive, Return
  <1>8. CASE ReadMessage
    BY <1>8 DEF ReadMessage
  <1>9. CASE ReadEof
    BY <1>9 DEF ReadEof
  <1>10. CASE SetClosed
    BY <1>10 DEF SetClosed
  <1>11. CASE DrainPending
    BY <1>11 DEF DrainPending
  <1>12. CASE TakeIncoming
    BY <1>12 DEF TakeIncoming
  <1>13. CASE WriteReply
    BY <1>13 DEF WriteReply
  <1>14. CASE StopServing
    BY <1>14 DEF StopServing
  <1>15. CASE ChildReads
    BY <1>15 DEF ChildReads
  <1>16. ASSUME NEW n \in Ids, ChildAnswers(n) PROVE TableOK'
    BY <1>16 DEF ChildAnswers, ChildSends
  <1>17. CASE ChildCalls
    BY <1>17 DEF ChildCalls, ChildSends
  <1>18. CASE ChildGarbles
    BY <1>18 DEF ChildGarbles, ChildSends
  <1>19. CASE ChildClosesStdout
    BY <1>19 DEF ChildClosesStdout
  <1>20. CASE ChildEnds
    BY <1>20 DEF ChildEnds
  <1>21. CASE UNCHANGED vars
    BY <1>21 DEF vars
  <1> QED BY <1>1, <1>2, <1>3, <1>4, <1>5, <1>6, <1>7, <1>8, <1>9, <1>10,
             <1>11, <1>12, <1>13, <1>14, <1>15, <1>16, <1>17, <1>18, <1>19,
             <1>20, <1>21 DEF Next, CallerStep, ReaderStep, ServerStep

(* The two ways out of call that leave without a reply take the entry along; *)
(* a reply has taken it already, so an entry's call is still in flight.    *)
LEMMA NextLeaks == TypeOK /\ TableOK /\ NoEntryLeaks /\ [Next]_vars => NoEntryLeaks'
  <1> SUFFICES ASSUME TypeOK /\ TableOK /\ NoEntryLeaks, [Next]_vars PROVE NoEntryLeaks'
    OBVIOUS
  <1> USE RpcAssumption DEF TypeOK, TableOK, NoEntryLeaks, InFlight,
      Ids, callerVars, childVars, hostVars
  <1>1. ASSUME NEW c \in Callers, TakeId(c) PROVE NoEntryLeaks'
    BY <1>1 DEF TakeId
  <1>2. ASSUME NEW c \in Callers, InsertPending(c) PROVE NoEntryLeaks'
    BY <1>2 DEF InsertPending
  <1>3. ASSUME NEW c \in Callers, WriteRequest(c) PROVE NoEntryLeaks'
    BY <1>3 DEF WriteRequest
  <1>4. ASSUME NEW c \in Callers, Withdraw(c) PROVE NoEntryLeaks'
    BY <1>4 DEF Withdraw, Return
  <1>5. ASSUME NEW c \in Callers, CheckClosed(c) PROVE NoEntryLeaks'
    BY <1>5 DEF CheckClosed
  <1>6. ASSUME NEW c \in Callers, Reclaim(c) PROVE NoEntryLeaks'
    <2>1. CASE id[c] \in pending
      <3>1. /\ pending' = pending \ {id[c]} /\ id' = id
            /\ pc' = [pc EXCEPT ![c] = "idle"]
        BY <1>6, <2>1 DEF Reclaim, Return
      <3> QED BY <3>1
    <2>2. CASE id[c] \notin pending
      <3>1. pending' = pending /\ id' = id /\ pc' = [pc EXCEPT ![c] = "receive"]
        BY <1>6, <2>2 DEF Reclaim
      <3>2. \A d \in Callers : InFlight(d) => InFlight(d)'
        BY <3>1
      <3> QED BY <3>1, <3>2
    <2> QED BY <2>1, <2>2
  <1>7. ASSUME NEW c \in Callers, Receive(c) PROVE NoEntryLeaks'
    BY <1>7 DEF Receive, Return
  <1>8. CASE ReadMessage
    <2>1. pending' \subseteq pending /\ UNCHANGED <<id, pc>>
      BY <1>8 DEF ReadMessage
    <2> QED BY <2>1
  <1>9. CASE ReadEof
    BY <1>9 DEF ReadEof
  <1>10. CASE SetClosed
    BY <1>10 DEF SetClosed
  <1>11. CASE DrainPending
    BY <1>11 DEF DrainPending
  <1>12. CASE TakeIncoming
    BY <1>12 DEF TakeIncoming
  <1>13. CASE WriteReply
    BY <1>13 DEF WriteReply
  <1>14. CASE StopServing
    BY <1>14 DEF StopServing
  <1>15. CASE ChildReads
    BY <1>15 DEF ChildReads
  <1>16. ASSUME NEW n \in Ids, ChildAnswers(n) PROVE NoEntryLeaks'
    BY <1>16 DEF ChildAnswers, ChildSends
  <1>17. CASE ChildCalls
    BY <1>17 DEF ChildCalls, ChildSends
  <1>18. CASE ChildGarbles
    BY <1>18 DEF ChildGarbles, ChildSends
  <1>19. CASE ChildClosesStdout
    BY <1>19 DEF ChildClosesStdout
  <1>20. CASE ChildEnds
    BY <1>20 DEF ChildEnds
  <1>21. CASE UNCHANGED vars
    BY <1>21 DEF vars
  <1> QED BY <1>1, <1>2, <1>3, <1>4, <1>5, <1>6, <1>7, <1>8, <1>9, <1>10,
             <1>11, <1>12, <1>13, <1>14, <1>15, <1>16, <1>17, <1>18, <1>19,
             <1>20, <1>21 DEF Next, CallerStep, ReaderStep, ServerStep

(* The drain comes after closed is set, so whoever looks at closed after   *)
(* that entered the table before the drain or finds its entry still there. *)
LEMMA NextWake == TypeOK /\ PipesOK /\ TableOK /\ WakeOK /\ [Next]_vars => WakeOK'
  <1> SUFFICES ASSUME TypeOK /\ PipesOK /\ TableOK /\ WakeOK, [Next]_vars PROVE WakeOK'
    OBVIOUS
  <1> USE RpcAssumption DEF TypeOK, PipesOK, TableOK, WakeOK, WaitersAreWoken, InFlight,
      Ids, callerVars, childVars, hostVars
  <1>1. ASSUME NEW c \in Callers, TakeId(c) PROVE WakeOK'
    BY <1>1 DEF TakeId
  <1>2. ASSUME NEW c \in Callers, InsertPending(c) PROVE WakeOK'
    BY <1>2 DEF InsertPending
  <1>3. ASSUME NEW c \in Callers, WriteRequest(c) PROVE WakeOK'
    BY <1>3 DEF WriteRequest
  <1>4. ASSUME NEW c \in Callers, Withdraw(c) PROVE WakeOK'
    BY <1>4 DEF Withdraw, Return
  <1>5. ASSUME NEW c \in Callers, CheckClosed(c) PROVE WakeOK'
    BY <1>5 DEF CheckClosed
  <1>6. ASSUME NEW c \in Callers, Reclaim(c) PROVE WakeOK'
    <2>1. CASE id[c] \in pending
      BY <1>6, <2>1 DEF Reclaim, Return
    <2>2. CASE id[c] \notin pending
      BY <1>6, <2>2 DEF Reclaim
    <2> QED BY <2>1, <2>2
  <1>7. ASSUME NEW c \in Callers, Receive(c) PROVE WakeOK'
    BY <1>7 DEF Receive, Return
  <1>8. CASE ReadMessage
    <2>1. /\ UNCHANGED <<pc, id, closed>> /\ reader = "reading"
          /\ reader' \in {"reading", "closing"}
      BY <1>8 DEF ReadMessage
    <2>2. \A n \in Ids : n \in pending \/ reply[n] # "none" => n \in pending' \/ reply'[n] # "none"
      BY <1>8 DEF ReadMessage
    <2>3. \A c \in Callers : InFlight(c) => id[c] \in Ids
      OBVIOUS
    <2> QED BY <2>1, <2>2, <2>3
  <1>9. CASE ReadEof
    BY <1>9 DEF ReadEof
  <1>10. CASE SetClosed
    BY <1>10 DEF SetClosed
  <1>11. CASE DrainPending
    BY <1>11 DEF DrainPending
  <1>12. CASE TakeIncoming
    BY <1>12 DEF TakeIncoming
  <1>13. CASE WriteReply
    BY <1>13 DEF WriteReply
  <1>14. CASE StopServing
    BY <1>14 DEF StopServing
  <1>15. CASE ChildReads
    BY <1>15 DEF ChildReads
  <1>16. ASSUME NEW n \in Ids, ChildAnswers(n) PROVE WakeOK'
    BY <1>16 DEF ChildAnswers, ChildSends
  <1>17. CASE ChildCalls
    BY <1>17 DEF ChildCalls, ChildSends
  <1>18. CASE ChildGarbles
    BY <1>18 DEF ChildGarbles, ChildSends
  <1>19. CASE ChildClosesStdout
    BY <1>19 DEF ChildClosesStdout
  <1>20. CASE ChildEnds
    BY <1>20 DEF ChildEnds
  <1>21. CASE UNCHANGED vars
    BY <1>21 DEF vars
  <1> QED BY <1>1, <1>2, <1>3, <1>4, <1>5, <1>6, <1>7, <1>8, <1>9, <1>10,
             <1>11, <1>12, <1>13, <1>14, <1>15, <1>16, <1>17, <1>18, <1>19,
             <1>20, <1>21 DEF Next, CallerStep, ReaderStep, ServerStep

(* closed never becomes FALSE and stdin never TRUE again; an answer is sent *)
(* for a response, which PipesOK says the child gave.                      *)
LEMMA NextOutcome ==
  TypeOK /\ PipesOK /\ TableOK /\ WakeOK /\ OutcomeOK /\ [Next]_vars => OutcomeOK'
  <1> SUFFICES ASSUME TypeOK /\ PipesOK /\ TableOK /\ WakeOK /\ OutcomeOK, [Next]_vars
               PROVE  OutcomeOK'
    OBVIOUS
  <1> USE RpcAssumption DEF TypeOK, PipesOK, TableOK, WakeOK, WaitersAreWoken, OutcomeOK, InFlight,
      Ids, callerVars, childVars, hostVars
  <1>1. ASSUME NEW c \in Callers, TakeId(c) PROVE OutcomeOK'
    BY <1>1 DEF TakeId
  <1>2. ASSUME NEW c \in Callers, InsertPending(c) PROVE OutcomeOK'
    BY <1>2 DEF InsertPending
  <1>3. ASSUME NEW c \in Callers, WriteRequest(c) PROVE OutcomeOK'
    BY <1>3 DEF WriteRequest
  <1>4. ASSUME NEW c \in Callers, Withdraw(c) PROVE OutcomeOK'
    BY <1>4 DEF Withdraw, Return
  <1>5. ASSUME NEW c \in Callers, CheckClosed(c) PROVE OutcomeOK'
    BY <1>5 DEF CheckClosed
  <1>6. ASSUME NEW c \in Callers, Reclaim(c) PROVE OutcomeOK'
    <2>1. CASE id[c] \in pending
      <3>1. /\ pc' = [pc EXCEPT ![c] = "idle"]
            /\ result' = [result EXCEPT ![c] = "closed"]
            /\ UNCHANGED <<reply, closed, id, stdin, answered>>
            /\ closed
        BY <1>6, <2>1 DEF Reclaim, Return
      <3> QED BY <3>1
    <2>2. CASE id[c] \notin pending
      BY <1>6, <2>2 DEF Reclaim
    <2> QED BY <2>1, <2>2
  <1>7. ASSUME NEW c \in Callers, Receive(c) PROVE OutcomeOK'
    BY <1>7 DEF Receive, Return
  <1>8. CASE ReadMessage
    BY <1>8 DEF ReadMessage
  <1>9. CASE ReadEof
    BY <1>9 DEF ReadEof
  <1>10. CASE SetClosed
    BY <1>10 DEF SetClosed
  <1>11. CASE DrainPending
    BY <1>11 DEF DrainPending
  <1>12. CASE TakeIncoming
    BY <1>12 DEF TakeIncoming
  <1>13. CASE WriteReply
    BY <1>13 DEF WriteReply
  <1>14. CASE StopServing
    BY <1>14 DEF StopServing
  <1>15. CASE ChildReads
    BY <1>15 DEF ChildReads
  <1>16. ASSUME NEW n \in Ids, ChildAnswers(n) PROVE OutcomeOK'
    BY <1>16 DEF ChildAnswers, ChildSends
  <1>17. CASE ChildCalls
    BY <1>17 DEF ChildCalls, ChildSends
  <1>18. CASE ChildGarbles
    BY <1>18 DEF ChildGarbles, ChildSends
  <1>19. CASE ChildClosesStdout
    BY <1>19 DEF ChildClosesStdout
  <1>20. CASE ChildEnds
    BY <1>20 DEF ChildEnds
  <1>21. CASE UNCHANGED vars
    BY <1>21 DEF vars
  <1> QED BY <1>1, <1>2, <1>3, <1>4, <1>5, <1>6, <1>7, <1>8, <1>9, <1>10,
             <1>11, <1>12, <1>13, <1>14, <1>15, <1>16, <1>17, <1>18, <1>19,
             <1>20, <1>21 DEF Next, CallerStep, ReaderStep, ServerStep

-----------------------------------------------------------------------------
(* Nothing is in the pipes, the table or the channels at the start.        *)
LEMMA InitIInv == Init => IInv
  <1> SUFFICES ASSUME Init PROVE IInv
    OBVIOUS
  <1> USE RpcAssumption DEF Init, Ids
  <1>1. TypeOK
    <2>1. toChild \in Seq(Messages) /\ fromChild \in Seq(Messages)
      OBVIOUS
    <2>2. /\ nextId = 0 /\ 0 \in 0..MaxCalls /\ stray \in 0..MaxStray /\ incoming \in Nat
          /\ pending \subseteq 1..nextId /\ asked \subseteq 1..nextId
          /\ answered \subseteq 1..nextId
      OBVIOUS
    <2>3. closed \in BOOLEAN /\ stdin \in BOOLEAN /\ stdout \in BOOLEAN
      OBVIOUS
    <2>4. /\ reply \in [Ids -> {"none", "answer", "closed"}]
          /\ result \in [Callers -> {"none", "answer", "closed", "unwritten"}]
          /\ pc \in [Callers -> {"idle", "insert", "write", "withdraw", "check",
                                 "reclaim", "receive"}]
      OBVIOUS
    <2>5. id \in [Callers -> 0..nextId]
      OBVIOUS
    <2>6. /\ reader \in {"reading", "closing", "draining", "ended"}
          /\ server \in {"waiting", "replying", "ended"}
      OBVIOUS
    <2> QED BY ONLY <2>1, <2>2, <2>3, <2>4, <2>5, <2>6 DEF TypeOK
  <1>2. PipesOK /\ TableOK /\ NoEntryLeaks
    BY DEF PipesOK, TableOK, NoEntryLeaks, InFlight
  <1>3. WakeOK /\ OutcomeOK
    BY DEF WakeOK, WaitersAreWoken, OutcomeOK, InFlight
  <1> QED BY <1>1, <1>2, <1>3 DEF IInv

(* The conjuncts lean on one another, so only all of them are inductive.   *)
LEMMA NextIInv == IInv /\ [Next]_vars => IInv'
  BY NextType, NextPipes, NextTable, NextLeaks, NextWake, NextOutcome DEF IInv

(* IInv holds in every state of every behaviour.                           *)
LEMMA Inductive == Spec => []IInv
  BY InitIInv, NextIInv, PTL DEF Spec

(* An error is only returned once the connection has broken.               *)
LEMMA OutcomesExplained == IInv => NoSpuriousOutcome
  BY DEF IInv, OutcomeOK, NoSpuriousOutcome, Broken

(* The threads never put a value of another type anywhere.                 *)
THEOREM RpcTypeCorrect == Spec => []TypeOK
  <1>1. IInv => TypeOK
    BY DEF IInv
  <1> QED BY Inductive, <1>1, PTL

(* No call is left waiting that nobody will wake, however call and the     *)
(* drain interleave.                                                       *)
THEOREM NoLostWakeup == Spec => []WaitersAreWoken
  <1>1. IInv => WaitersAreWoken
    BY DEF IInv, WakeOK
  <1> QED BY Inductive, <1>1, PTL

(* Every entry of the table belongs to a call in flight.                   *)
THEOREM TableIsBounded == Spec => []NoEntryLeaks
  <1>1. IInv => NoEntryLeaks
    BY DEF IInv
  <1> QED BY Inductive, <1>1, PTL

(* A call returns its own answer, or an error of a broken connection.      *)
THEOREM OutcomesAreTrue == Spec => []NoSpuriousOutcome
  BY Inductive, OutcomesExplained, PTL

(* No channel is sent to twice.                                            *)
THEOREM OneReply == Spec => OneReplyPerCall
  <1>1. IInv /\ [Next]_vars => [\A n \in Ids : reply[n] # "none" => reply'[n] = reply[n]]_vars
    <2> SUFFICES ASSUME IInv, Next, NEW n \in Ids, reply[n] # "none"
                 PROVE  reply'[n] = reply[n]
      BY DEF vars
    <2>1. reply \in [Ids -> {"none", "answer", "closed"}] /\ n \notin pending
      BY DEF IInv, TypeOK, TableOK
    <2>2. CASE ReadMessage
      BY <2>1, <2>2 DEF ReadMessage
    <2>3. CASE DrainPending
      BY <2>1, <2>3 DEF DrainPending
    <2>4. CASE reply' = reply
      BY <2>4
    <2> QED BY <2>2, <2>3, <2>4
         DEF Next, TakeId, CallerStep, InsertPending, WriteRequest, Withdraw, CheckClosed,
             Reclaim, Receive, ReaderStep, ReadEof, SetClosed, ServerStep, TakeIncoming,
             WriteReply, StopServing, ChildReads, ChildAnswers, ChildCalls, ChildGarbles,
             ChildSends, ChildClosesStdout, ChildEnds, hostVars
  <1> QED BY Inductive, <1>1, PTL DEF Spec, OneReplyPerCall

-----------------------------------------------------------------------------
(* The refinement.  Once broken a connection stays so, and only the child  *)
(* and the reader break it.                                                *)
LEMMA BrokenStays == IInv /\ [Next]_vars /\ Broken => Broken'
  <1> SUFFICES ASSUME IInv, [Next]_vars, Broken PROVE Broken'
    OBVIOUS
  <1>1. ~stdin \/ ~stdout \/ reader # "reading" \/ closed =>
          ~stdin' \/ ~stdout' \/ reader' # "reading" \/ closed'
    BY DEF vars, Next, TakeId, CallerStep,
           InsertPending, WriteRequest, Withdraw, CheckClosed,
           Reclaim, Receive, Return, ReaderStep, ReadMessage, ReadEof, SetClosed, DrainPending,
           ServerStep, TakeIncoming, WriteReply, StopServing, ChildReads, ChildAnswers,
           ChildCalls, ChildGarbles, ChildSends, ChildClosesStdout, ChildEnds,
           hostVars, callerVars, childVars
  <1>2. ASSUME NEW i \in 1..Len(fromChild), fromChild[i].kind = "garbage" PROVE Broken'
    <2>1. fromChild \in Seq(Messages) /\ Len(fromChild) \in Nat
      BY DEF IInv, TypeOK
    <2>2. CASE fromChild' = fromChild
      BY <1>2, <2>2 DEF Broken
    <2>3. ASSUME NEW m \in Messages, fromChild' = Append(fromChild, m) PROVE Broken'
      <3>1. i \in 1..Len(fromChild') /\ fromChild'[i] = fromChild[i]
        BY <2>1, <2>3, Appended
      <3> QED BY <1>2, <3>1 DEF Broken
    <2>4. CASE ReadMessage
      <3>1. fromChild # <<>> /\ fromChild' = Tail(fromChild)
        BY <2>4 DEF ReadMessage
      <3>2. CASE i = 1
        <4>1. Head(fromChild).kind = "garbage"
          BY <1>2, <3>1, <3>2, ReaderHead DEF IInv
        <4>2. reader' = "closing"
          BY <2>4, <4>1 DEF ReadMessage
        <4> QED BY <4>2 DEF Broken
      <3>3. CASE i # 1
        <4>1. i - 1 \in 1..Len(fromChild') /\ fromChild'[i - 1] = fromChild[i]
          BY <2>1, <3>1, <3>3, ReaderHead DEF IInv
        <4> QED BY <1>2, <4>1 DEF Broken
      <3> QED BY <3>2, <3>3
    <2>5. \/ fromChild' = fromChild
          \/ ReadMessage
          \/ \E m \in Messages : fromChild' = Append(fromChild, m)
      <3>1. \A n \in Ids : Response(n) \in Messages
        BY MessageKinds, RpcAssumption DEF Ids
      <3>2. Request(0) \in Messages /\ Garbage \in Messages
        BY MessageKinds, RpcAssumption
      <3> QED BY <3>1, <3>2 DEF vars, Next, TakeId, CallerStep,
           InsertPending, WriteRequest, Withdraw, CheckClosed,
           Reclaim, Receive, Return, ReaderStep, ReadMessage, ReadEof, SetClosed, DrainPending,
           ServerStep, TakeIncoming, WriteReply, StopServing, ChildReads, ChildAnswers,
           ChildCalls, ChildGarbles, ChildSends, ChildClosesStdout, ChildEnds,
           hostVars, callerVars, childVars
    <2> QED BY <2>2, <2>3, <2>4, <2>5
  <1> QED BY <1>1, <1>2 DEF Broken

(* A step that touches no call and no answer is a stutter or the break.    *)
LEMMA QuietStep ==
  ASSUME Broken => Broken', UNCHANGED <<nextId, id, answered>>,
         \A c \in Callers : InFlight(c)' = InFlight(c)
  PROVE  [Abstract!Next]_(Abstract!vars)
  <1>1. [c \in Callers |-> IF InFlight(c) THEN id[c] ELSE 0]' =
        [c \in Callers |-> IF InFlight(c) THEN id[c] ELSE 0]
    OBVIOUS
  <1>2. CASE Broken'
    BY <1>1, <1>2 DEF Abstract!Next, Abstract!Break
  <1>3. CASE ~Broken'
    <2>1. Broken' = Broken
      BY <1>3 DEF Broken
    <2> QED BY <1>1, <2>1 DEF Abstract!vars
  <1> QED BY <1>2, <1>3

(* The end of a call is the return RpcCalls allows.                        *)
LEMMA ReturnStep ==
  ASSUME IInv, NEW c \in Callers, InFlight(c), pc' = [pc EXCEPT ![c] = "idle"],
         id[c] \in answered \/ Broken, Broken' = Broken,
         UNCHANGED <<nextId, id, answered>>
  PROVE  Abstract!Next
  <1>1. id[c] # 0
    <2>1. nextId \in Nat /\ id[c] \in 1..nextId
      BY RpcAssumption DEF IInv, TypeOK, TableOK
    <2> QED BY <2>1
  <1>2. [d \in Callers |-> IF InFlight(d) THEN id[d] ELSE 0]' =
        [[d \in Callers |-> IF InFlight(d) THEN id[d] ELSE 0] EXCEPT ![c] = 0]
    <2>1. pc \in [Callers -> {"idle", "insert", "write", "withdraw", "check",
                             "reclaim", "receive"}]
      BY DEF IInv, TypeOK
    <2> QED BY <2>1 DEF InFlight
  <1>3. Abstract!Return(c)
    BY <1>1, <1>2 DEF Abstract!Return
  <1> QED BY <1>3 DEF Abstract!Next

(* Withdraw, Reclaim of an entry and Receive are the returns of RpcCalls,  *)
(* TakeId its call, ChildAnswers its answer; all else is the break or unseen. *)
LEMMA NextRefines == IInv /\ [Next]_vars => [Abstract!Next]_(Abstract!vars)
  <1> SUFFICES ASSUME IInv, [Next]_vars PROVE [Abstract!Next]_(Abstract!vars)
    OBVIOUS
  <1>0. /\ Broken => Broken'
        /\ UNCHANGED <<stdin, stdout, reader, closed, fromChild>> => Broken' = Broken
    BY BrokenStays DEF Broken
  <1>1. ASSUME NEW c \in Callers, TakeId(c) PROVE Abstract!Next
    <2>1. /\ pc[c] = "idle" /\ nextId < MaxCalls /\ nextId' = nextId + 1 /\ answered' = answered
          /\ id' = [id EXCEPT ![c] = nextId + 1] /\ pc' = [pc EXCEPT ![c] = "insert"]
          /\ Broken' = Broken
      BY <1>0, <1>1 DEF TakeId, childVars
    <2>2. [d \in Callers |-> IF InFlight(d) THEN id[d] ELSE 0]' =
          [[d \in Callers |-> IF InFlight(d) THEN id[d] ELSE 0] EXCEPT ![c] = nextId + 1]
      BY <2>1 DEF IInv, TypeOK, InFlight
    <2>3. Abstract!Call(c)
      BY <2>1, <2>2 DEF Abstract!Call, InFlight
    <2> QED BY <2>3 DEF Abstract!Next
  <1>2. ASSUME NEW c \in Callers, Withdraw(c) PROVE Abstract!Next
    <2>1. Broken
      BY <1>2 DEF Withdraw, IInv, OutcomeOK, Broken
    <2> QED BY <1>0, <1>2, <2>1, ReturnStep DEF Withdraw, Return, InFlight, childVars
  <1>3. ASSUME NEW c \in Callers, Reclaim(c), id[c] \in pending PROVE Abstract!Next
    <2>1. Broken
      BY <1>3 DEF Reclaim, IInv, OutcomeOK, Broken
    <2> QED BY <1>0, <1>3, <2>1, ReturnStep DEF Reclaim, Return, InFlight, childVars
  <1>4. ASSUME NEW c \in Callers, Receive(c) PROVE Abstract!Next
    <2>1. id[c] \in Ids /\ reply[id[c]] \in {"answer", "closed"}
      BY <1>4, RpcAssumption
         DEF Receive, IInv, TypeOK, TableOK, WakeOK, WaitersAreWoken, InFlight, Ids
    <2>2. id[c] \in answered \/ Broken
      BY <2>1 DEF IInv, OutcomeOK, Broken
    <2> QED BY <1>0, <1>4, <2>2, ReturnStep DEF Receive, Return, InFlight, childVars
  <1>5. ASSUME NEW n \in Ids, ChildAnswers(n) PROVE Abstract!Next
    <2>1. /\ n \in 1..nextId /\ answered' = answered \cup {n}
          /\ fromChild' = Append(fromChild, Response(n))
          /\ UNCHANGED <<nextId, id, pc, stdin, stdout, reader, closed>>
      BY <1>5 DEF ChildAnswers, ChildSends, hostVars, callerVars, IInv, TypeOK
    <2>2. Broken' => Broken
      <3>1. \A i \in 1..Len(fromChild') : fromChild'[i].kind = "garbage" =>
              i \in 1..Len(fromChild) /\ fromChild'[i] = fromChild[i]
        <4>1. fromChild \in Seq(Messages) /\ Len(fromChild) \in Nat
          BY DEF IInv, TypeOK
        <4>2. Response(n) \in Messages /\ Response(n).kind = "response"
          BY MessageKinds, RpcAssumption DEF Ids
        <4> QED BY <2>1, <4>1, <4>2, Appended
      <3> QED BY <2>1, <3>1 DEF Broken
    <2>3. Abstract!Answer(n)
      BY <1>0, <2>1, <2>2 DEF Abstract!Answer, InFlight, Broken
    <2> QED BY <2>1, <2>3 DEF Abstract!Next
  <1>6. CASE /\ UNCHANGED <<nextId, id, answered>>
             /\ \A c \in Callers : InFlight(c)' = InFlight(c)
    BY <1>0, <1>6, QuietStep
  <1>7. ASSUME NEW c \in Callers,
               \/ InsertPending(c) \/ WriteRequest(c) \/ CheckClosed(c)
               \/ Reclaim(c) /\ id[c] \notin pending
        PROVE  /\ UNCHANGED <<nextId, id, answered>>
               /\ \A d \in Callers : InFlight(d)' = InFlight(d)
    <2>1. /\ UNCHANGED <<nextId, id, answered>> /\ InFlight(c)
          /\ \E p \in {"write", "check", "withdraw", "reclaim", "receive"} :
               pc' = [pc EXCEPT ![c] = p]
      BY <1>7 DEF InsertPending, WriteRequest, CheckClosed, Reclaim, childVars, InFlight
    <2> QED BY <2>1 DEF InFlight, IInv, TypeOK
  <1>8. CASE \/ ReaderStep \/ ServerStep \/ ChildReads \/ ChildCalls \/ ChildGarbles
             \/ ChildClosesStdout \/ ChildEnds \/ UNCHANGED vars
    <2>1. UNCHANGED <<nextId, id, pc, answered>>
      BY <1>8 DEF vars, Next, TakeId, CallerStep,
           InsertPending, WriteRequest, Withdraw, CheckClosed,
           Reclaim, Receive, Return, ReaderStep, ReadMessage, ReadEof, SetClosed, DrainPending,
           ServerStep, TakeIncoming, WriteReply, StopServing, ChildReads, ChildAnswers,
           ChildCalls, ChildGarbles, ChildSends, ChildClosesStdout, ChildEnds,
           hostVars, callerVars, childVars
    <2> QED BY <1>6, <2>1 DEF InFlight
  <1> QED BY <1>1, <1>2, <1>3, <1>4, <1>5, <1>6, <1>7, <1>8 DEF Next, CallerStep

(* At the start nobody waits and nothing is broken.                        *)
LEMMA InitRefines == Init => Abstract!Init
  BY DEF Init, Abstract!Init, InFlight, Broken

(* The threads implement RpcCalls: its initial state and its steps.        *)
THEOREM ImplementsRpcCalls == Spec => Abstract!Init /\ [][Abstract!Next]_(Abstract!vars)
  BY Inductive, InitRefines, NextRefines, PTL DEF Spec
=============================================================================
