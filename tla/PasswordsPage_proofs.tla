------------------------- MODULE PasswordsPage_proofs ------------------------
(***************************************************************************)
(* Proofs about PasswordsPage, for any logins, passwords and number of     *)
(* calls under way: a password that is on its way, kept or shown belongs   *)
(* to the login it is with, and a deleted login is gone for good.          *)
(***************************************************************************)
EXTENDS PasswordsPage, TLAPS, FiniteSetTheorems, SequenceTheorems, WellFoundedInduction

Kept == Passwords \cup {Blank}

-----------------------------------------------------------------------------
(* The inductive invariant, of the passwords o given to the rows and the   *)
(* next id n.                                                              *)

(* The rows the stores can have told of: the vault gave their ids.         *)
Known(n) == {row \in Rows : Local(row) => row[2] < n}

(* The passwords a row may come with.                                      *)
Theirs(o, row) == o[row] \cup {Blank}

(* What the page asks for a row, it was told of, and the password it sends *)
(* with it is that row's.                                                  *)
RequestOK(c, o, n) ==
  /\ c.method \in {"reveal", "update", "delete"} => c.params.row \in Known(n)
  /\ c.method = "update" => c.params.password \in Theirs(o, c.params.row)

(* What comes back is of that row as well.                                 *)
AnswerOK(c, o, n) ==
  /\ c.then = "load" => c.reply.rows \subseteq Known(n)
  /\ c.then \in {"show", "edit"} =>
       c.reply.row \in Known(n) /\ c.reply.password \in Theirs(o, c.reply.row)

CallOK(c, o, n) ==
  \/ c = NoCall
  \/ c \in Requests /\ RequestOK(c, o, n)
  \/ c \in Answers /\ AnswerOK(c, o, n)

(* The server's thread waits for one reply at a time.                      *)
Handled(c) == c # NoCall /\ c.stage = "handled"

CallsOK(cs, o, n) ==
  /\ cs \in [Slots -> Requests \cup Answers \cup {NoCall}]
  /\ \A s \in Slots : CallOK(cs[s], o, n)
  /\ \A s, t \in Slots : Handled(cs[s]) /\ Handled(cs[t]) => s = t

(* Each call that adds a login has an id left for it.                      *)
Adds(c) == c # NoCall /\ c.stage \in {"sent", "handled"} /\ c.method = "add"
AddingOf(cs) == {s \in Slots : Adds(cs[s])}
IdsLeft(cs, n) == n \in 1..(MaxId + 1) /\ n + Cardinality(AddingOf(cs)) =< MaxId + 1

(* A login holds what it was given, and none is deleted.                   *)
StoresOK ==
  /\ unlocked \in BOOLEAN /\ bitwarden \in BOOLEAN
  /\ DOMAIN logins \subseteq Known(nextId)
  /\ \A row \in DOMAIN logins : logins[row] \in Kept \cap Theirs(own, row)
  /\ own \in [Rows -> SUBSET Kept]
  /\ deleted \subseteq Known(nextId) /\ DOMAIN logins \cap deleted = {}

(* The page shows and keeps what it was told.                              *)
PageOK ==
  /\ locked \in BOOLEAN /\ entries \subseteq Known(nextId)
  /\ revealed \in [Rows -> Kept]
  /\ \A row \in Rows : revealed[row] \in Theirs(own, row)
  /\ form \in [row : Rows \cup {NewLogin}, current : Kept, shown : BOOLEAN]
  /\ form.row # NewLogin => form.row \in Known(nextId) /\ form.current \in Theirs(own, form.row)

IInv == CallsOK(calls, own, nextId) /\ IdsLeft(calls, nextId) /\ StoresOK /\ PageOK

-----------------------------------------------------------------------------
(* Calls.                                                                  *)

(* The row for a new login is none of a store.                             *)
LEMMA NewLoginIsNoRow == NewLogin \notin Rows
  BY SavedAssumption DEF NewLogin, Rows

(* The calls of each method, and the answers to each.                      *)
RequestForm(c) ==
  /\ c.stage \in {"sent", "handled"}
  /\ c = [stage |-> c.stage, method |-> c.method, params |-> c.params, then |-> c.then]
  /\ c.method \in {"list", "reveal", "add", "update", "delete"}
  /\ c.method \in {"reveal", "delete"} => c.params \in [row : Rows]
  /\ c.method = "add" => c.params \in [password : Kept]
  /\ c.method = "update" => c.params \in [row : Rows, password : Kept]
  /\ c.then # "nothing" =>
       \/ c.method = "list" /\ c.then = "load"
       \/ c.method = "reveal" /\ c.then \in {"show", "edit"}
       \/ c.method \in {"add", "update"} /\ c.then = "close"
       \/ c.method = "delete" /\ c.then = "reload"
AnswerForm(c) ==
  /\ c.stage = "returned"
  /\ c.then \in {"load", "show", "edit", "close", "reload", "nothing"}
  /\ c.then = "load" => c.reply \in [locked : BOOLEAN, rows : SUBSET Rows]
  /\ c.then \in {"show", "edit"} => c.reply \in [row : Rows, password : Kept]
  /\ c.then \in {"close", "reload"} => c.ok \in BOOLEAN

(* A call under way has one of these forms, by its stage.                  *)
LEMMA RequestForms ==
  ASSUME NEW c
  PROVE  /\ c \in Requests => c # NoCall /\ RequestForm(c)
         /\ c \in Answers => c # NoCall /\ AnswerForm(c)
  <1>1. ASSUME c \in Requests PROVE RequestForm(c)
    <2>1. CASE c \in RequestsFor("list", {NoCall}, {"load"})
      BY <2>1 DEF RequestsFor, RequestForm
    <2>2. CASE c \in RequestsFor("reveal", [row : Rows], {"show", "edit"})
      BY <2>2 DEF RequestsFor, RequestForm
    <2>3. CASE c \in RequestsFor("add", [password : Kept], {"close"})
      BY <2>3 DEF RequestsFor, RequestForm
    <2>4. CASE c \in RequestsFor("update", [row : Rows, password : Kept], {"close"})
      BY <2>4 DEF RequestsFor, RequestForm
    <2>5. CASE c \in RequestsFor("delete", [row : Rows], {"reload"})
      BY <2>5 DEF RequestsFor, RequestForm
    <2> QED BY <1>1, <2>1, <2>2, <2>3, <2>4, <2>5 DEF Requests, Kept
  <1>2. ASSUME c \in Answers PROVE AnswerForm(c)
    <2> DEFINE lists == [locked : BOOLEAN, rows : SUBSET Rows]
               reveals == [row : Rows, password : Kept]
    <2>1. CASE c \in AnswersTo({"load"}, {TRUE}, lists)
      BY <2>1 DEF AnswersTo, AnswerForm
    <2>2. CASE c \in AnswersTo({"show", "edit"}, {TRUE}, reveals)
      BY <2>2 DEF AnswersTo, AnswerForm
    <2>3. CASE c \in AnswersTo({"close", "reload"}, BOOLEAN, {NoCall})
      BY <2>3 DEF AnswersTo, AnswerForm
    <2>4. CASE c \in AnswersTo({"nothing"}, BOOLEAN, lists \cup reveals \cup {NoCall})
      <3> HIDE DEF lists, reveals
      <3> QED BY <2>4 DEF AnswersTo, AnswerForm
    <2> HIDE DEF lists, reveals
    <2> QED BY <1>2, <2>1, <2>2, <2>3, <2>4 DEF Answers, Kept, lists, reveals
  <1>3. c \in Requests \cup Answers => c # NoCall
    BY CallsAssumption
  <1> QED BY <1>1, <1>2, <1>3

(* The page puts a call in some slot that is free.                         *)
LEMMA WithSlot ==
  ASSUME NEW cs, NEW call, \E s \in Slots : cs[s] = NoCall
  PROVE  \E s \in Slots : cs[s] = NoCall /\ With(cs, call) = [cs EXCEPT ![s] = call]
  <1> DEFINE free == {s \in Slots : cs[s] = NoCall}
             R == {ss \in Nat \X Nat : ss[1] < ss[2]}
  <1>1. free # {} /\ free \subseteq Nat
    BY DEF Slots
  <1>2. IsWellFoundedOn(R, Nat)
    BY NatLessThanWellFounded DEF OpToRel
  <1>3. \A x, y \in Nat : y < x => <<y, x>> \in R
    OBVIOUS
  <1> HIDE DEF free, R
  <1>4. PICK m \in free : \A t \in free : ~(<<t, m>> \in R)
    BY <1>1, <1>2, WFMin
  <1>5. ASSUME NEW t \in free PROVE m =< t
    <2>1. m \in Nat /\ t \in Nat
      BY <1>1
    <2>2. ~(t < m)
      BY <1>3, <1>4, <2>1
    <2> QED BY <2>1, <2>2
  <1>6. (CHOOSE s \in free : \A t \in free : s =< t) \in free
    BY <1>4, <1>5
  <1> QED BY <1>6 DEF With, free

(* A request stays one when it is taken, and when it is given up.          *)
LEMMA RequestStays ==
  ASSUME NEW c \in Requests
  PROVE  /\ [c EXCEPT !.stage = "handled"] \in Requests
         /\ [c EXCEPT !.then = "nothing"] \in Requests
  <1>1. CASE c \in RequestsFor("list", {NoCall}, {"load"})
    BY <1>1 DEF RequestsFor, Requests
  <1>2. CASE c \in RequestsFor("reveal", [row : Rows], {"show", "edit"})
    BY <1>2 DEF RequestsFor, Requests
  <1>3. CASE c \in RequestsFor("add", [password : Kept], {"close"})
    BY <1>3 DEF RequestsFor, Requests, Kept
  <1>4. CASE c \in RequestsFor("update", [row : Rows, password : Kept], {"close"})
    BY <1>4 DEF RequestsFor, Requests, Kept
  <1>5. CASE c \in RequestsFor("delete", [row : Rows], {"reload"})
    BY <1>5 DEF RequestsFor, Requests
  <1> QED BY <1>1, <1>2, <1>3, <1>4, <1>5 DEF Requests, Kept

(* The calls the page makes are requests.                                  *)
LEMMA CallsMade ==
  ASSUME NEW row \in Rows, NEW password \in Kept
  PROVE  /\ Load \in Requests
         /\ \A then \in {"show", "edit"} : Call("reveal", [row |-> row], then) \in Requests
         /\ Call("add", [password |-> password], "close") \in Requests
         /\ Call("update", [row |-> row, password |-> password], "close") \in Requests
         /\ Call("delete", [row |-> row], "reload") \in Requests
  <1>1. Load \in RequestsFor("list", {NoCall}, {"load"})
    BY DEF Load, Call, RequestsFor
  <1>2. \A then \in {"show", "edit"} :
          Call("reveal", [row |-> row], then) \in RequestsFor("reveal", [row : Rows], {"show", "edit"})
    BY DEF Call, RequestsFor
  <1>3. Call("add", [password |-> password], "close") \in RequestsFor("add", [password : Kept], {"close"})
    BY DEF Call, RequestsFor
  <1>4. Call("update", [row |-> row, password |-> password], "close")
          \in RequestsFor("update", [row : Rows, password : Kept], {"close"})
    BY DEF Call, RequestsFor
  <1>5. Call("delete", [row |-> row], "reload") \in RequestsFor("delete", [row : Rows], {"reload"})
    BY DEF Call, RequestsFor
  <1> QED BY <1>1, <1>2, <1>3, <1>4, <1>5 DEF Requests, Kept

(* The answers of the handlers are answers, looked at or not.              *)
LEMMA AnswersMade ==
  LET lists == [locked : BOOLEAN, rows : SUBSET Rows]
      reveals == [row : Rows, password : Kept]
  IN /\ AnswersTo({"load"}, {TRUE}, lists) \subseteq Answers
     /\ AnswersTo({"show", "edit"}, {TRUE}, reveals) \subseteq Answers
     /\ AnswersTo({"close", "reload"}, BOOLEAN, {NoCall}) \subseteq Answers
     /\ AnswersTo({"nothing"}, BOOLEAN, lists \cup reveals \cup {NoCall}) \subseteq Answers
  BY DEF Answers, Kept

(* The answer of passwords_list is one.                                    *)
LEMMA ListAnswer ==
  ASSUME NEW reply \in [locked : BOOLEAN, rows : SUBSET Rows], NEW then \in {"load", "nothing"},
         NEW c, c = [stage |-> "returned", then |-> then, ok |-> TRUE, reply |-> reply]
  PROVE  c \in Answers
  <1> DEFINE lists == [locked : BOOLEAN, rows : SUBSET Rows]
             reveals == [row : Rows, password : Kept]
  <1>1. reply \in lists
    OBVIOUS
  <1> HIDE DEF lists, reveals
  <1>2. c \in AnswersTo({"load"}, {TRUE}, lists)
          \/ c \in AnswersTo({"nothing"}, BOOLEAN, lists \cup reveals \cup {NoCall})
    BY <1>1 DEF AnswersTo
  <1> QED BY <1>2, AnswersMade DEF lists, reveals

(* And that of passwords_reveal.                                           *)
LEMMA RevealAnswer ==
  ASSUME NEW reply \in [row : Rows, password : Kept], NEW then \in {"show", "edit", "nothing"},
         NEW c, c = [stage |-> "returned", then |-> then, ok |-> TRUE, reply |-> reply]
  PROVE  c \in Answers
  <1> DEFINE lists == [locked : BOOLEAN, rows : SUBSET Rows]
             reveals == [row : Rows, password : Kept]
  <1>1. reply \in reveals
    OBVIOUS
  <1> HIDE DEF lists, reveals
  <1>2. c \in AnswersTo({"show", "edit"}, {TRUE}, reveals)
          \/ c \in AnswersTo({"nothing"}, BOOLEAN, lists \cup reveals \cup {NoCall})
    BY <1>1 DEF AnswersTo
  <1> QED BY <1>2, AnswersMade DEF lists, reveals

(* And those of the three that change a login.                             *)
LEMMA ChangeAnswer ==
  ASSUME NEW ok \in BOOLEAN, NEW then \in {"close", "reload", "nothing"},
         NEW c, c = [stage |-> "returned", then |-> then, ok |-> ok, reply |-> NoCall]
  PROVE  c \in Answers
  <1> DEFINE lists == [locked : BOOLEAN, rows : SUBSET Rows]
             reveals == [row : Rows, password : Kept]
  <1> HIDE DEF lists, reveals
  <1>2. c \in AnswersTo({"close", "reload"}, BOOLEAN, {NoCall})
          \/ c \in AnswersTo({"nothing"}, BOOLEAN, lists \cup reveals \cup {NoCall})
    BY DEF AnswersTo
  <1> QED BY <1>2, AnswersMade DEF lists, reveals

(* What was right stays so as passwords and ids are given.                 *)
LEMMA CallsGrow ==
  ASSUME NEW cs, NEW o, NEW p, NEW n \in Nat, NEW m \in Nat, n =< m,
         \A row \in Rows : o[row] \subseteq p[row], CallsOK(cs, o, n)
  PROVE  CallsOK(cs, p, m) /\ Known(n) \subseteq Known(m)
         /\ \A row \in Rows : Theirs(o, row) \subseteq Theirs(p, row)
  <1>1. Known(n) \subseteq Known(m)
    BY DEF Known, Rows, Local
  <1>2. \A row \in Rows : Theirs(o, row) \subseteq Theirs(p, row)
    BY DEF Theirs
  <1>3. ASSUME NEW s \in Slots PROVE CallOK(cs[s], p, m)
    <2> DEFINE c == cs[s]
    <2>1. CallOK(c, o, n)
      BY DEF CallsOK
    <2> HIDE DEF c
    <2>2. CASE c \in Requests /\ RequestOK(c, o, n)
      <3>1. RequestForm(c)
        BY <2>2, RequestForms
      <3>2. c.method \in {"reveal", "update", "delete"} => c.params.row \in Rows
        <4>1. CASE c.method \in {"reveal", "delete"}
          <5>1. c.params \in [row : Rows]
            BY <3>1, <4>1 DEF RequestForm
          <5> QED BY <5>1
        <4>2. CASE c.method = "update"
          <5>1. c.params \in [row : Rows, password : Kept]
            BY <3>1, <4>2 DEF RequestForm
          <5> QED BY <5>1
        <4> QED BY <4>1, <4>2
      <3>3. RequestOK(c, p, m)
        BY <1>1, <1>2, <2>2, <3>2 DEF RequestOK
      <3> QED BY <2>2, <3>3 DEF CallOK, c
    <2>3. CASE c \in Answers /\ AnswerOK(c, o, n)
      <3>1. AnswerForm(c)
        BY <2>3, RequestForms
      <3>2. c.then \in {"show", "edit"} => c.reply.row \in Rows
        BY <3>1 DEF AnswerForm
      <3>3. AnswerOK(c, p, m)
        BY <1>1, <1>2, <2>3, <3>2 DEF AnswerOK
      <3> QED BY <2>3, <3>3 DEF CallOK, c
    <2> QED BY <2>1, <2>2, <2>3 DEF CallOK, c
  <1> QED BY <1>1, <1>2, <1>3 DEF CallsOK

(* A slot gets another call, or none.                                      *)
LEMMA PutOK ==
  ASSUME NEW cs, NEW o, NEW n, CallsOK(cs, o, n), NEW s \in Slots, NEW c, CallOK(c, o, n),
         Handled(c) => \A t \in Slots : ~Handled(cs[t]),
         NEW ds, ds = [cs EXCEPT ![s] = c]
  PROVE  /\ CallsOK(ds, o, n)
         /\ ds[s] = c /\ \A t \in Slots \ {s} : ds[t] = cs[t]
  <1>1. cs \in [Slots -> Requests \cup Answers \cup {NoCall}]
    BY DEF CallsOK
  <1>2. c \in Requests \cup Answers \cup {NoCall}
    BY DEF CallOK
  <1>3. /\ ds \in [Slots -> Requests \cup Answers \cup {NoCall}]
        /\ ds[s] = c /\ \A t \in Slots \ {s} : ds[t] = cs[t]
    BY <1>1, <1>2
  <1>4. CallsOK(ds, o, n)
    BY <1>3 DEF CallsOK
  <1> QED BY <1>3, <1>4

(* The calls that add can be counted, and one more or less of them.        *)
LEMMA AddingCount ==
  ASSUME NEW cs, NEW s \in Slots
  PROVE  /\ IsFiniteSet(AddingOf(cs)) /\ Cardinality(AddingOf(cs)) \in Nat
         /\ Cardinality(AddingOf(cs) \ {s}) \in Nat
         /\ Cardinality(AddingOf(cs) \cup {s}) \in Nat
         /\ Cardinality(AddingOf(cs) \ {s}) =
              IF Adds(cs[s]) THEN Cardinality(AddingOf(cs)) - 1 ELSE Cardinality(AddingOf(cs))
         /\ Cardinality(AddingOf(cs) \cup {s}) =
              IF Adds(cs[s]) THEN Cardinality(AddingOf(cs)) ELSE Cardinality(AddingOf(cs)) + 1
  <1> DEFINE A == AddingOf(cs)
  <1>1. IsFiniteSet(Slots)
    BY CallsAssumption, FS_Interval DEF Slots
  <1>2. A \subseteq Slots /\ (s \in A <=> Adds(cs[s]))
    BY DEF AddingOf
  <1> HIDE DEF A
  <1>3. IsFiniteSet(A)
    BY <1>1, <1>2, FS_Subset
  <1>4. /\ IsFiniteSet(A \ {s}) /\ IsFiniteSet(A \cup {s})
        /\ Cardinality(A \ {s}) = IF s \in A THEN Cardinality(A) - 1 ELSE Cardinality(A)
        /\ Cardinality(A \cup {s}) = IF s \in A THEN Cardinality(A) ELSE Cardinality(A) + 1
    BY <1>3, FS_RemoveElement, FS_AddElement
  <1>5. Cardinality(A) \in Nat /\ Cardinality(A \ {s}) \in Nat /\ Cardinality(A \cup {s}) \in Nat
    BY <1>3, <1>4, FS_CardinalityType
  <1> QED BY <1>2, <1>3, <1>4, <1>5 DEF A

(* A slot gets a call, or loses it, and there are as many ids left.        *)
LEMMA PutStays ==
  ASSUME NEW cs, NEW o, NEW n, CallsOK(cs, o, n), IdsLeft(cs, n),
         NEW s \in Slots, NEW c, CallOK(c, o, n),
         Handled(c) => \A t \in Slots : ~Handled(cs[t]),
         Adds(c) => Adds(cs[s]) \/ n + Cardinality(AddingOf(cs)) =< MaxId,
         NEW ds, ds = [cs EXCEPT ![s] = c]
  PROVE  /\ CallsOK(ds, o, n) /\ IdsLeft(ds, n)
         /\ Adds(cs[s]) /\ ~Adds(c) => n =< MaxId /\ IdsLeft(ds, n + 1)
  <1> DEFINE A == AddingOf(cs)
  <1>1. /\ CallsOK(ds, o, n)
        /\ Adds(c) => AddingOf(ds) = A \cup {s}
        /\ ~Adds(c) => AddingOf(ds) = A \ {s}
    <2>1. CallsOK(ds, o, n)
      BY PutOK
    <2>2. ds[s] = c /\ \A t \in Slots \ {s} : ds[t] = cs[t]
      BY DEF CallsOK
    <2>3. ASSUME Adds(c) PROVE AddingOf(ds) = A \cup {s}
      BY <2>2, <2>3 DEF AddingOf
    <2>4. ASSUME ~Adds(c) PROVE AddingOf(ds) = A \ {s}
      BY <2>2, <2>4 DEF AddingOf
    <2> QED BY <2>1, <2>3, <2>4
  <1>2. /\ Cardinality(A) \in Nat
        /\ Cardinality(A \ {s}) \in Nat /\ Cardinality(A \cup {s}) \in Nat
        /\ Cardinality(A \ {s}) = IF Adds(cs[s]) THEN Cardinality(A) - 1 ELSE Cardinality(A)
        /\ Cardinality(A \cup {s}) = IF Adds(cs[s]) THEN Cardinality(A) ELSE Cardinality(A) + 1
    BY AddingCount
  <1> HIDE DEF A
  <1>3. /\ n \in 1..(MaxId + 1) /\ n + Cardinality(A) =< MaxId + 1 /\ MaxId \in Nat
        /\ Adds(c) => Adds(cs[s]) \/ n + Cardinality(A) =< MaxId
    BY SavedAssumption DEF IdsLeft, A
  <1>4. IdsLeft(ds, n)
    <2> DEFINE k == Cardinality(A)  d == Cardinality(AddingOf(ds))
    <2>1. CASE Adds(c)
      <3>1. d \in Nat /\ (d = k \/ (d = k + 1 /\ ~Adds(cs[s])))
        BY <1>1, <1>2, <2>1
      <3> HIDE DEF k, d
      <3>2. n \in Nat /\ k \in Nat /\ n + d =< MaxId + 1
        BY <1>2, <1>3, <2>1, <3>1 DEF k
      <3> QED BY <1>3, <3>2 DEF IdsLeft, d
    <2>2. CASE ~Adds(c)
      <3>1. d \in Nat /\ (d = k \/ d = k - 1)
        BY <1>1, <1>2, <2>2
      <3> HIDE DEF k, d
      <3>2. n \in Nat /\ k \in Nat /\ n + d =< MaxId + 1
        BY <1>2, <1>3, <3>1 DEF k
      <3> QED BY <1>3, <3>2 DEF IdsLeft, d
    <2> QED BY <2>1, <2>2
  <1>5. ASSUME Adds(cs[s]), ~Adds(c) PROVE n =< MaxId /\ IdsLeft(ds, n + 1)
    <2>1. Cardinality(AddingOf(ds)) = Cardinality(A) - 1 /\ Cardinality(AddingOf(ds)) \in Nat
      BY <1>1, <1>2, <1>5
    <2>2. n \in Nat /\ n + Cardinality(A) =< MaxId + 1
      BY <1>3
    <2> QED BY <1>2, <1>3, <2>1, <2>2 DEF IdsLeft
  <1> QED BY <1>1, <1>4, <1>5

(* A new call, in a slot that is free.                                     *)
LEMMA NewCall ==
  ASSUME NEW cs, NEW o, NEW n, CallsOK(cs, o, n), IdsLeft(cs, n),
         \E s \in Slots : cs[s] = NoCall,
         NEW call \in Requests, RequestOK(call, o, n), call.stage = "sent",
         call.method = "add" => n + Cardinality(AddingOf(cs)) =< MaxId
  PROVE  CallsOK(With(cs, call), o, n) /\ IdsLeft(With(cs, call), n)
  <1>1. PICK s \in Slots : cs[s] = NoCall /\ With(cs, call) = [cs EXCEPT ![s] = call]
    BY WithSlot
  <1>2. CallOK(call, o, n) /\ ~Handled(call)
    BY DEF CallOK, Handled
  <1>3. Adds(call) => n + Cardinality(AddingOf(cs)) =< MaxId
    BY DEF Adds
  <1>4. With(cs, call) = [cs EXCEPT ![s] = call] /\ s \in Slots
    BY <1>1
  <1> QED BY <1>2, <1>3, <1>4, PutStays

(* The calls under way are given up.                                       *)
LEMMA OrphanedOK ==
  ASSUME NEW reads, NEW cs, cs = Orphaned(reads),
         CallsOK(calls, own, nextId), IdsLeft(calls, nextId)
  PROVE  CallsOK(cs, own, nextId) /\ IdsLeft(cs, nextId)
  <1>1. ASSUME NEW s \in Slots
        PROVE  /\ \/ cs[s] = NoCall
                  \/ calls[s] \in Requests /\ cs[s] = [calls[s] EXCEPT !.then = "nothing"]
               /\ CallOK(calls[s], own, nextId)
    <2>1. CallOK(calls[s], own, nextId)
      BY DEF CallsOK
    <2>2. CASE calls[s] \in Requests
      BY <2>1, <2>2 DEF Orphaned
    <2>3. CASE calls[s] = NoCall
      BY <2>1, <2>3 DEF Orphaned, Stage
    <2>4. CASE calls[s] \in Answers
      BY <2>1, <2>4, RequestForms DEF Orphaned, Stage, AnswerForm
    <2> QED BY <2>1, <2>2, <2>3, <2>4 DEF CallOK
  <1>2. ASSUME NEW s \in Slots, cs[s] # NoCall
        PROVE  /\ cs[s] \in Requests /\ RequestOK(cs[s], own, nextId)
               /\ (Handled(cs[s]) => Handled(calls[s])) /\ (Adds(cs[s]) => Adds(calls[s]))
    <2>1. PICK c \in Requests : c = calls[s] /\ cs[s] = [c EXCEPT !.then = "nothing"]
      BY <1>1, <1>2
    <2>2. RequestForm(c) /\ cs[s] \in Requests /\ c # NoCall
      BY <2>1, RequestForms, RequestStays
    <2>3. RequestOK(c, own, nextId)
      <3>1. ~(c \in Answers)
        BY <2>2, RequestForms DEF RequestForm, AnswerForm
      <3> QED BY <1>1, <2>1, <2>2, <3>1 DEF CallOK
    <2>4. /\ cs[s].stage = c.stage /\ cs[s].method = c.method
          /\ cs[s].params = c.params
      BY <2>1, <2>2 DEF RequestForm
    <2>5. RequestOK(cs[s], own, nextId)
      BY <2>3, <2>4 DEF RequestOK
    <2> QED BY <2>1, <2>2, <2>4, <2>5 DEF Handled, Adds
  <1>3. CallsOK(cs, own, nextId)
    <2>1. cs \in [Slots -> Requests \cup Answers \cup {NoCall}]
      <3>1. cs = [s \in Slots |-> cs[s]]
        BY DEF Orphaned
      <3> QED BY <1>2, <3>1
    <2>2. \A s \in Slots : CallOK(cs[s], own, nextId)
      BY <1>2 DEF CallOK
    <2>3. \A s \in Slots : Handled(cs[s]) => Handled(calls[s])
      BY <1>2 DEF Handled
    <2> QED BY <2>1, <2>2, <2>3 DEF CallsOK
  <1>4. AddingOf(cs) \subseteq AddingOf(calls)
    BY <1>2 DEF AddingOf, Adds
  <1>5. /\ IsFiniteSet(AddingOf(calls)) /\ Cardinality(AddingOf(calls)) \in Nat
        /\ Cardinality(AddingOf(cs)) \in Nat
    <2>1. 1 \in Slots
      BY CallsAssumption DEF Slots
    <2> QED BY <2>1, AddingCount
  <1>6. Cardinality(AddingOf(cs)) =< Cardinality(AddingOf(calls))
    BY <1>4, <1>5, FS_Subset
  <1>7. IdsLeft(cs, nextId)
    BY <1>5, <1>6, SavedAssumption DEF IdsLeft
  <1> QED BY <1>3, <1>7

-----------------------------------------------------------------------------
(* What a step leaves alone.                                               *)

(* A step that leaves the stores alone keeps them right, ...               *)
LEMMA StoresStay ==
  ASSUME StoresOK, UNCHANGED <<storeVars, own, deleted>>
  PROVE  StoresOK'
  BY DEF StoresOK, storeVars, Theirs

(* ... and so for the page.                                                *)
LEMMA PageStays ==
  ASSUME PageOK, UNCHANGED <<pageVars, own, nextId>>
  PROVE  PageOK'
  BY DEF PageOK, pageVars, Theirs

(* One slot of the calls changes.                                          *)
LEMMA SlotChanges ==
  ASSUME CallsOK(calls, own, nextId), IdsLeft(calls, nextId), UNCHANGED <<own, nextId>>,
         NEW s \in Slots, NEW c, CallOK(c, own, nextId),
         Handled(c) => \A t \in Slots : ~Handled(calls[t]),
         Adds(c) => Adds(calls[s]),
         NEW cs, cs = [calls EXCEPT ![s] = c], calls' = cs
  PROVE  CallsOK(calls, own, nextId)' /\ IdsLeft(calls, nextId)'
  <1>1. CallsOK(cs, own, nextId) /\ IdsLeft(cs, nextId)
    BY PutStays
  <1> QED BY <1>1

-----------------------------------------------------------------------------
(* The server and the handlers.                                            *)

(* The server takes a request.                                             *)
LEMMA TakeRequestKeeps ==
  ASSUME IInv, NEW s \in Slots, Server(s)
  PROVE  IInv'
  <1>1. /\ calls[s] # NoCall /\ calls[s].stage = "sent"
        /\ \A t \in Slots : ~Handled(calls[t])
        /\ calls' = [calls EXCEPT ![s] = [calls[s] EXCEPT !.stage = "handled"]]
        /\ UNCHANGED <<pageVars, storeVars, own, deleted>>
    BY DEF Server, TakeRequest, Stage, Handled
  <1>2. UNCHANGED <<own, nextId>>
    BY <1>1 DEF storeVars
  <1>3. CallsOK(calls, own, nextId) /\ IdsLeft(calls, nextId)
    BY DEF IInv
  <1>4. calls[s] \in Requests /\ RequestOK(calls[s], own, nextId)
    BY <1>1, <1>3, RequestForms DEF CallsOK, CallOK, AnswerForm
  <1>5. PICK d : d = calls[s]
    OBVIOUS
  <1>6. PICK c : c = [d EXCEPT !.stage = "handled"]
    OBVIOUS
  <1>7. /\ c \in Requests /\ RequestOK(c, own, nextId)
        /\ Adds(c) => Adds(d)
    <2>1. RequestForm(d) /\ c \in Requests /\ d # NoCall
      BY <1>4, <1>5, <1>6, RequestForms, RequestStays
    <2>2. c.method = d.method /\ c.params = d.params
      BY <1>6, <2>1 DEF RequestForm
    <2> QED BY <1>4, <1>5, <2>1, <2>2 DEF RequestOK, Adds, RequestForm
  <1>8. CallOK(c, own, nextId)
    BY <1>7 DEF CallOK
  <1>9. CallsOK(calls, own, nextId)' /\ IdsLeft(calls, nextId)'
    <2>1. calls' = [calls EXCEPT ![s] = c]
      BY <1>1, <1>5, <1>6
    <2> QED BY <1>1, <1>2, <1>3, <1>5, <1>7, <1>8, <2>1, SlotChanges
  <1> QED BY <1>1, <1>2, <1>9, StoresStay, PageStays DEF IInv

(* What a handler has before it, and the answer it puts in its place.      *)
LEMMA RequestHandled ==
  ASSUME CallsOK(calls, own, nextId), NEW s \in Slots, NEW method, Dispatched(s, method)
  PROVE  /\ calls[s] \in Requests /\ RequestOK(calls[s], own, nextId) /\ RequestForm(calls[s])
         /\ calls[s] # NoCall /\ calls[s].method = method /\ calls[s].stage = "handled"
  BY RequestForms DEF Dispatched, Stage, CallsOK, CallOK, AnswerForm

(* An answer takes the place of its request.                               *)
LEMMA AnswerGiven ==
  ASSUME CallsOK(calls, own, nextId), IdsLeft(calls, nextId), UNCHANGED <<own, nextId>>,
         NEW s \in Slots, NEW ok, NEW reply, calls' = Returned(s, ok, reply),
         NEW c, c = [stage |-> "returned", then |-> calls[s].then, ok |-> ok, reply |-> reply],
         c \in Answers, AnswerOK(c, own, nextId)
  PROVE  CallsOK(calls, own, nextId)' /\ IdsLeft(calls, nextId)'
  <1>1. CallOK(c, own, nextId) /\ ~Handled(c) /\ ~Adds(c)
    BY DEF CallOK, Handled, Adds
  <1>2. calls' = [calls EXCEPT ![s] = c]
    BY DEF Returned
  <1> QED BY <1>1, <1>2, SlotChanges

(* passwords_list tells only of rows that the stores have.                 *)
LEMMA DispatchListKeeps ==
  ASSUME IInv, NEW s \in Slots, DispatchList(s)
  PROVE  IInv'
  <1>1. /\ Dispatched(s, "list")
        /\ UNCHANGED <<pageVars, storeVars, own, deleted>>
    BY DEF DispatchList
  <1>2. PICK reply : reply = [locked |-> ~unlocked, rows |-> IF unlocked THEN Listed ELSE {}]
    OBVIOUS
  <1>3. /\ reply \in [locked : BOOLEAN, rows : SUBSET Rows] /\ reply.rows \subseteq Known(nextId)
        /\ calls' = Returned(s, TRUE, reply)
    BY <1>2 DEF DispatchList, Replied, IInv, StoresOK, Listed, VaultRows, BitwardenRows, Known
  <1>4. PICK c : c = [stage |-> "returned", then |-> calls[s].then, ok |-> TRUE, reply |-> reply]
    OBVIOUS
  <1>5. c \in Answers /\ AnswerOK(c, own, nextId)
    <2>1. calls[s].then \in {"load", "nothing"}
      <3>1. RequestForm(calls[s]) /\ calls[s].method = "list"
        BY <1>1, RequestHandled DEF IInv
      <3> QED BY <3>1 DEF RequestForm
    <2>2. c \in Answers
      BY <1>3, <1>4, <2>1, ListAnswer
    <2>3. AnswerOK(c, own, nextId)
      BY <1>3, <1>4, <2>1 DEF AnswerOK
    <2> QED BY <2>2, <2>3
  <1>6. CallsOK(calls, own, nextId)' /\ IdsLeft(calls, nextId)'
    BY <1>1, <1>3, <1>4, <1>5, AnswerGiven DEF IInv, storeVars
  <1> QED BY <1>1, <1>6, StoresStay, PageStays DEF IInv, storeVars

(* passwords_reveal tells a row its own password.                          *)
LEMMA DispatchRevealKeeps ==
  ASSUME IInv, NEW s \in Slots, DispatchReveal(s)
  PROVE  IInv'
  <1>1. /\ Dispatched(s, "reveal")
        /\ UNCHANGED <<pageVars, storeVars, own, deleted>>
    BY DEF DispatchReveal
  <1>2. RequestForm(calls[s]) /\ RequestOK(calls[s], own, nextId) /\ calls[s].method = "reveal"
    BY <1>1, RequestHandled DEF IInv
  <1>3. PICK row : row = calls[s].params.row
    OBVIOUS
  <1>4. row \in Rows /\ row \in Known(nextId)
    BY <1>2, <1>3 DEF RequestOK, Known
  <1>5. PICK password : password = IF Reachable(row) THEN Password(row) ELSE Blank
    OBVIOUS
  <1>6. password \in Kept /\ password \in Theirs(own, row)
    BY <1>5 DEF Password, IInv, StoresOK, Kept, Theirs
  <1>7. PICK reply : reply = [row |-> row, password |-> password]
    OBVIOUS
  <1>8. calls' = Returned(s, TRUE, reply)
    BY <1>3, <1>5, <1>7 DEF DispatchReveal, Replied
  <1>9. PICK c : c = [stage |-> "returned", then |-> calls[s].then, ok |-> TRUE, reply |-> reply]
    OBVIOUS
  <1>10. c \in Answers /\ AnswerOK(c, own, nextId)
    <2>1. calls[s].then \in {"show", "edit", "nothing"}
      BY <1>2 DEF RequestForm
    <2>2. reply \in [row : Rows, password : Kept]
      BY <1>4, <1>6, <1>7
    <2>3. c \in Answers
      BY <1>9, <2>1, <2>2, RevealAnswer
    <2>4. AnswerOK(c, own, nextId)
      BY <1>4, <1>6, <1>7, <1>9, <2>1 DEF AnswerOK
    <2> QED BY <2>3, <2>4
  <1>11. CallsOK(calls, own, nextId)' /\ IdsLeft(calls, nextId)'
    BY <1>1, <1>8, <1>9, <1>10, AnswerGiven DEF IInv, storeVars
  <1> QED BY <1>1, <1>11, StoresStay, PageStays DEF IInv, storeVars

(* A change is made or refused, and the answer says so.                    *)
LEMMA ChangeAnswered ==
  ASSUME CallsOK(calls, own, nextId), IdsLeft(calls, nextId), NEW s \in Slots,
         NEW method \in {"add", "update", "delete"}, Dispatched(s, method),
         NEW ok \in BOOLEAN, NEW cs, cs = Returned(s, ok, NoCall)
  PROVE  /\ CallsOK(cs, own, nextId) /\ IdsLeft(cs, nextId)
         /\ method = "add" => nextId =< MaxId /\ IdsLeft(cs, nextId + 1)
  <1>1. PICK d : d = calls[s]
    OBVIOUS
  <1>2. RequestForm(d) /\ d.method = method /\ d # NoCall /\ d.stage = "handled"
    BY <1>1, RequestHandled
  <1>3. d.then \in {"close", "reload", "nothing"}
    BY <1>2 DEF RequestForm
  <1>4. PICK c : c = [stage |-> "returned", then |-> d.then, ok |-> ok, reply |-> NoCall]
    OBVIOUS
  <1>5. c \in Answers /\ AnswerOK(c, own, nextId)
    BY <1>3, <1>4, ChangeAnswer DEF AnswerOK
  <1>6. CallOK(c, own, nextId) /\ ~Handled(c) /\ ~Adds(c)
    BY <1>4, <1>5 DEF CallOK, Handled, Adds
  <1>7. cs = [calls EXCEPT ![s] = c]
    BY <1>1, <1>4 DEF Returned
  <1>8. CallsOK(cs, own, nextId) /\ IdsLeft(cs, nextId)
    BY <1>6, <1>7, PutStays
  <1>9. ASSUME method = "add" PROVE nextId =< MaxId /\ IdsLeft(cs, nextId + 1)
    <2>1. Adds(calls[s])
      BY <1>1, <1>2, <1>9 DEF Adds
    <2> QED BY <1>6, <1>7, <2>1, PutStays
  <1> QED BY <1>8, <1>9

(* The page, as passwords and ids are given.                               *)
LEMMA PageGrows ==
  ASSUME PageOK, UNCHANGED pageVars, NEW p, NEW m \in Nat, own' = p, nextId' = m,
         nextId \in Nat, nextId =< m, \A r \in Rows : Theirs(own, r) \subseteq Theirs(p, r)
  PROVE  PageOK'
  <1>1. Known(nextId) \subseteq Known(m)
    BY DEF Known, Rows, Local
  <1>2. form.row # NewLogin => form.row \in Rows
    BY DEF PageOK
  <1>3. UNCHANGED <<locked, entries, revealed, form>>
    BY DEF pageVars
  <1>4. /\ locked \in BOOLEAN /\ entries \subseteq Known(m)
        /\ revealed \in [Rows -> Kept]
        /\ \A row \in Rows : revealed[row] \in Theirs(p, row)
        /\ form \in [row : Rows \cup {NewLogin}, current : Kept, shown : BOOLEAN]
        /\ form.row # NewLogin => form.row \in Known(m) /\ form.current \in Theirs(p, form.row)
    BY <1>1, <1>2 DEF PageOK
  <1> QED BY <1>3, <1>4 DEF PageOK

(* passwords_add has an id left, and it is nobody's yet.                   *)
LEMMA DispatchAddKeeps ==
  ASSUME IInv, NEW s \in Slots, DispatchAdd(s)
  PROVE  IInv'
  <1>1. Dispatched(s, "add") /\ UNCHANGED <<pageVars, unlocked, bitwarden, deleted>>
    BY DEF DispatchAdd
  <1>2. CallsOK(calls, own, nextId) /\ IdsLeft(calls, nextId) /\ StoresOK /\ PageOK
    BY DEF IInv
  <1>3. PICK row : row = <<"browser", nextId>>
    OBVIOUS
  <1>4. PICK password : password = calls[s].params.password
    OBVIOUS
  <1>5. CASE unlocked
    <2>1. /\ logins' = Added(password) /\ nextId' = nextId + 1
          /\ own' = [own EXCEPT ![row] = @ \cup ({password} \ {Blank})]
          /\ calls' = Returned(s, TRUE, NoCall)
      BY <1>3, <1>4, <1>5 DEF DispatchAdd, Replied
    <2>2. PICK p : p = own'
      OBVIOUS
    <2>3. nextId =< MaxId /\ CallsOK(calls', own, nextId) /\ IdsLeft(calls', nextId + 1)
      <3>1. PICK cs : cs = Returned(s, TRUE, NoCall)
        OBVIOUS
      <3>2. nextId =< MaxId /\ CallsOK(cs, own, nextId) /\ IdsLeft(cs, nextId + 1)
        BY <1>1, <1>2, <3>1, ChangeAnswered
      <3> QED BY <2>1, <3>1, <3>2
    <2>4. nextId \in Nat /\ nextId >= 1 /\ row \in Rows /\ ~(row \in Known(nextId))
          /\ row \in Known(nextId + 1)
      BY <1>2, <1>3, <2>3, SavedAssumption DEF IdsLeft, Rows, Known, Local
    <2>5. password \in Kept
      BY <1>1, <1>2, <1>4, RequestHandled DEF RequestForm
    <2>6. /\ p \in [Rows -> SUBSET Kept] /\ password \in Theirs(p, row)
          /\ \A r \in Rows : own[r] \subseteq p[r] /\ Theirs(own, r) \subseteq Theirs(p, r)
      <3>1. PICK o : o = own
        OBVIOUS
      <3>2. o \in [Rows -> SUBSET Kept]
        BY <1>2, <3>1 DEF StoresOK
      <3>3. p = [o EXCEPT ![row] = o[row] \cup ({password} \ {Blank})]
        BY <2>1, <2>2, <3>1
      <3>4. row \in Rows
        BY <2>4
      <3>5. /\ p \in [Rows -> SUBSET Kept] /\ password \in Theirs(p, row)
            /\ \A r \in Rows : o[r] \subseteq p[r] /\ Theirs(o, r) \subseteq Theirs(p, r)
        BY <2>5, <3>2, <3>3, <3>4 DEF Theirs
      <3> QED BY <3>1, <3>5
    <2>7. CallsOK(calls', p, nextId + 1) /\ Known(nextId) \subseteq Known(nextId + 1)
      BY <2>3, <2>4, <2>6, CallsGrow
    <2>8. StoresOK'
      <3>1. /\ DOMAIN logins' = DOMAIN logins \cup {row}
            /\ \A r \in DOMAIN logins' : logins'[r] = IF r = row THEN password ELSE logins[r]
        BY <1>3, <2>1 DEF Added
      <3>2. DOMAIN logins' \subseteq Known(nextId + 1) /\ DOMAIN logins' \cap deleted = {}
        BY <1>2, <2>4, <2>7, <3>1 DEF StoresOK
      <3>3. \A r \in DOMAIN logins' : logins'[r] \in Kept \cap Theirs(p, r)
        BY <1>2, <2>4, <2>5, <2>6, <3>1 DEF StoresOK, Known
      <3>4. unlocked' \in BOOLEAN /\ bitwarden' \in BOOLEAN /\ deleted' \subseteq Known(nextId + 1)
        BY <1>1, <1>2, <2>7 DEF StoresOK
      <3> QED BY <1>1, <2>1, <2>2, <2>6, <3>2, <3>3, <3>4 DEF StoresOK
    <2>9. PageOK'
      <3>1. nextId + 1 \in Nat /\ nextId =< nextId + 1 /\ UNCHANGED pageVars
        BY <1>1, <2>4
      <3> QED BY <1>2, <2>1, <2>2, <2>4, <2>6, <3>1, PageGrows
    <2> QED BY <2>1, <2>2, <2>3, <2>7, <2>8, <2>9 DEF IInv
  <1>6. CASE ~unlocked
    <2>1. /\ calls' = Returned(s, FALSE, NoCall)
          /\ UNCHANGED <<pageVars, storeVars, own, deleted>>
      BY <1>1, <1>6 DEF DispatchAdd, Refused, storeVars
    <2>2. PICK cs : cs = Returned(s, FALSE, NoCall)
      OBVIOUS
    <2>3. CallsOK(cs, own, nextId) /\ IdsLeft(cs, nextId)
      BY <1>1, <1>2, <2>2, ChangeAnswered
    <2>4. CallsOK(calls, own, nextId)' /\ IdsLeft(calls, nextId)'
      BY <2>1, <2>2, <2>3 DEF storeVars
    <2> QED BY <1>2, <2>1, <2>4, StoresStay, PageStays DEF IInv, storeVars
  <1> QED BY <1>5, <1>6

(* A row gets a password of its own, or goes; nothing else changes.        *)
LEMMA RowChanges ==
  ASSUME StoresOK, NEW row, NEW password \in Kept, password \in Theirs(own, row),
         UNCHANGED <<unlocked, bitwarden, nextId, own>>,
         \/ logins' = Updated(row, password) /\ deleted' = deleted
         \/ logins' = Removed(row) /\ row \in Known(nextId) /\ deleted' = deleted \cup {row}
         \/ logins' = logins /\ deleted' = deleted
  PROVE  StoresOK'
  <1>1. CASE logins' = Updated(row, password) /\ deleted' = deleted
    <2>1. /\ DOMAIN logins' = DOMAIN logins
          /\ \A r \in DOMAIN logins : logins'[r] = IF r = row THEN password ELSE logins[r]
      BY <1>1 DEF Updated
    <2>2. \A r \in DOMAIN logins' : logins'[r] \in Kept \cap Theirs(own, r)
      BY <2>1 DEF StoresOK
    <2> QED BY <1>1, <2>1, <2>2 DEF StoresOK
  <1>2. CASE logins' = Removed(row) /\ row \in Known(nextId) /\ deleted' = deleted \cup {row}
    <2>1. /\ DOMAIN logins' = DOMAIN logins \ {row}
          /\ \A r \in DOMAIN logins' : logins'[r] = logins[r]
      BY <1>2 DEF Removed
    <2>2. \A r \in DOMAIN logins' : logins'[r] \in Kept \cap Theirs(own, r)
      BY <2>1 DEF StoresOK
    <2>3. DOMAIN logins' \subseteq Known(nextId) /\ DOMAIN logins' \cap deleted' = {}
          /\ deleted' \subseteq Known(nextId)
      BY <1>2, <2>1 DEF StoresOK
    <2> QED BY <2>2, <2>3 DEF StoresOK
  <1>3. CASE logins' = logins /\ deleted' = deleted
    BY <1>3 DEF StoresOK
  <1> QED BY <1>1, <1>2, <1>3

(* A handler that changes a row, or refuses, leaves the rest right.        *)
LEMMA HandlerKeeps ==
  ASSUME IInv, StoresOK', UNCHANGED <<pageVars, own, nextId>>,
         NEW s \in Slots, NEW method \in {"add", "update", "delete"}, Dispatched(s, method),
         NEW ok \in BOOLEAN, calls' = Returned(s, ok, NoCall)
  PROVE  IInv'
  <1>1. PICK cs : cs = Returned(s, ok, NoCall)
    OBVIOUS
  <1>2. CallsOK(cs, own, nextId) /\ IdsLeft(cs, nextId)
    BY <1>1, ChangeAnswered DEF IInv
  <1>3. CallsOK(calls, own, nextId)' /\ IdsLeft(calls, nextId)'
    BY <1>1, <1>2
  <1> QED BY <1>3, PageStays DEF IInv

(* passwords_update changes no other row, and makes none.                  *)
LEMMA DispatchUpdateKeeps ==
  ASSUME IInv, NEW s \in Slots, DispatchUpdate(s)
  PROVE  IInv'
  <1>1. /\ Dispatched(s, "update")
        /\ UNCHANGED <<pageVars, unlocked, bitwarden, nextId, own, deleted>>
    BY DEF DispatchUpdate
  <1>2. PICK row : row = calls[s].params.row
    OBVIOUS
  <1>3. PICK password : password = calls[s].params.password
    OBVIOUS
  <1>4. password \in Kept /\ password \in Theirs(own, row)
    BY <1>1, <1>2, <1>3, RequestHandled DEF IInv, RequestForm, RequestOK
  <1>5. PICK ok \in BOOLEAN :
          /\ calls' = Returned(s, ok, NoCall)
          /\ logins' = Updated(row, password) \/ logins' = logins
    BY <1>2, <1>3 DEF DispatchUpdate, Replied, Refused, BitwardenUpdates
  <1>6. StoresOK'
    BY <1>1, <1>4, <1>5, RowChanges DEF IInv
  <1> QED BY <1>1, <1>5, <1>6, HandlerKeeps

(* passwords_delete deletes a row the stores once gave.                    *)
LEMMA DispatchDeleteKeeps ==
  ASSUME IInv, NEW s \in Slots, DispatchDelete(s)
  PROVE  IInv'
  <1>1. /\ Dispatched(s, "delete")
        /\ UNCHANGED <<pageVars, unlocked, bitwarden, nextId, own>>
    BY DEF DispatchDelete
  <1>2. PICK row : row = calls[s].params.row
    OBVIOUS
  <1>3. row \in Known(nextId)
    BY <1>1, <1>2, RequestHandled DEF IInv, RequestOK
  <1>4. PICK ok \in BOOLEAN :
          /\ calls' = Returned(s, ok, NoCall)
          /\ \/ logins' = Removed(row) /\ deleted' = deleted \cup {row}
             \/ logins' = logins /\ deleted' = deleted
    BY <1>2 DEF DispatchDelete, Replied, Refused, BitwardenDeletes
  <1>5. StoresOK'
    <2>1. Blank \in Kept /\ Blank \in Theirs(own, row)
      BY DEF Kept, Theirs
    <2> QED BY <1>1, <1>3, <1>4, <2>1, RowChanges DEF IInv
  <1> QED BY <1>1, <1>4, <1>5, HandlerKeeps

-----------------------------------------------------------------------------
(* The page and the user.                                                  *)

(* Only the page's own state changes.                                      *)
LEMMA FormKeeps ==
  ASSUME IInv, EditKnown \/ ClickAdd \/ CancelForm
  PROVE  IInv'
  <1>1. UNCHANGED <<calls, locked, entries, revealed, storeVars, own, deleted>>
    BY DEF EditKnown, ClickAdd, CancelForm
  <1>2. /\ form' \in [row : Rows \cup {NewLogin}, current : Kept, shown : BOOLEAN]
        /\ form'.row # NewLogin =>
             form'.row \in Known(nextId) /\ form'.current \in Theirs(own, form'.row)
    <2>1. CASE ClickAdd \/ CancelForm
      <3>1. PICK shown \in BOOLEAN : form' = [row |-> NewLogin, current |-> Blank, shown |-> shown]
        BY <2>1 DEF ClickAdd, CancelForm, Form, Closed
      <3> QED BY <3>1 DEF Kept
    <2>2. CASE EditKnown
      <3>1. PICK row \in Shown : form' = Form(row, revealed[row])
        BY <2>2 DEF EditKnown, Cached
      <3>2. row \in Known(nextId) /\ row \in Rows
        BY DEF Shown, IInv, PageOK, Known
      <3>3. revealed[row] \in Kept /\ revealed[row] \in Theirs(own, row)
        BY <3>2 DEF IInv, PageOK
      <3> QED BY <3>1, <3>2, <3>3 DEF Form
    <2> QED BY <2>1, <2>2
  <1>3. PageOK'
    BY <1>1, <1>2 DEF IInv, PageOK, storeVars, Theirs
  <1>4. StoresOK'
    BY <1>1, StoresStay DEF IInv
  <1> QED BY <1>1, <1>3, <1>4 DEF IInv, storeVars

(* The page makes a call.                                                  *)
LEMMA CallKeeps ==
  ASSUME IInv, FreeSlots # {}, UNCHANGED <<pageVars, storeVars, own, deleted>>,
         NEW call \in Requests, RequestOK(call, own, nextId), call.stage = "sent",
         call.method = "add" => nextId + Cardinality(AddingOf(calls)) =< MaxId,
         calls' = With(calls, call)
  PROVE  IInv'
  <1>1. \E s \in Slots : calls[s] = NoCall
    BY DEF FreeSlots
  <1>2. PICK cs : cs = With(calls, call)
    OBVIOUS
  <1>3. CallsOK(With(calls, call), own, nextId) /\ IdsLeft(With(calls, call), nextId)
    BY <1>1, NewCall DEF IInv
  <1>4. CallsOK(calls, own, nextId)' /\ IdsLeft(calls, nextId)'
    BY <1>3 DEF storeVars
  <1> QED BY <1>4, StoresStay, PageStays DEF IInv, storeVars

(* The eye, the copy button or the pencil.                                 *)
LEMMA AskPasswordKeeps ==
  ASSUME IInv, AskPassword
  PROVE  IInv'
  <1>1. PICK row \in Shown, then \in {"show", "edit"} :
          /\ FreeSlots # {} /\ calls' = With(calls, Call("reveal", [row |-> row], then))
          /\ UNCHANGED <<pageVars, storeVars, own, deleted>>
    BY DEF AskPassword
  <1>2. row \in Known(nextId) /\ row \in Rows /\ Blank \in Kept
    BY DEF Shown, IInv, PageOK, Known, Kept
  <1>3. PICK call : call = Call("reveal", [row |-> row], then)
    OBVIOUS
  <1>4. call \in Requests
    BY <1>2, <1>3, CallsMade
  <1>5. call.stage = "sent" /\ call.method = "reveal" /\ call.params.row = row
    BY <1>3 DEF Call
  <1>6. RequestOK(call, own, nextId)
    BY <1>2, <1>5 DEF RequestOK
  <1> QED BY <1>1, <1>3, <1>4, <1>5, <1>6, CallKeeps

(* The delete button.                                                      *)
LEMMA ClickDeleteKeeps ==
  ASSUME IInv, ClickDelete
  PROVE  IInv'
  <1>1. PICK row \in Shown :
          /\ FreeSlots # {} /\ calls' = With(calls, Call("delete", [row |-> row], "reload"))
          /\ UNCHANGED <<pageVars, storeVars, own, deleted>>
    BY DEF ClickDelete
  <1>2. row \in Known(nextId) /\ row \in Rows /\ Blank \in Kept
    BY DEF Shown, IInv, PageOK, Known, Kept
  <1>3. PICK call : call = Call("delete", [row |-> row], "reload")
    OBVIOUS
  <1>4. call \in Requests
    BY <1>2, <1>3, CallsMade
  <1>5. call.stage = "sent" /\ call.method = "delete" /\ call.params.row = row
    BY <1>3 DEF Call
  <1>6. RequestOK(call, own, nextId)
    BY <1>2, <1>5 DEF RequestOK
  <1> QED BY <1>1, <1>3, <1>4, <1>5, <1>6, CallKeeps

(* The calls that add are those of the model.                              *)
LEMMA AddingIsOf == Adding = AddingOf(calls)
  BY DEF Adding, AddingOf, Adds, Stage

(* The form adds a login.                                                  *)
LEMMA SubmitAddKeeps ==
  ASSUME IInv, SubmitAdd
  PROVE  IInv'
  <1>1. PICK typed \in Typed \cup {Blank} :
          /\ FreeSlots # {} /\ nextId + Cardinality(Adding) =< MaxId
          /\ calls' = With(calls, Call("add", [password |-> typed], "close"))
          /\ UNCHANGED <<pageVars, storeVars, own, deleted>>
    BY DEF SubmitAdd
  <1>2. typed \in Kept
    BY PasswordsAssumption DEF Kept
  <1>3. PICK call : call = Call("add", [password |-> typed], "close")
    OBVIOUS
  <1>4. call.stage = "sent" /\ call.method = "add"
    BY <1>3 DEF Call
  <1>5. call \in Requests
    <2>1. ASSUME NEW row \in Rows PROVE call \in Requests
      BY <1>2, <1>3, CallsMade
    <2>2. CASE Rows = {}
      BY <1>2, <1>3, <2>2 DEF Requests, RequestsFor, Call, Kept
    <2> QED BY <2>1, <2>2
  <1>6. RequestOK(call, own, nextId)
    BY <1>4 DEF RequestOK
  <1>7. nextId + Cardinality(AddingOf(calls)) =< MaxId
    BY <1>1, AddingIsOf
  <1> QED BY <1>1, <1>3, <1>4, <1>5, <1>6, <1>7, CallKeeps

(* The form sends what was typed for its row, or that row's password.      *)
LEMMA SubmitEditKeeps ==
  ASSUME IInv, SubmitEdit
  PROVE  IInv'
  <1> DEFINE sent(typed) == IF typed # Blank THEN typed ELSE form.current
  <1>1. PICK typed \in Typed \cup {Blank} :
          /\ form.row # NewLogin /\ FreeSlots # {}
          /\ calls' = With(calls, Call("update", [row |-> form.row, password |-> sent(typed)], "close"))
          /\ own' = [own EXCEPT ![form.row] = @ \cup ({typed} \ {Blank})]
          /\ UNCHANGED <<pageVars, storeVars, deleted>>
    BY DEF SubmitEdit
  <1> HIDE DEF sent
  <1>2. CallsOK(calls, own, nextId) /\ IdsLeft(calls, nextId) /\ StoresOK /\ PageOK
    BY DEF IInv
  <1>3. PICK row : row = form.row
    OBVIOUS
  <1>4. row \in Known(nextId) /\ row \in Rows /\ nextId \in Nat
    BY <1>1, <1>2, <1>3 DEF PageOK, Known, IdsLeft
  <1>5. typed \in Kept
    BY PasswordsAssumption DEF Kept
  <1>6. PICK p : p = own'
    OBVIOUS
  <1>7. own \in [Rows -> SUBSET Kept]
    BY <1>2 DEF StoresOK
  <1>8. /\ p \in [Rows -> SUBSET Kept] /\ typed \in Theirs(p, row)
        /\ \A r \in Rows : own[r] \subseteq p[r] /\ Theirs(own, r) \subseteq Theirs(p, r)
    <2>1. p = [own EXCEPT ![row] = own[row] \cup ({typed} \ {Blank})]
      BY <1>1, <1>3, <1>6
    <2> QED BY <1>4, <1>5, <1>7, <2>1 DEF Theirs
  <1>9. PICK password : password = sent(typed)
    OBVIOUS
  <1>10. password \in Kept /\ password \in Theirs(p, row)
    <2>1. form.current \in Kept /\ form.current \in Theirs(own, row)
      BY <1>1, <1>2, <1>3 DEF PageOK
    <2> QED BY <1>4, <1>5, <1>8, <1>9, <2>1 DEF sent
  <1>11. CallsOK(calls, p, nextId)
    BY <1>2, <1>4, <1>8, CallsGrow
  <1>12. PICK call : call = Call("update", [row |-> row, password |-> password], "close")
    OBVIOUS
  <1>13. call \in Requests
    BY <1>4, <1>10, <1>12, CallsMade
  <1>14. /\ call.stage = "sent" /\ call.method = "update"
         /\ call.params.row = row /\ call.params.password = password
    BY <1>12 DEF Call
  <1>15. RequestOK(call, p, nextId) /\ call.method # "add"
    BY <1>4, <1>10, <1>14 DEF RequestOK
  <1>16. PICK cs : cs = With(calls, call)
    OBVIOUS
  <1>17. CallsOK(With(calls, call), p, nextId) /\ IdsLeft(With(calls, call), nextId)
    <2>1. \E s \in Slots : calls[s] = NoCall
      BY <1>1 DEF FreeSlots
    <2> QED BY <1>2, <1>11, <1>13, <1>14, <1>15, <2>1, NewCall
  <1>18. calls' = With(calls, call) /\ nextId' = nextId /\ UNCHANGED <<logins, unlocked, bitwarden>>
    BY <1>1, <1>3, <1>9, <1>12 DEF storeVars
  <1>19. CallsOK(calls, own, nextId)' /\ IdsLeft(calls, nextId)'
    BY <1>6, <1>17, <1>18
  <1>20. StoresOK'
    <2>1. \A r \in DOMAIN logins : logins[r] \in Kept \cap Theirs(p, r)
      BY <1>2, <1>8 DEF StoresOK, Known
    <2> QED BY <1>1, <1>2, <1>6, <1>8, <1>18, <2>1 DEF StoresOK
  <1>21. PageOK'
    <2>1. UNCHANGED pageVars /\ nextId =< nextId
      BY <1>1, <1>4
    <2> QED BY <1>2, <1>4, <1>6, <1>8, <1>18, <2>1, PageGrows
  <1> QED BY <1>19, <1>20, <1>21 DEF IInv

-----------------------------------------------------------------------------
(* The answers.                                                            *)

(* What the page is told with an answer it awaits.                         *)
LEMMA AnswerHere ==
  ASSUME CallsOK(calls, own, nextId), NEW s \in Slots, calls[s] # NoCall,
         calls[s].stage = "returned"
  PROVE  calls[s] \in Answers /\ AnswerOK(calls[s], own, nextId) /\ AnswerForm(calls[s])
  BY RequestForms DEF CallsOK, CallOK, RequestForm

(* The slot of a call is free again.                                       *)
LEMMA SlotFreed ==
  ASSUME CallsOK(calls, own, nextId), IdsLeft(calls, nextId), NEW s \in Slots,
         NEW cs, cs = Without(s)
  PROVE  CallsOK(cs, own, nextId) /\ IdsLeft(cs, nextId) /\ cs[s] = NoCall
  <1>1. CallOK(NoCall, own, nextId) /\ ~Handled(NoCall) /\ ~Adds(NoCall)
    BY DEF CallOK, Handled, Adds
  <1>2. cs = [calls EXCEPT ![s] = NoCall]
    BY DEF Without
  <1>3. cs[s] = NoCall
    BY <1>2 DEF CallsOK
  <1> QED BY <1>1, <1>2, <1>3, PutStays

(* An answer is taken; the page may change with it.                        *)
LEMMA AnswerTaken ==
  ASSUME IInv, NEW s \in Slots, calls' = Without(s), UNCHANGED <<storeVars, own, deleted>>,
         PageOK'
  PROVE  IInv'
  <1>1. PICK cs : cs = Without(s)
    OBVIOUS
  <1>2. CallsOK(cs, own, nextId) /\ IdsLeft(cs, nextId)
    BY <1>1, SlotFreed DEF IInv
  <1>3. CallsOK(calls, own, nextId)' /\ IdsLeft(calls, nextId)'
    BY <1>1, <1>2 DEF storeVars
  <1> QED BY <1>3, StoresStay DEF IInv

(* The list has come.                                                      *)
LEMMA LoadedKeeps ==
  ASSUME IInv, NEW s \in Slots, Loaded(s)
  PROVE  IInv'
  <1>1. /\ calls[s] # NoCall /\ calls[s].stage = "returned" /\ calls[s].then = "load"
        /\ locked' = calls[s].reply.locked /\ entries' = calls[s].reply.rows
        /\ calls' = Without(s)
        /\ UNCHANGED <<revealed, form, storeVars, own, deleted>>
    BY DEF Loaded, Answer, Stage
  <1>2. calls[s].reply \in [locked : BOOLEAN, rows : SUBSET Rows]
        /\ calls[s].reply.rows \subseteq Known(nextId)
    BY <1>1, AnswerHere DEF IInv, AnswerForm, AnswerOK
  <1>3. locked' \in BOOLEAN /\ entries' \subseteq Known(nextId)
    BY <1>1, <1>2
  <1>4. PageOK'
    BY <1>1, <1>3 DEF IInv, PageOK, storeVars, Theirs
  <1> QED BY <1>1, <1>4, AnswerTaken

(* A password has come, for the row it was asked for.                      *)
LEMMA RevealedKeeps ==
  ASSUME IInv, NEW s \in Slots, Revealed(s)
  PROVE  IInv'
  <1>1. PICK row : row = calls[s].reply.row
    OBVIOUS
  <1>2. PICK password : password = calls[s].reply.password
    OBVIOUS
  <1>3. /\ calls[s] # NoCall /\ calls[s].stage = "returned" /\ calls[s].then \in {"show", "edit"}
        /\ revealed' = [revealed EXCEPT ![row] = password]
        /\ form' = Form(row, password) \/ form' = form
        /\ calls' = Without(s)
        /\ UNCHANGED <<locked, entries, storeVars, own, deleted>>
    BY <1>1, <1>2 DEF Revealed, Answer, Stage
  <1>4. /\ calls[s].reply \in [row : Rows, password : Kept]
        /\ row \in Known(nextId) /\ password \in Theirs(own, row)
    BY <1>1, <1>2, <1>3, AnswerHere DEF IInv, AnswerForm, AnswerOK
  <1>5. row \in Rows /\ password \in Kept
    BY <1>1, <1>2, <1>4
  <1>6. /\ revealed' \in [Rows -> Kept]
        /\ \A r \in Rows : revealed'[r] \in Theirs(own, r)
    BY <1>3, <1>4, <1>5 DEF IInv, PageOK
  <1>7. /\ form' \in [row : Rows \cup {NewLogin}, current : Kept, shown : BOOLEAN]
        /\ form'.row # NewLogin =>
             form'.row \in Known(nextId) /\ form'.current \in Theirs(own, form'.row)
    <2>1. CASE form' = form
      BY <2>1 DEF IInv, PageOK
    <2>2. CASE form' = Form(row, password)
      BY <1>4, <1>5, <2>2 DEF Form
    <2> QED BY <1>3, <2>1, <2>2
  <1>8. PageOK'
    BY <1>3, <1>6, <1>7 DEF IInv, PageOK, storeVars, Theirs
  <1> QED BY <1>3, <1>8, AnswerTaken

(* A change was made, and the list is loaded again.                        *)
LEMMA ChangedKeeps ==
  ASSUME IInv, NEW s \in Slots, Changed(s)
  PROVE  IInv'
  <1>1. /\ form' = Closed \/ form' = form
        /\ calls' = With(Without(s), Load)
        /\ UNCHANGED <<locked, entries, revealed, storeVars, own, deleted>>
    BY DEF Changed
  <1>2. PICK cs : cs = Without(s)
    OBVIOUS
  <1>3. CallsOK(cs, own, nextId) /\ IdsLeft(cs, nextId) /\ cs[s] = NoCall
    BY <1>2, SlotFreed DEF IInv
  <1>4. PICK call : call = Load
    OBVIOUS
  <1>5. call \in Requests /\ call.stage = "sent" /\ call.method = "list"
    BY <1>4 DEF Load, Call, Requests, RequestsFor
  <1>6. RequestOK(call, own, nextId)
    BY <1>5 DEF RequestOK
  <1>7. CallsOK(With(cs, call), own, nextId) /\ IdsLeft(With(cs, call), nextId)
    BY <1>3, <1>5, <1>6, NewCall
  <1>8. CallsOK(calls, own, nextId)' /\ IdsLeft(calls, nextId)'
    BY <1>1, <1>2, <1>4, <1>7 DEF storeVars
  <1>9. PageOK'
    <2>1. Closed \in [row : Rows \cup {NewLogin}, current : Kept, shown : BOOLEAN]
          /\ Closed.row = NewLogin
      BY DEF Closed, Kept
    <2> QED BY <1>1, <2>1 DEF IInv, PageOK, storeVars, Theirs
  <1> QED BY <1>1, <1>8, <1>9, StoresStay DEF IInv

(* An answer that changes nothing.                                         *)
LEMMA AnswerDropped ==
  ASSUME IInv, NEW s \in Slots, ChangeRefused(s) \/ Dropped(s)
  PROVE  IInv'
  <1>1. calls' = Without(s) /\ UNCHANGED <<pageVars, storeVars, own, deleted>>
    BY DEF ChangeRefused, Dropped
  <1> QED BY <1>1, PageStays, AnswerTaken DEF IInv, storeVars

(* The page begins anew; the server goes on with what it has.              *)
LEMMA ReloadPageKeeps ==
  ASSUME IInv, ReloadPage
  PROVE  IInv'
  <1>1. PICK cs : cs = Orphaned({"list", "reveal"})
    OBVIOUS
  <1>2. /\ FreeSlots # {} /\ calls' = With(cs, Load)
        /\ locked' = FALSE /\ entries' = {} /\ form' = Closed
        /\ revealed' = [row \in Rows |-> Blank]
        /\ UNCHANGED <<storeVars, own, deleted>>
    BY <1>1 DEF ReloadPage
  <1>3. CallsOK(cs, own, nextId) /\ IdsLeft(cs, nextId)
    BY <1>1, OrphanedOK DEF IInv
  <1>4. \E s \in Slots : cs[s] = NoCall
    BY <1>1, <1>2 DEF FreeSlots, Orphaned, Stage
  <1>5. PICK call : call = Load
    OBVIOUS
  <1>6. call \in Requests /\ call.stage = "sent" /\ call.method = "list"
    BY <1>5 DEF Load, Call, Requests, RequestsFor
  <1>7. RequestOK(call, own, nextId)
    BY <1>6 DEF RequestOK
  <1>8. CallsOK(With(cs, call), own, nextId) /\ IdsLeft(With(cs, call), nextId)
    BY <1>3, <1>4, <1>6, <1>7, NewCall
  <1>9. CallsOK(calls, own, nextId)' /\ IdsLeft(calls, nextId)'
    BY <1>2, <1>5, <1>8 DEF storeVars
  <1>10. PageOK'
    <2>1. Closed \in [row : Rows \cup {NewLogin}, current : Kept, shown : BOOLEAN]
          /\ Closed.row = NewLogin
      BY DEF Closed, Kept
    <2>2. revealed' \in [Rows -> Kept] /\ \A row \in Rows : revealed'[row] = Blank
      BY <1>2 DEF Kept
    <2> QED BY <1>2, <2>1, <2>2 DEF PageOK, Theirs
  <1> QED BY <1>2, <1>9, <1>10, StoresStay DEF IInv

-----------------------------------------------------------------------------
(* The invariant.                                                          *)

(* It holds when the page is opened: the vault's ids are those of its      *)
(* logins, counted from 1.                                                 *)
LEMMA InitIInv == Init => IInv
  <1> SUFFICES ASSUME Init PROVE IInv
    OBVIOUS
  <1>1. PICK n : n = Len(Saved)
    OBVIOUS
  <1>2. /\ DOMAIN Saved = 1..n /\ n \in Nat /\ n =< MaxId /\ MaxId \in Nat
        /\ \A i \in DOMAIN Saved : Saved[i] \in Kept
        /\ \A i \in DOMAIN SavedInBitwarden : SavedInBitwarden[i] \in Kept
    <2>1. Saved \in Seq(Kept) /\ SavedInBitwarden \in Seq(Kept)
      BY SavedAssumption DEF Kept
    <2> QED BY <1>1, <2>1, SavedAssumption
  <1>3. nextId = n + 1
    <2>1. Cardinality(1..n) = n
      <3>1. Cardinality(1..n) = IF 1 > n THEN 0 ELSE n - 1 + 1
        BY <1>2, FS_Interval
      <3> QED BY <1>2, <3>1
    <2> QED BY <1>2, <2>1 DEF Init
  <1>4. StoresOK
    <2> DEFINE held == {r \in Rows : IF Local(r) THEN r[2] \in DOMAIN Saved
                                                 ELSE r[2] \in DOMAIN SavedInBitwarden}
    <2>1. /\ DOMAIN logins = held
          /\ \A row \in held : logins[row] = IF Local(row) THEN Saved[row[2]]
                                                           ELSE SavedInBitwarden[row[2]]
      BY DEF Init
    <2>2. held \subseteq Known(nextId)
      BY <1>2, <1>3 DEF Known, Rows
    <2>3. \A row \in held : logins[row] \in Kept
      BY <1>2, <2>1
    <2> HIDE DEF held
    <2>4. own = [row \in Rows |-> {logins[r] : r \in held \cap {row}}]
      BY <2>1 DEF Init
    <2>5. own \in [Rows -> SUBSET Kept]
      BY <2>3, <2>4
    <2>6. \A row \in held : logins[row] \in Theirs(own, row)
      BY <2>2, <2>4 DEF Theirs, Known
    <2> QED BY <2>1, <2>2, <2>3, <2>5, <2>6 DEF StoresOK, Init
  <1>5. PageOK
    BY DEF Init, PageOK, Closed, Theirs, Kept
  <1>6. PICK none : none = [s \in Slots |-> NoCall]
    OBVIOUS
  <1>7. CallsOK(none, own, nextId)
    BY <1>6 DEF CallsOK, CallOK, Handled
  <1>8. IdsLeft(none, nextId)
    <2>1. AddingOf(none) = {}
      BY <1>6 DEF AddingOf, Adds
    <2>2. Cardinality(AddingOf(none)) = 0
      BY <2>1, FS_EmptySet
    <2> QED BY <1>2, <1>3, <2>2 DEF IdsLeft
  <1>9. \E s \in Slots : none[s] = NoCall
    <2>1. 1 \in Slots
      BY CallsAssumption DEF Slots
    <2> QED BY <1>6, <2>1
  <1>10. PICK call : call = Load
    OBVIOUS
  <1>11. call \in Requests /\ call.stage = "sent" /\ call.method = "list"
    BY <1>10 DEF Load, Call, Requests, RequestsFor
  <1>12. RequestOK(call, own, nextId)
    BY <1>11 DEF RequestOK
  <1>13. CallsOK(With(none, call), own, nextId) /\ IdsLeft(With(none, call), nextId)
    BY <1>7, <1>8, <1>9, <1>11, <1>12, NewCall
  <1>14. calls = With(none, call)
    BY <1>6, <1>10 DEF Init
  <1> QED BY <1>4, <1>5, <1>13, <1>14 DEF IInv

(* Every step keeps it.                                                    *)
LEMMA NextIInv == IInv /\ [Next]_vars => IInv'
  <1> SUFFICES ASSUME IInv, [Next]_vars PROVE IInv'
    OBVIOUS
  <1>1. CASE UNCHANGED vars
    BY <1>1, StoresStay, PageStays DEF IInv, vars, storeVars
  <1>2. ASSUME NEW s \in Slots, Server(s) PROVE IInv'
    BY <1>2, TakeRequestKeeps
  <1>3. ASSUME NEW s \in Slots, Dispatch(s) PROVE IInv'
    BY <1>3, DispatchListKeeps, DispatchRevealKeeps, DispatchAddKeeps, DispatchUpdateKeeps,
       DispatchDeleteKeeps DEF Dispatch
  <1>4. ASSUME NEW s \in Slots, Continue(s) PROVE IInv'
    BY <1>4, LoadedKeeps, RevealedKeeps, ChangedKeeps, AnswerDropped DEF Continue
  <1>5. CASE UnlockVault \/ BitwardenChanges
    <2>1. UNCHANGED <<calls, pageVars, logins, nextId, own, deleted>>
      BY <1>5 DEF UnlockVault, BitwardenChanges
    <2>2. unlocked' \in BOOLEAN /\ bitwarden' \in BOOLEAN
      BY <1>5 DEF UnlockVault, BitwardenChanges, IInv, StoresOK
    <2>3. StoresOK'
      BY <2>1, <2>2 DEF IInv, StoresOK, Theirs
    <2> QED BY <2>1, <2>3, PageStays DEF IInv
  <1>6. CASE EditKnown \/ ClickAdd \/ CancelForm
    BY <1>6, FormKeeps
  <1>7. CASE AskPassword \/ ClickDelete \/ SubmitAdd \/ SubmitEdit \/ ReloadPage
    BY <1>7, AskPasswordKeeps, ClickDeleteKeeps, SubmitAddKeeps, SubmitEditKeeps, ReloadPageKeeps
  <1> QED BY <1>1, <1>2, <1>3, <1>4, <1>5, <1>6, <1>7 DEF Next

(* So it always holds.                                                     *)
LEMMA AlwaysIInv == Spec => []IInv
  BY InitIInv, NextIInv, PTL DEF Spec

-----------------------------------------------------------------------------
(* What follows from it.                                                   *)

(* The page, the stores and the calls between them have their types: the   *)
(* server handles one call at a time, and the vault's logins have ids it   *)
(* gave.                                                                   *)
THEOREM PasswordsTypesCorrect == Spec => []TypeOK
  <1>1. IInv => TypeOK
    <2> SUFFICES ASSUME IInv PROVE TypeOK
      OBVIOUS
    <2>1. Cardinality({s \in Slots : Stage(s) = "handled"}) =< 1
      <3> DEFINE H == {s \in Slots : Stage(s) = "handled"}
      <3>1. \A s, t \in H : s = t
        BY DEF IInv, CallsOK, Handled, Stage
      <3> HIDE DEF H
      <3>2. CASE H = {}
        BY <3>2, FS_EmptySet DEF H
      <3>3. ASSUME NEW t \in H PROVE Cardinality(H) =< 1
        <4>1. H = {t}
          BY <3>1
        <4>2. Cardinality(H) = 1
          BY <4>1, FS_Singleton
        <4> QED BY <4>2
      <3> QED BY <3>2, <3>3 DEF H
    <2>2. nextId \in 1..(MaxId + 1) /\ calls \in [Slots -> Requests \cup Answers \cup {NoCall}]
      BY DEF IInv, IdsLeft, CallsOK
    <2>3. /\ entries \subseteq Rows
          /\ DOMAIN logins \subseteq Rows
          /\ \A row \in DOMAIN logins :
               logins[row] \in Passwords \cup {Blank} /\ (Local(row) => row[2] < nextId)
      BY DEF IInv, StoresOK, PageOK, Known, Kept
    <2> QED BY <2>1, <2>2, <2>3 DEF TypeOK, IInv, StoresOK, PageOK, Kept
  <1> QED BY <1>1, AlwaysIInv, PTL

(* However the user's clicks, the calls and their answers interleave, a    *)
(* login holds, and the page shows, keeps and sends for it, only passwords *)
(* that were given for it (revealPassword, openForm, entryKey).            *)
THEOREM PasswordsAreTheirs == Spec => []PasswordsStayTheirs
  <1>1. IInv => PasswordsStayTheirs
    BY DEF IInv, StoresOK, PageOK, PasswordsStayTheirs, Theirs
  <1> QED BY <1>1, AlwaysIInv, PTL

(* A login once deleted is never there again: no update inserts it, no id  *)
(* is given twice (PasswordStore::update, AUTOINCREMENT).                  *)
THEOREM DeletedNeverReturns == Spec => []DeletedStayDeleted
  <1>1. IInv => DeletedStayDeleted
    BY DEF IInv, StoresOK, DeletedStayDeleted
  <1> QED BY <1>1, AlwaysIInv, PTL
===============================================================================
