----------------------- MODULE PageManagerOps_proofs -----------------------
(***************************************************************************)
(* What the methods of PageManager do to a consistent PageManager: the     *)
(* lemmas every module that composes the methods proves with.  At the end, *)
(* the theorems about a PageManager that an arbitrary caller drives.       *)
(***************************************************************************)
EXTENDS PageManagerOps, VecFilter, TLAPS, FiniteSetTheorems, FunctionTheorems,
        SequenceTheorems, WellFoundedInduction

-----------------------------------------------------------------------------
(* The Vec as a set.                                                       *)

(* Appending a value adds it to the elements, and nothing else.            *)
LEMMA ElementsAppend ==
  ASSUME NEW s \in Seq(Nat), NEW e \in Nat
  PROVE  /\ Append(s, e) \in Seq(Nat)
         /\ Len(Append(s, e)) = Len(s) + 1
         /\ \A i \in 1..Len(s) : Append(s, e)[i] = s[i]
         /\ Append(s, e)[Len(s) + 1] = e
         /\ Elements(Append(s, e)) = Elements(s) \cup {e}
  <1> DEFINE t == Append(s, e)
  <1>1. /\ t \in Seq(Nat)
        /\ Len(t) = Len(s) + 1
        /\ \A i \in 1..Len(s) : t[i] = s[i]
        /\ t[Len(s) + 1] = e
    BY AppendProperties
  <1>2. Len(s) \in Nat
    BY LenProperties
  <1>3. \A i \in 1..Len(t) : i \in 1..Len(s) \/ i = Len(s) + 1
    BY <1>1, <1>2
  <1>4. \A i \in 1..Len(s) : i \in 1..Len(t)
    BY <1>1, <1>2
  <1>5. Len(s) + 1 \in 1..Len(t)
    BY <1>1, <1>2
  <1>6. Elements(t) = Elements(s) \cup {e}
    BY <1>1, <1>3, <1>4, <1>5 DEF Elements
  <1> QED BY <1>1, <1>6

(* Vec::remove at k: what is before k stays, what is after moves down one. *)
LEMMA VecRemoveAt ==
  ASSUME NEW s \in Seq(Nat), NEW k \in 1..Len(s)
  PROVE  /\ VecRemove(s, k) \in Seq(Nat)
         /\ Len(VecRemove(s, k)) = Len(s) - 1
         /\ \A i \in 1..(Len(s) - 1) :
              /\ i < k => VecRemove(s, k)[i] = s[i]
              /\ i >= k => VecRemove(s, k)[i] = s[i + 1]
  <1> DEFINE a == SubSeq(s, 1, k - 1)
             b == SubSeq(s, k + 1, Len(s))
  <1>1. Len(s) \in Nat /\ k \in Nat /\ 1 <= k /\ k <= Len(s)
    BY LenProperties
  <1>2. /\ a \in Seq(Nat)
        /\ Len(a) = k - 1
        /\ \A i \in 1..(k - 1) : a[i] = s[i]
    <2>1. \A i \in 1..(k - 1) : s[i] \in Nat
      BY <1>1, ElementOfSeq
    <2>2. /\ a \in Seq(Nat)
          /\ Len(a) = IF 1 <= k - 1 THEN (k - 1) - 1 + 1 ELSE 0
          /\ \A i \in 1 .. ((k - 1) - 1 + 1) : a[i] = s[1 + i - 1]
      BY <1>1, <2>1, SubSeqProperties
    <2> QED BY <1>1, <2>2
  <1>3. /\ b \in Seq(Nat)
        /\ Len(b) = Len(s) - k
        /\ \A i \in 1..(Len(s) - k) : b[i] = s[i + k]
    <2>1. \A i \in (k + 1)..Len(s) : s[i] \in Nat
      BY <1>1, ElementOfSeq
    <2>2. /\ b \in Seq(Nat)
          /\ Len(b) = IF k + 1 <= Len(s) THEN Len(s) - (k + 1) + 1 ELSE 0
          /\ \A i \in 1 .. (Len(s) - (k + 1) + 1) : b[i] = s[(k + 1) + i - 1]
      BY <1>1, <2>1, SubSeqProperties
    <2> QED BY <1>1, <2>2
  <1>4. /\ a \o b \in Seq(Nat)
        /\ Len(a \o b) = Len(a) + Len(b)
        /\ \A i \in 1..(Len(a) + Len(b)) :
             (a \o b)[i] = IF i <= Len(a) THEN a[i] ELSE b[i - Len(a)]
    BY <1>2, <1>3, ConcatProperties
  <1> HIDE DEF a, b
  <1>5. Len(a \o b) = Len(s) - 1
    BY <1>1, <1>2, <1>3, <1>4
  <1>6. ASSUME NEW i \in 1..(Len(s) - 1)
        PROVE  /\ i < k => (a \o b)[i] = s[i]
               /\ i >= k => (a \o b)[i] = s[i + 1]
    <2> DEFINE j == i - (k - 1)
    <2>1. (a \o b)[i] = IF i <= k - 1 THEN a[i] ELSE b[j]
      <3>1. i \in 1..(Len(a) + Len(b))
        BY <1>1, <1>2, <1>3
      <3>2. (a \o b)[i] = IF i <= Len(a) THEN a[i] ELSE b[i - Len(a)]
        BY <1>4, <3>1
      <3> QED BY <1>2, <3>2
    <2>2. i < k => (a \o b)[i] = s[i]
      BY <1>1, <1>2, <2>1
    <2>3. ASSUME i >= k PROVE (a \o b)[i] = s[i + 1]
      <3>1. j \in 1..(Len(s) - k) /\ j + k = i + 1 /\ ~(i <= k - 1)
        BY <1>1, <2>3
      <3>2. (a \o b)[i] = b[j]
        BY <2>1, <3>1
      <3> HIDE DEF j
      <3>3. b[j] = s[j + k]
        BY <1>3, <3>1
      <3> QED BY <3>1, <3>2, <3>3
    <2> QED BY <2>2, <2>3
  <1>7. VecRemove(s, k) = a \o b
    BY DEF VecRemove, a, b
  <1> QED BY <1>4, <1>5, <1>6, <1>7

Injective(s) == \A i, j \in 1..Len(s) : s[i] = s[j] => i = j

(* Vec::remove takes exactly one value out of a Vec without duplicates.    *)
LEMMA VecRemoveElement ==
  ASSUME NEW s \in Seq(Nat), Injective(s), NEW k \in 1..Len(s)
  PROVE  /\ Injective(VecRemove(s, k))
         /\ Elements(VecRemove(s, k)) = Elements(s) \ {s[k]}
  <1> DEFINE t == VecRemove(s, k)
  <1>1. /\ Len(t) = Len(s) - 1
        /\ \A i \in 1..(Len(s) - 1) :
             /\ i < k => t[i] = s[i]
             /\ i >= k => t[i] = s[i + 1]
    BY VecRemoveAt
  <1>2. Len(s) \in Nat /\ k \in Nat /\ 1 <= k /\ k <= Len(s)
    BY LenProperties
  <1> HIDE DEF t
  <1>3. ASSUME NEW i \in 1..Len(t), NEW j \in 1..Len(t), t[i] = t[j] PROVE i = j
    <2>1. /\ i \in 1..Len(s) /\ i + 1 \in 1..Len(s)
          /\ j \in 1..Len(s) /\ j + 1 \in 1..Len(s)
      BY <1>1, <1>2
    <2>2. CASE i < k /\ j < k
      BY <1>1, <1>2, <1>3, <2>1, <2>2 DEF Injective
    <2>3. CASE i >= k /\ j >= k
      BY SMTT(30), <1>1, <1>2, <1>3, <2>1, <2>3 DEF Injective
    <2>4. CASE i < k /\ j >= k
      BY <1>1, <1>2, <1>3, <2>1, <2>4 DEF Injective
    <2>5. CASE i >= k /\ j < k
      BY <1>1, <1>2, <1>3, <2>1, <2>5 DEF Injective
    <2> QED BY <1>2, <2>1, <2>2, <2>3, <2>4, <2>5
  <1>4. ASSUME NEW x \in Elements(t) PROVE x \in Elements(s) \ {s[k]}
    <2>1. PICK i \in 1..Len(t) : x = t[i]
      BY DEF Elements
    <2>2. CASE i < k
      <3>1. i \in 1..Len(s) /\ x = s[i] /\ i # k
        BY <1>1, <1>2, <2>1, <2>2
      <3>2. s[i] # s[k]
        BY <3>1 DEF Injective
      <3> QED BY <3>1, <3>2 DEF Elements
    <2>3. CASE i >= k
      <3>1. i + 1 \in 1..Len(s) /\ x = s[i + 1] /\ i + 1 # k
        BY <1>1, <1>2, <2>1, <2>3
      <3>2. s[i + 1] # s[k]
        BY <3>1 DEF Injective
      <3> QED BY <3>1, <3>2 DEF Elements
    <2> QED BY <1>1, <1>2, <2>2, <2>3
  <1>5. ASSUME NEW x \in Elements(s) \ {s[k]} PROVE x \in Elements(t)
    <2>1. PICK i \in 1..Len(s) : x = s[i]
      BY DEF Elements
    <2>2. CASE i < k
      <3>1. i \in 1..Len(t) /\ t[i] = s[i]
        BY <1>1, <1>2, <2>2
      <3> QED BY <2>1, <3>1 DEF Elements
    <2>3. CASE i > k
      <3>1. i - 1 \in 1..Len(t) /\ t[i - 1] = s[i]
        BY <1>1, <1>2, <2>3
      <3> QED BY <2>1, <3>1 DEF Elements
    <2> QED BY <1>2, <2>1, <2>2, <2>3
  <1> QED BY <1>3, <1>4, <1>5 DEF Injective, t
-----------------------------------------------------------------------------
Consistent(c) == CoreTypeOK(c) /\ IdsUnique(c) /\ AgesTotal(c)

(* The loaded pages can be counted: they are pages of the Vec.             *)
LEMMA LoadedFinite ==
  ASSUME NEW c, Consistent(c)
  PROVE  IsFiniteSet(Live(c)) /\ IsFiniteSet(c.loaded) /\ IsFiniteSet(Candidates(c))
  <1>1. IsFiniteSet(0 .. c.next_id - 1)
    BY FS_Interval DEF Consistent, CoreTypeOK
  <1>2. IsFiniteSet(Live(c))
    BY <1>1, FS_Subset DEF Consistent, IdsUnique
  <1>3. c.loaded \subseteq Live(c) /\ Candidates(c) \subseteq Live(c)
    BY DEF Consistent, CoreTypeOK, Candidates
  <1> QED BY <1>2, <1>3, FS_Subset

(* position finds an open page at one index of the Vec.                    *)
LEMMA PositionOf ==
  ASSUME NEW c, Consistent(c), NEW id \in Live(c)
  PROVE  Position(c, id) \in 1..Len(c.pages) /\ c.pages[Position(c, id)] = id
  <1>1. \E i \in 1..Len(c.pages) : c.pages[i] = id
    BY DEF Live, Elements
  <1> QED BY <1>1 DEF Position

(* allocate_id hands out an id no page has, and changes nothing else.      *)
LEMMA AllocateOK ==
  ASSUME NEW c, Consistent(c)
  PROVE  /\ Consistent(AllocateId(c))
         /\ AllocateId(c).next_id = c.next_id + 1
         /\ Live(AllocateId(c)) = Live(c)
         /\ \A f \in Fields \ {"next_id"} : AllocateId(c)[f] = c[f]
  <1> DEFINE d == AllocateId(c)
  <1>1. /\ DOMAIN d = Fields
        /\ d.next_id = c.next_id + 1
        /\ \A f \in Fields \ {"next_id"} : d[f] = c[f]
    BY DEF Consistent, CoreTypeOK, Fields, AllocateId
  <1>2. Live(d) = Live(c)
    BY <1>1 DEF Live, Fields
  <1> HIDE DEF d
  <1>3. CoreTypeOK(d) /\ IdsUnique(d) /\ AgesTotal(d)
    BY <1>1, <1>2 DEF Consistent, CoreTypeOK, IdsUnique, AgesTotal, Fields
  <1> QED BY <1>1, <1>2, <1>3 DEF Consistent, d

(* Pushing a page under an id not in the Vec keeps it consistent, with the *)
(* new page the youngest.                                                  *)
LEMMA PushedOK ==
  ASSUME NEW c, Consistent(c), NEW id \in 0 .. c.next_id - 1, id \notin Live(c)
  PROVE  /\ Consistent(Pushed(c, id))
         /\ Live(Pushed(c, id)) = Live(c) \cup {id}
         /\ \A f \in Fields \ {"pages", "accessed"} : Pushed(c, id)[f] = c[f]
  <1> DEFINE d == Pushed(c, id)
  <1>1. /\ DOMAIN d = Fields
        /\ d.pages = Append(c.pages, id)
        /\ d.accessed = [q \in Live(c) \cup {id} |->
                            IF q = id THEN Len(c.pages) + 1 ELSE c.accessed[q]]
        /\ \A f \in Fields \ {"pages", "accessed"} : d[f] = c[f]
    BY DEF Consistent, CoreTypeOK, Fields, Pushed
  <1>2. id \in Nat /\ c.next_id \in Nat /\ c.pages \in Seq(Nat) /\ Len(c.pages) \in Nat
    BY LenProperties DEF Consistent, CoreTypeOK
  <1> HIDE DEF d
  <1>3. /\ d.pages \in Seq(Nat)
        /\ Len(d.pages) = Len(c.pages) + 1
        /\ \A i \in 1..Len(c.pages) : d.pages[i] = c.pages[i]
        /\ d.pages[Len(c.pages) + 1] = id
        /\ Live(d) = Live(c) \cup {id}
    BY <1>1, <1>2, ElementsAppend DEF Live
  <1>4. \A q \in Live(c) : c.accessed[q] \in 1..Len(c.pages)
    BY DEF Consistent, CoreTypeOK
  <1>5. CoreTypeOK(d)
    <2>1. d.accessed \in [Live(d) -> 1..Len(d.pages)]
      BY <1>1, <1>2, <1>3, <1>4
    <2> QED BY <1>1, <1>3, <2>1 DEF Consistent, CoreTypeOK, Fields
  <1>6. IdsUnique(d)
    <2>1. ASSUME NEW i \in 1..Len(d.pages), NEW j \in 1..Len(d.pages),
                 d.pages[i] = d.pages[j]
          PROVE  i = j
      <3>1. \A k \in 1..Len(c.pages) : c.pages[k] \in Live(c)
        BY DEF Live, Elements
      <3>2. \A k \in 1..Len(d.pages) : k \in 1..Len(c.pages) \/ k = Len(c.pages) + 1
        BY <1>2, <1>3
      <3> QED BY <1>3, <2>1, <3>1, <3>2 DEF Consistent, IdsUnique
    <2>2. Live(d) \subseteq 0 .. d.next_id - 1
      BY <1>1, <1>3 DEF Consistent, IdsUnique, Fields
    <2> QED BY <2>1, <2>2 DEF IdsUnique
  <1>7. AgesTotal(d)
    BY <1>1, <1>2, <1>3, <1>4 DEF Consistent, AgesTotal
  <1> QED BY <1>1, <1>3, <1>5, <1>6, <1>7 DEF Consistent, d

(* Any change of the flags that keeps them on pages of the Vec is harmless. *)
LEMMA FlagsOK ==
  ASSUME NEW c, Consistent(c), NEW d, DOMAIN d = Fields,
         d.pages = c.pages, d.accessed = c.accessed, d.next_id = c.next_id,
         d.active \in Nat \cup {NoPage}, d.limit \in Nat \cup {Unlimited},
         d.loaded \subseteq Live(c), d.engine \subseteq Live(c)
  PROVE  Consistent(d) /\ Live(d) = Live(c)
  <1>1. Live(d) = Live(c)
    BY DEF Live
  <1>2. CoreTypeOK(d) /\ IdsUnique(d) /\ AgesTotal(d)
    BY <1>1 DEF Consistent, CoreTypeOK, IdsUnique, AgesTotal
  <1> QED BY <1>1, <1>2 DEF Consistent

(* enforce_loaded_limit changes the loaded flags of open pages only.       *)
LEMMA EnforcedOK ==
  ASSUME NEW c, Consistent(c)
  PROVE  /\ Consistent(Enforced(c))
         /\ Live(Enforced(c)) = Live(c)
         /\ Enforced(c).loaded = c.loaded \ Evicted(c)
         /\ \A f \in Fields \ {"loaded"} : Enforced(c)[f] = c[f]
  <1> DEFINE d == Enforced(c)
  <1>1. /\ DOMAIN d = Fields
        /\ d.loaded = c.loaded \ Evicted(c)
        /\ \A f \in Fields \ {"loaded"} : d[f] = c[f]
    BY DEF Consistent, CoreTypeOK, Fields, Enforced
  <1> HIDE DEF d
  <1>2. Consistent(d) /\ Live(d) = Live(c)
    BY <1>1, FlagsOK DEF Consistent, CoreTypeOK, Fields
  <1> QED BY <1>1, <1>2 DEF d

(* insert_background before its enforcement keeps the fields consistent.   *)
LEMMA InsertedBackgroundOK ==
  ASSUME NEW c, Consistent(c), NEW id \in 0 .. c.next_id - 1, id \notin Live(c)
  PROVE  /\ Consistent(InsertedBackground(c, id))
         /\ Live(InsertedBackground(c, id)) = Live(c) \cup {id}
         /\ InsertedBackground(c, id).loaded = c.loaded \cup {id}
         /\ InsertedBackground(c, id).engine = c.engine \cup {id}
         /\ \A f \in {"active", "limit", "next_id"} : InsertedBackground(c, id)[f] = c[f]
  <1> DEFINE p == Pushed(c, id)
             d == InsertedBackground(c, id)
  <1>1. /\ Consistent(p)
        /\ Live(p) = Live(c) \cup {id}
        /\ \A f \in Fields \ {"pages", "accessed"} : p[f] = c[f]
    BY PushedOK
  <1>2. d = [p EXCEPT !.loaded = @ \cup {id}, !.engine = @ \cup {id}]
    BY DEF InsertedBackground
  <1> HIDE DEF p, d
  <1>3. /\ DOMAIN d = Fields
        /\ d.loaded = c.loaded \cup {id}
        /\ d.engine = c.engine \cup {id}
        /\ \A f \in Fields \ {"loaded", "engine"} : d[f] = p[f]
    BY <1>1, <1>2 DEF Consistent, CoreTypeOK, Fields
  <1>4. d.loaded \subseteq Live(p) /\ d.engine \subseteq Live(p)
    BY <1>1, <1>3 DEF Consistent, CoreTypeOK
  <1>5. Consistent(d) /\ Live(d) = Live(p)
    BY <1>1, <1>3, <1>4, FlagsOK DEF Consistent, CoreTypeOK, Fields
  <1> QED BY <1>1, <1>3, <1>5 DEF d, Fields

(* insert before its enforcement keeps the fields consistent.              *)
LEMMA InsertedOK ==
  ASSUME NEW c, Consistent(c), NEW id \in 0 .. c.next_id - 1, id \notin Live(c)
  PROVE  /\ Consistent(Inserted(c, id))
         /\ Live(Inserted(c, id)) = Live(c) \cup {id}
         /\ Inserted(c, id).loaded = c.loaded \cup {id}
         /\ Inserted(c, id).engine = c.engine \cup {id}
         /\ Inserted(c, id).active = id
         /\ \A f \in {"limit", "next_id"} : Inserted(c, id)[f] = c[f]
  <1> DEFINE p == Pushed(c, id)
             d == Inserted(c, id)
  <1>1. /\ Consistent(p)
        /\ Live(p) = Live(c) \cup {id}
        /\ \A f \in Fields \ {"pages", "accessed"} : p[f] = c[f]
    BY PushedOK
  <1>2. d = [p EXCEPT !.loaded = @ \cup {id}, !.engine = @ \cup {id}, !.active = id]
    BY DEF Inserted
  <1>3. id \in Nat
    BY DEF Consistent, CoreTypeOK
  <1> HIDE DEF p, d
  <1>4. /\ DOMAIN d = Fields
        /\ d.loaded = c.loaded \cup {id}
        /\ d.engine = c.engine \cup {id}
        /\ d.active = id
        /\ \A f \in Fields \ {"loaded", "engine", "active"} : d[f] = p[f]
    BY <1>1, <1>2 DEF Consistent, CoreTypeOK, Fields
  <1>5. d.loaded \subseteq Live(p) /\ d.engine \subseteq Live(p)
    BY <1>1, <1>4 DEF Consistent, CoreTypeOK
  <1>6. Consistent(d) /\ Live(d) = Live(p)
    BY <1>1, <1>3, <1>4, <1>5, FlagsOK DEF Consistent, CoreTypeOK, Fields
  <1> QED BY <1>1, <1>4, <1>6 DEF d, Fields

(* What insert and insert_background do to the Vec.                        *)
LEMMA InsertedPages ==
  ASSUME NEW c, Consistent(c), NEW id
  PROVE  /\ Inserted(c, id).pages = Append(c.pages, id)
         /\ InsertedBackground(c, id).pages = Append(c.pages, id)
  <1> DEFINE p == Pushed(c, id)
  <1>1. DOMAIN p = Fields /\ p.pages = Append(c.pages, id)
    BY DEF Pushed, Consistent, CoreTypeOK, Fields
  <1> HIDE DEF p
  <1>2. /\ [p EXCEPT !.loaded = @ \cup {id}, !.engine = @ \cup {id}, !.active = id].pages = p.pages
        /\ [p EXCEPT !.loaded = @ \cup {id}, !.engine = @ \cup {id}].pages = p.pages
    BY <1>1 DEF Fields
  <1> QED BY <1>1, <1>2 DEF Inserted, InsertedBackground, p

(* Engines that are dropped leave everything else as it is.                *)
LEMMA EnginesDroppedOK ==
  ASSUME NEW c, Consistent(c), NEW gone
  PROVE  /\ Consistent([c EXCEPT !.engine = @ \ gone])
         /\ Live([c EXCEPT !.engine = @ \ gone]) = Live(c)
         /\ [c EXCEPT !.engine = @ \ gone].engine = c.engine \ gone
         /\ \A f \in Fields \ {"engine"} : [c EXCEPT !.engine = @ \ gone][f] = c[f]
  <1> DEFINE d == [c EXCEPT !.engine = @ \ gone]
  <1>1. /\ DOMAIN d = Fields
        /\ d.engine = c.engine \ gone
        /\ \A f \in Fields \ {"engine"} : d[f] = c[f]
    BY DEF Consistent, CoreTypeOK, Fields
  <1> HIDE DEF d
  <1>2. Consistent(d) /\ Live(d) = Live(c)
    BY <1>1, FlagsOK DEF Consistent, CoreTypeOK, Fields
  <1> QED BY <1>1, <1>2 DEF d

(* PageManager::new has no pages.                                          *)
LEMMA NewOK ==
  ASSUME NEW limit \in Nat \cup {Unlimited}
  PROVE  /\ Consistent(New(limit)) /\ Live(New(limit)) = {}
         /\ New(limit).pages = <<>> /\ Len(New(limit).pages) = 0
         /\ New(limit).active = NoPage /\ New(limit).next_id = 0 /\ New(limit).limit = limit
         /\ New(limit).loaded = {} /\ New(limit).engine = {}
  <1>1. <<>> \in Seq(Nat) /\ Len(<<>>) = 0 /\ 1..0 = {} /\ 0 .. (0 - 1) = {}
    OBVIOUS
  <1>2. Live(New(limit)) = {}
    BY <1>1 DEF New, Live, Elements
  <1>3. [q \in {} |-> 0] \in [{} -> 1..0]
    OBVIOUS
  <1> QED BY <1>1, <1>2, <1>3 DEF New, Consistent, CoreTypeOK, IdsUnique, AgesTotal, Fields

(* Assigning max_loaded_pages leaves the pages as they are.                *)
LEMMA RelimitedOK ==
  ASSUME NEW c, Consistent(c), NEW limit \in Nat \cup {Unlimited}
  PROVE  /\ Consistent(Relimited(c, limit))
         /\ Live(Relimited(c, limit)) = Live(c)
         /\ Relimited(c, limit).limit = limit
         /\ \A f \in Fields \ {"limit"} : Relimited(c, limit)[f] = c[f]
  <1> DEFINE d == Relimited(c, limit)
  <1>1. /\ DOMAIN d = Fields
        /\ d.limit = limit
        /\ \A f \in Fields \ {"limit"} : d[f] = c[f]
    BY DEF Consistent, CoreTypeOK, Fields, Relimited
  <1> HIDE DEF d
  <1>2. Consistent(d) /\ Live(d) = Live(c)
    BY <1>1, FlagsOK DEF Consistent, CoreTypeOK, Fields
  <1> QED BY <1>1, <1>2 DEF d

(* take_engine leaves the pages as they are.                               *)
LEMMA TakeEngineOK ==
  ASSUME NEW c, Consistent(c), NEW id
  PROVE  /\ Consistent(TakeEngine(c, id))
         /\ Live(TakeEngine(c, id)) = Live(c)
         /\ TakeEngine(c, id).engine = c.engine \ {id}
         /\ \A f \in Fields \ {"engine"} : TakeEngine(c, id)[f] = c[f]
  <1> DEFINE d == TakeEngine(c, id)
  <1>1. /\ DOMAIN d = Fields
        /\ d.engine = c.engine \ {id}
        /\ \A f \in Fields \ {"engine"} : d[f] = c[f]
    BY DEF Consistent, CoreTypeOK, Fields, TakeEngine
  <1> HIDE DEF d
  <1>2. Consistent(d) /\ Live(d) = Live(c)
    BY <1>1, FlagsOK DEF Consistent, CoreTypeOK, Fields
  <1> QED BY <1>1, <1>2 DEF d

(* install_engine gives an engine to an open page or to none.              *)
LEMMA InstallEngineOK ==
  ASSUME NEW c, Consistent(c), NEW id
  PROVE  /\ Consistent(InstallEngine(c, id))
         /\ Live(InstallEngine(c, id)) = Live(c)
         /\ InstallEngine(c, id).engine = c.engine \cup ({id} \cap Live(c))
         /\ \A f \in Fields \ {"engine"} : InstallEngine(c, id)[f] = c[f]
  <1> DEFINE d == InstallEngine(c, id)
  <1>1. /\ DOMAIN d = Fields
        /\ d.engine = c.engine \cup ({id} \cap Live(c))
        /\ \A f \in Fields \ {"engine"} : d[f] = c[f]
    BY DEF Consistent, CoreTypeOK, Fields, InstallEngine
  <1> HIDE DEF d
  <1>2. Consistent(d) /\ Live(d) = Live(c)
    BY <1>1, FlagsOK DEF Consistent, CoreTypeOK, Fields
  <1> QED BY <1>1, <1>2 DEF d

(* set_active reorders the ages of the open pages and keeps them distinct. *)
LEMMA SetActiveOK ==
  ASSUME NEW c, Consistent(c), NEW id \in Nat
  PROVE  /\ Consistent(SetActive(c, id))
         /\ Live(SetActive(c, id)) = Live(c)
         /\ SetActive(c, id).active = id
         /\ SetActive(c, id).loaded = c.loaded \cup ({id} \cap Live(c))
         /\ \A f \in {"pages", "engine", "limit", "next_id"} : SetActive(c, id)[f] = c[f]
  <1> DEFINE d == SetActive(c, id)
  <1>1. CASE id \notin Live(c)
    <2>1. /\ DOMAIN d = Fields
          /\ d.active = id
          /\ \A f \in Fields \ {"active"} : d[f] = c[f]
      BY <1>1 DEF Consistent, CoreTypeOK, Fields, SetActive
    <2> HIDE DEF d
    <2>2. Consistent(d) /\ Live(d) = Live(c)
      BY <2>1, FlagsOK DEF Consistent, CoreTypeOK, Fields
    <2> QED BY <1>1, <2>1, <2>2 DEF d, Fields
  <1>2. CASE id \in Live(c)
    <2>1. /\ DOMAIN d = Fields
          /\ d.active = id
          /\ d.loaded = c.loaded \cup {id}
          /\ d.accessed = Touched(c, id)
          /\ \A f \in {"pages", "engine", "limit", "next_id"} : d[f] = c[f]
      BY <1>2 DEF Consistent, CoreTypeOK, Fields, SetActive
    <2> HIDE DEF d
    <2>2. Live(d) = Live(c)
      BY <2>1 DEF Live
    <2> DEFINE n == Len(c.pages)
               a == c.accessed[id]
    <2>3. n \in Nat /\ a \in 1..n /\ \A q \in Live(c) : c.accessed[q] \in 1..n
      BY <1>2, LenProperties DEF Consistent, CoreTypeOK
    <2>4. /\ DOMAIN d.accessed = Live(c)
          /\ d.accessed[id] = n
          /\ \A q \in Live(c) \ {id} :
               /\ c.accessed[q] > a => d.accessed[q] = c.accessed[q] - 1
               /\ ~(c.accessed[q] > a) => d.accessed[q] = c.accessed[q]
          /\ d.accessed = [q \in Live(c) |-> d.accessed[q]]
      BY <1>2, <2>1 DEF Touched
    <2>5. \A q \in Live(c) \ {id} : c.accessed[q] # a
      BY <1>2 DEF Consistent, AgesTotal
    <2> HIDE DEF n, a
    <2>6. \A q \in Live(c) \ {id} : d.accessed[q] \in 1..(n - 1)
      BY <2>3, <2>4, <2>5
    <2>7. \A q \in Live(c) : d.accessed[q] \in 1..n
      BY <2>3, <2>4, <2>6
    <2>8. d.accessed \in [Live(c) -> 1..n]
      BY <2>4, <2>7
    <2>9. CoreTypeOK(d)
      BY <1>2, <2>1, <2>2, <2>8 DEF Consistent, CoreTypeOK, n
    <2>10. IdsUnique(d)
      BY <2>1, <2>2 DEF Consistent, IdsUnique
    <2>11. ASSUME NEW x \in Live(c), NEW y \in Live(c), d.accessed[x] = d.accessed[y]
           PROVE  x = y
      <3>1. CASE x = id \/ y = id
        BY <2>3, <2>4, <2>6, <2>11, <3>1
      <3>2. CASE x # id /\ y # id
        <4>1. c.accessed[x] = c.accessed[y]
          BY <2>3, <2>4, <2>5, <2>11, <3>2
        <4> QED BY <4>1 DEF Consistent, AgesTotal
      <3> QED BY <3>1, <3>2
    <2>12. AgesTotal(d)
      BY <2>2, <2>11 DEF AgesTotal
    <2> QED BY <1>2, <2>1, <2>2, <2>9, <2>10, <2>12 DEF Consistent, d
  <1> QED BY <1>1, <1>2

(* remove takes one page out with all its fields; the ages stay distinct.  *)
LEMMA RemoveOK ==
  ASSUME NEW c, Consistent(c), NEW id
  PROVE  /\ Consistent(Remove(c, id))
         /\ Live(Remove(c, id)) = Live(c) \ {id}
         /\ Remove(c, id).loaded = c.loaded \ {id}
         /\ Remove(c, id).engine = c.engine \ {id}
         /\ \A f \in {"active", "limit", "next_id"} : Remove(c, id)[f] = c[f]
  <1> DEFINE d == Remove(c, id)
             k == Position(c, id)
  <1>1. CASE id \notin Live(c)
    BY <1>1 DEF Remove, Consistent, CoreTypeOK
  <1>2. CASE id \in Live(c)
    <2>1. /\ DOMAIN d = Fields
          /\ d.pages = VecRemove(c.pages, k)
          /\ d.loaded = c.loaded \ {id}
          /\ d.engine = c.engine \ {id}
          /\ d.accessed = Forgotten(c, id)
          /\ \A f \in {"active", "limit", "next_id"} : d[f] = c[f]
      BY <1>2 DEF Consistent, CoreTypeOK, Fields, Remove
    <2>2. k \in 1..Len(c.pages) /\ c.pages[k] = id
      BY <1>2, PositionOf
    <2> HIDE DEF d, k
    <2>3. c.pages \in Seq(Nat) /\ Injective(c.pages)
      BY DEF Consistent, CoreTypeOK, IdsUnique, Injective
    <2>4. /\ d.pages \in Seq(Nat)
          /\ Len(d.pages) = Len(c.pages) - 1
          /\ Injective(d.pages)
          /\ Live(d) = Live(c) \ {id}
      <3> DEFINE t == VecRemove(c.pages, k)
      <3>1. t \in Seq(Nat) /\ Len(t) = Len(c.pages) - 1
        BY <2>2, <2>3, VecRemoveAt
      <3>2. Injective(t) /\ Elements(t) = Elements(c.pages) \ {c.pages[k]}
        BY <2>2, <2>3, VecRemoveElement
      <3> HIDE DEF t
      <3> QED BY <2>1, <2>2, <3>1, <3>2 DEF Live, t
    <2> DEFINE n == Len(c.pages)
               a == c.accessed[id]
    <2>5. n \in Nat /\ a \in 1..n /\ \A q \in Live(c) : c.accessed[q] \in 1..n
      BY <1>2, LenProperties DEF Consistent, CoreTypeOK
    <2>6. /\ DOMAIN d.accessed = Live(d)
          /\ \A q \in Live(d) :
               /\ c.accessed[q] > a => d.accessed[q] = c.accessed[q] - 1
               /\ ~(c.accessed[q] > a) => d.accessed[q] = c.accessed[q]
          /\ d.accessed = [q \in Live(d) |-> d.accessed[q]]
      BY <2>1, <2>4 DEF Forgotten
    <2>7. \A q \in Live(d) : c.accessed[q] # a
      BY <1>2, <2>4 DEF Consistent, AgesTotal
    <2> HIDE DEF n, a
    <2>8. \A q \in Live(d) : d.accessed[q] \in 1..(n - 1)
      BY <2>4, <2>5, <2>6, <2>7
    <2>9. d.accessed \in [Live(d) -> 1..Len(d.pages)]
      BY <2>4, <2>6, <2>8 DEF n
    <2>10. CoreTypeOK(d)
      BY <2>1, <2>4, <2>9 DEF Consistent, CoreTypeOK
    <2>11. IdsUnique(d)
      BY <2>1, <2>4 DEF Consistent, IdsUnique, Injective
    <2>12. ASSUME NEW x \in Live(d), NEW y \in Live(d), d.accessed[x] = d.accessed[y]
           PROVE  x = y
      <3>1. c.accessed[x] = c.accessed[y]
        BY SMTT(30), <2>4, <2>5, <2>6, <2>7, <2>12
      <3> QED BY <2>4, <3>1 DEF Consistent, AgesTotal
    <2>13. AgesTotal(d)
      BY <2>12 DEF AgesTotal
    <2> QED BY <2>1, <2>4, <2>10, <2>11, <2>13 DEF Consistent, d
  <1> QED BY <1>1, <1>2

-----------------------------------------------------------------------------
(* What enforce_loaded_limit leaves.                                       *)

(* What remove does to the Vec.                                            *)
LEMMA RemovePages ==
  ASSUME NEW c, Consistent(c), NEW id
  PROVE  /\ id \in Live(c) => Remove(c, id).pages = VecRemove(c.pages, Position(c, id))
         /\ id \notin Live(c) => Remove(c, id) = c
  BY DEF Remove, Consistent, CoreTypeOK, Fields

(* enforce_loaded_limit never unloads the active page.                     *)
LEMMA EnforcedKeepsActive ==
  ASSUME NEW c, Consistent(c), c.active \in c.loaded
  PROVE  c.active \in Enforced(c).loaded
  BY EnforcedOK DEF Evicted, Candidates

(* A page's predecessors in the order of age, and how many there are.      *)
LEMMA OlderCounts ==
  ASSUME NEW c, Consistent(c), NEW p \in Candidates(c), NEW q \in Candidates(c)
  PROVE  /\ IsFiniteSet(Older(c, p))
         /\ Cardinality(Older(c, p)) \in Nat
         /\ c.accessed[p] \in Nat
         /\ c.accessed[p] <= c.accessed[q] =>
              Cardinality(Older(c, p)) <= Cardinality(Older(c, q))
  <1>1. IsFiniteSet(Older(c, p)) /\ IsFiniteSet(Older(c, q))
    BY LoadedFinite, FS_Subset DEF Older
  <1>2. \A x \in Candidates(c) : c.accessed[x] \in Nat
    BY DEF Candidates, Consistent, CoreTypeOK
  <1>3. c.accessed[p] <= c.accessed[q] => Older(c, p) \subseteq Older(c, q)
    BY <1>2 DEF Older
  <1>4. Cardinality(Older(c, p)) \in Nat
    BY <1>1, FS_CardinalityType
  <1> QED BY <1>1, <1>2, <1>3, <1>4, FS_Subset

(* The pages that stay were used more recently than the ones that go.      *)
LEMMA EnforcedOldestFirst ==
  ASSUME NEW c, Consistent(c),
         NEW p \in c.loaded \ Enforced(c).loaded,
         NEW q \in Enforced(c).loaded \ {c.active}
  PROVE  c.accessed[p] < c.accessed[q]
  <1>1. p \in Evicted(c) /\ q \in Candidates(c) \ Evicted(c)
    BY EnforcedOK DEF Candidates
  <1>2. c.limit \in Nat /\ p \in Candidates(c)
    BY <1>1 DEF Evicted, Consistent, CoreTypeOK
  <1>3. Cardinality(c.loaded) \in Nat
    BY LoadedFinite, FS_CardinalityType
  <1>4. /\ Cardinality(c.loaded) - Cardinality(Older(c, p)) > c.limit
        /\ ~(Cardinality(c.loaded) - Cardinality(Older(c, q)) > c.limit)
    BY <1>1, <1>2 DEF Evicted
  <1>5. /\ Cardinality(Older(c, p)) \in Nat /\ Cardinality(Older(c, q)) \in Nat
        /\ c.accessed[p] \in Nat /\ c.accessed[q] \in Nat
    BY <1>1, <1>2, OlderCounts
  <1>6. c.accessed[q] <= c.accessed[p] =>
          Cardinality(Older(c, q)) <= Cardinality(Older(c, p))
    BY <1>1, <1>2, OlderCounts
  <1> QED BY <1>2, <1>3, <1>4, <1>5, <1>6

(* enforce_loaded_limit ends within the limit, or with the active page.    *)
LEMMA EnforcedWithin ==
  ASSUME NEW c, Consistent(c)
  PROVE  WithinLimit(Enforced(c))
  <1> DEFINE d == Enforced(c)
             n == Cardinality(c.loaded)
  <1>1. d.loaded = c.loaded \ Evicted(c) /\ d.limit = c.limit
    BY EnforcedOK DEF Fields
  <1> SUFFICES ASSUME c.limit # Unlimited
               PROVE  Cardinality(d.loaded) <= Allowance(c)
    BY <1>1 DEF WithinLimit, Allowance
  <1>2. c.limit \in Nat
    BY DEF Consistent, CoreTypeOK
  <1>3. IsFiniteSet(c.loaded) /\ n \in Nat
    BY LoadedFinite, FS_CardinalityType
  <1>4. IsFiniteSet(d.loaded) /\ Cardinality(d.loaded) \in Nat
    BY <1>1, <1>3, FS_Subset, FS_CardinalityType
  <1> HIDE DEF d, n
  <1>5. CASE Candidates(c) \subseteq Evicted(c)
    <2>1. d.loaded \subseteq {c.active}
      BY <1>1, <1>5 DEF Candidates
    <2>2. Cardinality(d.loaded) <= 1
      <3>1. IsFiniteSet({c.active}) /\ Cardinality({c.active}) = 1
        BY FS_Singleton
      <3>2. Cardinality(d.loaded) <= Cardinality({c.active})
        BY <2>1, <3>1, FS_Subset
      <3> QED BY <3>1, <3>2
    <2> QED BY <1>2, <1>4, <2>2 DEF Allowance
  <1>6. CASE ~(Candidates(c) \subseteq Evicted(c))
    <2> DEFINE S == Candidates(c) \ Evicted(c)
               Ages == {c.accessed[q] : q \in S}
    <2>1. \A q \in Candidates(c) : c.accessed[q] \in Nat
      BY DEF Candidates, Consistent, CoreTypeOK
    <2>2. Ages \in SUBSET Nat /\ Ages # {}
      BY <1>6, <2>1
    (* m is the oldest background page that stays *)
    <2>3. PICK a \in Ages : \A b \in Ages : ~(b < a)
      <3> DEFINE R == {ss \in Nat \X Nat : ss[1] < ss[2]}
      <3>1. IsWellFoundedOn(R, Nat)
        BY NatLessThanWellFounded DEF OpToRel
      <3>2. \A x, y \in Nat : y < x => <<y, x>> \in R
        OBVIOUS
      <3> HIDE DEF Ages, R
      <3>3. PICK x \in Ages : \A y \in Ages : ~(<<y, x>> \in R)
        BY <2>2, <3>1, WFMin
      <3> QED BY <2>2, <3>2, <3>3
    <2>4. PICK m \in S : \A q \in S : ~(c.accessed[q] < c.accessed[m])
      BY <2>3
    <2>5. Older(c, m) \subseteq Evicted(c)
      BY <2>4 DEF Older
    <2>6. IsFiniteSet(Older(c, m)) /\ Cardinality(Older(c, m)) \in Nat
      BY <2>4, OlderCounts
    <2>7. n - Cardinality(Older(c, m)) <= c.limit
      <3>1. ~(n - Cardinality(Older(c, m)) > c.limit)
        <4>1. m \in Candidates(c) /\ m \notin Evicted(c)
          BY <2>4
        <4> QED BY <4>1 DEF Evicted, n
      <3> QED BY <1>2, <1>3, <2>6, <3>1
    <2>8. /\ IsFiniteSet(c.loaded \ Older(c, m))
          /\ Cardinality(c.loaded \ Older(c, m)) = n - Cardinality(Older(c, m))
      <3>1. Older(c, m) \subseteq c.loaded
        BY DEF Older, Candidates
      <3>2. c.loaded \cap Older(c, m) = Older(c, m)
        BY <3>1
      <3> QED BY <1>3, <3>2, FS_Difference DEF n
    <2>9. d.loaded \subseteq c.loaded \ Older(c, m)
      BY <1>1, <2>5
    <2>10. Cardinality(d.loaded) <= n - Cardinality(Older(c, m))
      BY <2>8, <2>9, FS_Subset
    <2> QED BY <1>2, <1>3, <1>4, <2>6, <2>7, <2>10 DEF Allowance
  <1> QED BY <1>5, <1>6 DEF d


(* insert makes the new page the youngest and leaves the others their age. *)
LEMMA InsertedAges ==
  ASSUME NEW c, Consistent(c), NEW id \in 0 .. c.next_id - 1, id \notin Live(c)
  PROVE  /\ Inserted(c, id).accessed[id] = Len(c.pages) + 1
         /\ \A q \in Live(c) : Inserted(c, id).accessed[q] = c.accessed[q]
  <1> DEFINE p == Pushed(c, id)
             ages == [q \in Live(c) \cup {id} |->
                        IF q = id THEN Len(c.pages) + 1 ELSE c.accessed[q]]
  <1>1. DOMAIN p = Fields /\ p.accessed = ages
    BY DEF Pushed, Consistent, CoreTypeOK, Fields
  <1> HIDE DEF p
  <1>2. [p EXCEPT !.loaded = @ \cup {id}, !.engine = @ \cup {id}, !.active = id].accessed = ages
    BY <1>1 DEF Fields
  <1>3. Inserted(c, id).accessed = ages
    BY <1>2 DEF Inserted, p
  <1>4. ages[id] = Len(c.pages) + 1 /\ \A q \in Live(c) : ages[q] = c.accessed[q]
    OBVIOUS
  <1> QED BY <1>3, <1>4

(* set_active of the youngest page leaves every page its age.              *)
LEMMA YoungestActivated ==
  ASSUME NEW c, Consistent(c), NEW id \in Live(c), c.accessed[id] = Len(c.pages)
  PROVE  \A q \in Live(c) : SetActive(c, id).accessed[q] = c.accessed[q]
  <1>1. SetActive(c, id).accessed = Touched(c, id)
    BY DEF Consistent, CoreTypeOK, Fields, SetActive
  <1>2. Len(c.pages) \in Nat /\ \A q \in Live(c) : c.accessed[q] \in 1..Len(c.pages)
    BY LenProperties DEF Consistent, CoreTypeOK
  <1>3. \A q \in Live(c) : Touched(c, id)[q] = c.accessed[q]
    BY <1>2 DEF Touched
  <1> QED BY <1>1, <1>3


-----------------------------------------------------------------------------
(* Iterator::filter.                                                       *)

(* The places of the entries that are kept, counted from the first one.    *)
LEMMA PlacesCounted ==
  ASSUME NEW k \in Nat, NEW at \in SUBSET (1..k)
  PROVE  /\ IsFiniteSet(at) /\ Cardinality(at) \in 0..k
         /\ \A i \in at : UpTo(at, i) \in 1..Cardinality(at)
         /\ \A i, j \in at : i < j => UpTo(at, i) < UpTo(at, j)
         /\ \A n \in 1..Cardinality(at) : \E i \in at : UpTo(at, i) = n
  <1>1. IsFiniteSet(1..k) /\ Cardinality(1..k) = k
    BY FS_Interval
  <1>2. IsFiniteSet(at) /\ Cardinality(at) \in Nat /\ Cardinality(at) <= k
    BY <1>1, FS_Subset, FS_CardinalityType
  <1>0. \A i \in at : IsFiniteSet({j \in at : j <= i})
    BY <1>2, FS_Subset
  <1>3. \A i \in at : UpTo(at, i) \in Nat /\ UpTo(at, i) <= Cardinality(at)
    <2> SUFFICES ASSUME NEW i \in at
                 PROVE  UpTo(at, i) \in Nat /\ UpTo(at, i) <= Cardinality(at)
      OBVIOUS
    <2> DEFINE A == {j \in at : j <= i}
    <2>1. A \subseteq at
      OBVIOUS
    <2> HIDE DEF A
    <2>2. IsFiniteSet(A) /\ Cardinality(A) \in Nat /\ Cardinality(A) <= Cardinality(at)
      BY <1>2, <2>1, FS_Subset, FS_CardinalityType
    <2> QED BY <2>2 DEF UpTo, A
  <1>4. \A i \in at : UpTo(at, i) >= 1
    <2> SUFFICES ASSUME NEW i \in at PROVE UpTo(at, i) >= 1
      OBVIOUS
    <2>1. i \in {j \in at : j <= i}
      OBVIOUS
    <2>2. UpTo(at, i) # 0
      BY <1>0, <2>1, FS_EmptySet DEF UpTo
    <2>3. UpTo(at, i) \in Nat
      BY <1>3
    <2> QED BY <2>2, <2>3
  <1>5. ASSUME NEW i \in at, NEW j \in at, i < j PROVE UpTo(at, i) < UpTo(at, j)
    <2> DEFINE A == {m \in at : m <= i}
               B == {m \in at : m <= j}
    <2>0. /\ i \in Nat /\ j \in Nat /\ ~(j <= i)
          /\ \A m \in at : m \in Nat /\ (m <= i => m <= j)
      BY <1>5
    <2>1. A \subseteq B /\ j \in B /\ j \notin A
      <3>1. j <= j
        BY <2>0
      <3>2. j \in B /\ j \notin A
        BY <2>0, <3>1
      <3>3. A \subseteq B
        BY <2>0
      <3> QED BY <3>2, <3>3
    <2>5. IsFiniteSet(B)
      BY <1>0
    <2> HIDE DEF A, B
    <2>2. Cardinality(A) <= Cardinality(B) /\ (Cardinality(A) = Cardinality(B) => A = B)
      BY <2>1, <2>5, FS_Subset
    <2>3. Cardinality(A) # Cardinality(B)
      BY <2>1, <2>2
    <2>4. UpTo(at, i) = Cardinality(A) /\ UpTo(at, j) = Cardinality(B)
      BY DEF UpTo, A, B
    <2> QED BY <1>3, <2>2, <2>3, <2>4
  <1>6. ASSUME NEW n \in 1..Cardinality(at) PROVE \E i \in at : UpTo(at, i) = n
    <2> DEFINE c == Cardinality(at)
               f == [i \in at |-> UpTo(at, i)]
    <2>1. f \in [at -> 1..c]
      <3> HIDE DEF c
      <3>1. c \in Nat /\ \A i \in at : UpTo(at, i) \in 1..c
        BY <1>2, <1>3, <1>4 DEF c
      <3> QED BY <3>1
    <2>2. \A i, j \in at : f[i] = f[j] => i = j
      <3> SUFFICES ASSUME NEW i \in at, NEW j \in at, f[i] = f[j], i # j PROVE FALSE
        OBVIOUS
      <3>1. i < j \/ j < i
        OBVIOUS
      <3>2. UpTo(at, i) = UpTo(at, j) /\ UpTo(at, i) \in Nat
        BY <1>3
      <3> QED BY <1>5, <3>1, <3>2
    <2>3. f \in Injection(at, 1..c)
      BY <2>1, <2>2, Fun_IsInj
    <2>4. IsFiniteSet(1..c) /\ Cardinality(1..c) = c
      BY <1>2, FS_Interval
    <2> HIDE DEF f, c
    <2>5. f \in Surjection(at, 1..c)
      BY <2>3, <2>4, FS_Injection DEF c
    <2>6. \E i \in at : f[i] = n
      BY <2>5 DEF c, Surjection
    <2> QED BY <2>6 DEF f
  <1>7. Cardinality(at) \in 0..k /\ \A i \in at : UpTo(at, i) \in 1..Cardinality(at)
    BY <1>2, <1>3, <1>4
  <1> QED BY <1>2, <1>5, <1>6, <1>7

(* What is at some places of a Vec, in their order.                        *)
LEMMA EntriesOK ==
  ASSUME NEW T, NEW s \in Seq(T), NEW at \in SUBSET (1..Len(s))
  PROVE  LET t == EntriesAt(s, at)
         IN /\ t \in Seq(T) /\ Len(t) \in Nat /\ Len(t) <= Len(s)
            /\ \A n \in 1..Len(t) : \E i \in at : t[n] = s[i]
            /\ \A i \in at : \E n \in 1..Len(t) : t[n] = s[i]
            /\ (\A i, j \in at : s[i] = s[j] => i = j) =>
                 \A m, n \in 1..Len(t) : t[m] = t[n] => m = n
  <1> DEFINE t == EntriesAt(s, at)
             c == Cardinality(at)
             I(n) == CHOOSE i \in at : UpTo(at, i) = n
  <1>1. Len(s) \in Nat /\ \A i \in 1..Len(s) : s[i] \in T
    BY LenProperties, ElementOfSeq
  <1>2. at \subseteq 1..Len(s)
    OBVIOUS
  <1>3. t = [n \in 1..c |-> s[I(n)]]
    BY DEF EntriesAt
  <1> HIDE DEF t
  <1>4. /\ c \in 0..Len(s)
        /\ \A i \in at : UpTo(at, i) \in 1..c
        /\ \A i, j \in at : i < j => UpTo(at, i) < UpTo(at, j)
        /\ \A n \in 1..c : \E i \in at : UpTo(at, i) = n
    BY <1>1, <1>2, PlacesCounted
  <1> HIDE DEF c
  <1>5. \A n \in 1..c : I(n) \in at /\ UpTo(at, I(n)) = n
    BY <1>4
  <1>6. ASSUME NEW i \in at, NEW j \in at, UpTo(at, i) = UpTo(at, j) PROVE i = j
    <2>1. i \in Nat /\ j \in Nat /\ UpTo(at, i) \in Nat /\ UpTo(at, j) \in Nat
      BY <1>2, <1>4
    <2>2. ~(i < j) /\ ~(j < i)
      BY <1>4, <1>6, <2>1
    <2> QED BY <2>1, <2>2
  <1> HIDE DEF I
  <1>7. c \in Nat /\ \A n \in 1..c : s[I(n)] \in T /\ I(n) \in at
    <2>1. c \in Nat /\ \A n \in 1..c : I(n) \in at
      BY <1>1, <1>4, <1>5
    <2> QED BY <1>1, <1>2, <2>1
  <1>8. t \in Seq(T) /\ Len(t) = c /\ \A n \in 1..c : t[n] = s[I(n)]
    BY <1>3, <1>7
  <1>9. ASSUME NEW i \in at PROVE \E n \in 1..Len(t) : t[n] = s[i]
    <2>1. UpTo(at, i) \in 1..c /\ I(UpTo(at, i)) = i
      BY <1>4, <1>5, <1>6
    <2> QED BY <1>8, <2>1
  <1>10. ASSUME \A i, j \in at : s[i] = s[j] => i = j,
                NEW m \in 1..Len(t), NEW n \in 1..Len(t), t[m] = t[n]
         PROVE  m = n
    <2>1. I(m) = I(n)
      BY <1>7, <1>8, <1>10
    <2> QED BY <1>5, <1>8, <2>1
  <1>11. Len(t) \in Nat /\ Len(t) <= Len(s)
    BY <1>1, <1>4, <1>8
  <1>12. \A n \in 1..Len(t) : \E i \in at : t[n] = s[i]
    BY <1>7, <1>8
  <1> QED BY <1>8, <1>9, <1>10, <1>11, <1>12 DEF t

(* filter keeps the entries in the set, each as often as it was there and  *)
(* in their order.                                                         *)
LEMMA FilterOK ==
  ASSUME NEW T, NEW s \in Seq(T), NEW S
  PROVE  LET t == Filter(s, S)
         IN /\ t \in Seq(T) /\ Len(t) \in Nat /\ Len(t) <= Len(s)
            /\ \A n \in 1..Len(t) : \E i \in 1..Len(s) : t[n] = s[i] /\ s[i] \in S
            /\ \A i \in 1..Len(s) : s[i] \in S => \E n \in 1..Len(t) : t[n] = s[i]
            /\ (\A i, j \in 1..Len(s) : s[i] = s[j] => i = j) =>
                 \A m, n \in 1..Len(t) : t[m] = t[n] => m = n
  <1> DEFINE at == Places(s, S)
  <1>1. at \in SUBSET (1..Len(s)) /\ \A i : i \in at <=> i \in 1..Len(s) /\ s[i] \in S
    BY DEF Places
  <1>2. Filter(s, S) = EntriesAt(s, at)
    BY DEF Filter
  <1> HIDE DEF at
  <1>3. LET t == EntriesAt(s, at)
        IN /\ t \in Seq(T) /\ Len(t) \in Nat /\ Len(t) <= Len(s)
           /\ \A n \in 1..Len(t) : \E i \in at : t[n] = s[i]
           /\ \A i \in at : \E n \in 1..Len(t) : t[n] = s[i]
           /\ (\A i, j \in at : s[i] = s[j] => i = j) =>
                \A m, n \in 1..Len(t) : t[m] = t[n] => m = n
    BY <1>1, EntriesOK
  <1> DEFINE t == EntriesAt(s, at)
  <1> HIDE DEF t
  <1> QED BY <1>1, <1>2, <1>3 DEF t

-----------------------------------------------------------------------------
(* PageManager driven by an arbitrary caller (module PageManager), for     *)
(* every set of limits and any number of pages: its bookkeeping is an      *)
(* inductive invariant, and from it follow the action properties on which  *)
(* page a call may unload.  The module is instantiated and not extended,   *)
(* so that the front ends' proofs can extend this one beside a state of    *)
(* their own; an instance does not hand its assumptions on, so they are    *)
(* hypotheses here.                                                        *)

CONSTANTS
  CallerLimits,  (* the limits the caller ever sets *)
  CallerPages    (* bound: ids allocated in a behaviour *)

VARIABLES
  manager,       (* the PageManager of that caller *)
  held           (* ids it allocated and did not insert yet *)

Manager == INSTANCE PageManager WITH
  core <- manager, Limits <- CallerLimits, MaxPages <- CallerPages

CallerInv ==
  /\ Consistent(manager) /\ manager.limit \in CallerLimits
  /\ held \subseteq Manager!Issued /\ Live(manager) \cap held = {}

(* The instance has its own copy of what PageManager extends.              *)
LEMMA SameCardinality ==
  ASSUME NEW S
  PROVE  Manager!Cardinality(S) = Cardinality(S)
  BY DEF Manager!Cardinality, Cardinality

(* And of the methods: they are the same.                                  *)
LEMMA SameOperators ==
  ASSUME NEW c
  PROVE  /\ Manager!Live(c) = Live(c) /\ Manager!WithinLimit(c) = WithinLimit(c)
         /\ \A id : Manager!SetActive(c, id) = SetActive(c, id)
         /\ Manager!NextPageId(c) = NextPageId(c)
         /\ Manager!PreviousPageId(c) = PreviousPageId(c)
         /\ Manager!CoreTypeOK(c) = CoreTypeOK(c)
         /\ Manager!IdsUnique(c) = IdsUnique(c) /\ Manager!AgesTotal(c) = AgesTotal(c)
  BY SameCardinality
     DEF Manager!Live, Manager!Elements, Manager!WithinLimit, Manager!Allowance,
         Manager!SetActive, Manager!Touched, Manager!NextPageId, Manager!PreviousPageId,
         Manager!Position, Manager!CoreTypeOK, Manager!Fields, Manager!IdsUnique,
         Manager!AgesTotal,
         Live, Elements, WithinLimit, Allowance, SetActive, Touched, NextPageId,
         PreviousPageId, Position, CoreTypeOK, Fields, IdsUnique, AgesTotal

(* The calls, method by method.                                            *)
LEMMA Calls ==
  ASSUME [Manager!Next]_Manager!vars
  PROVE  \/ manager' = AllocateId(manager) /\ held' = held \cup {manager.next_id}
         \/ \E id \in held :
              /\ manager' \in {Insert(manager, id), InsertBackground(manager, id),
                               InsertUnloaded(manager, id)}
              /\ held' = held \ {id}
         \/ \E id \in Manager!Issued :
              /\ manager' \in {Remove(manager, id), TakeEngine(manager, id),
                               InstallEngine(manager, id), SetActive(manager, id)}
              /\ held' = held
         \/ \E limit \in CallerLimits :
              manager' = SetMaxLoadedPages(manager, limit) /\ held' = held
         \/ manager' = manager /\ held' = held
  <1>1. ASSUME NEW c, NEW id
        PROVE  /\ Manager!AllocateId(c) = AllocateId(c)
               /\ Manager!Remove(c, id) = Remove(c, id)
               /\ Manager!TakeEngine(c, id) = TakeEngine(c, id)
               /\ Manager!InstallEngine(c, id) = InstallEngine(c, id)
               /\ Manager!InsertUnloaded(c, id) = InsertUnloaded(c, id)
    BY DEF Manager!AllocateId, Manager!Remove, Manager!VecRemove, Manager!Position,
           Manager!Forgotten, Manager!Live, Manager!Elements, Manager!TakeEngine,
           Manager!InstallEngine, Manager!InsertUnloaded, Manager!Pushed,
           AllocateId, Remove, VecRemove, Position, Forgotten, Live, Elements, TakeEngine,
           InstallEngine, InsertUnloaded, Pushed
  <1>2. ASSUME NEW c, NEW id
        PROVE  /\ Manager!Insert(c, id) = Insert(c, id)
               /\ Manager!InsertBackground(c, id) = InsertBackground(c, id)
               /\ Manager!SetMaxLoadedPages(c, id) = SetMaxLoadedPages(c, id)
    BY SameCardinality
       DEF Manager!Insert, Manager!Inserted, Manager!InsertBackground,
           Manager!InsertedBackground, Manager!SetMaxLoadedPages, Manager!Relimited,
           Manager!Enforced, Manager!Evicted, Manager!Candidates, Manager!Older,
           Manager!Pushed, Manager!Live, Manager!Elements,
           Insert, Inserted, InsertBackground, InsertedBackground, SetMaxLoadedPages,
           Relimited, Enforced, Evicted, Candidates, Older, Pushed, Live, Elements
  <1>3. CASE Manager!Next
    BY <1>1, <1>2, <1>3, SameOperators
       DEF Manager!Next, Manager!Allocate, Manager!InsertPage, Manager!InsertBackgroundPage,
           Manager!InsertUnloadedPage, Manager!RemovePage, Manager!TakePageEngine,
           Manager!InstallPageEngine, Manager!SetActivePage, Manager!SetLimit
  <1>4. CASE UNCHANGED Manager!vars
    BY <1>4 DEF Manager!vars
  <1> QED BY <1>3, <1>4

(* What the invariant says, in the form the lemmas need.                   *)
LEMMA CallerInvFacts ==
  ASSUME CallerInv
  PROVE  /\ manager.next_id \in Nat /\ Manager!Issued = 0 .. manager.next_id - 1
         /\ Manager!Issued \subseteq Nat
         /\ \A id \in held : id \in 0 .. manager.next_id - 1 /\ id \notin Live(manager)
         /\ manager.engine \subseteq Live(manager)
  BY DEF CallerInv, Consistent, CoreTypeOK, Manager!Issued

(* PageManager::new starts in the invariant.                               *)
LEMMA InitCallerInv ==
  ASSUME Manager!LimitsAssumption
  PROVE  Manager!Init => CallerInv
  <1> SUFFICES ASSUME Manager!Init PROVE CallerInv
    OBVIOUS
  <1>1. PICK limit \in CallerLimits : manager = New(limit)
    BY DEF Manager!Init, Manager!New, New
  <1>2. limit \in Nat \cup {Unlimited}
    BY DEF Manager!LimitsAssumption
  <1>3. held = {}
    BY DEF Manager!Init
  <1> QED BY <1>1, <1>2, <1>3, NewOK DEF CallerInv

(* Every call keeps the invariant.                                         *)
LEMMA NextCallerInv ==
  ASSUME Manager!LimitsAssumption
  PROVE  CallerInv /\ [Manager!Next]_Manager!vars => CallerInv'
  <1> SUFFICES ASSUME CallerInv, [Manager!Next]_Manager!vars PROVE CallerInv'
    OBVIOUS
  <1>0. /\ Consistent(manager)
        /\ held \subseteq Manager!Issued /\ Live(manager) \cap held = {}
        /\ manager.next_id \in Nat /\ manager.limit \in CallerLimits
        /\ \A id \in held : id \in 0 .. manager.next_id - 1 /\ id \notin Live(manager)
        /\ Manager!Issued \subseteq Nat /\ Manager!Issued = 0 .. manager.next_id - 1
        /\ CallerLimits \subseteq Nat \cup {Unlimited}
    BY CallerInvFacts DEF CallerInv, Manager!LimitsAssumption
  <1>1. CASE manager' = AllocateId(manager) /\ held' = held \cup {manager.next_id}
    <2>1. /\ Consistent(manager)' /\ Live(manager)' = Live(manager)
          /\ manager'.next_id = manager.next_id + 1 /\ manager'.limit = manager.limit
      BY <1>0, <1>1, AllocateOK DEF Fields
    <2>2. manager.next_id \notin Live(manager)
      BY <1>0 DEF Consistent, IdsUnique
    <2>3. held' \subseteq Manager!Issued'
      <3>1. Manager!Issued' = 0 .. (manager.next_id + 1) - 1
        BY <2>1 DEF Manager!Issued
      <3>2. \A i \in Manager!Issued \cup {manager.next_id} : i \in 0 .. (manager.next_id + 1) - 1
        BY <1>0
      <3> QED BY <1>0, <1>1, <3>1, <3>2
    <2> QED BY <1>0, <1>1, <2>1, <2>2, <2>3 DEF CallerInv
  <1>2. ASSUME NEW id \in held, held' = held \ {id},
               manager' \in {Insert(manager, id), InsertBackground(manager, id),
                             InsertUnloaded(manager, id)}
        PROVE  CallerInv'
    <2>1. ASSUME NEW d, d \in {Inserted(manager, id), InsertedBackground(manager, id),
                               Pushed(manager, id)}
          PROVE  /\ Consistent(d) /\ Live(d) = Live(manager) \cup {id}
                 /\ d.limit = manager.limit /\ d.next_id = manager.next_id
      BY <1>0, <2>1, InsertedOK, InsertedBackgroundOK, PushedOK DEF Fields
    <2>2. PICK d \in {Inserted(manager, id), InsertedBackground(manager, id),
                      Pushed(manager, id)} : manager' \in {d, Enforced(d)}
      BY <1>2 DEF Insert, InsertBackground, InsertUnloaded
    <2>3. /\ Consistent(d) /\ Live(d) = Live(manager) \cup {id}
          /\ d.limit = manager.limit /\ d.next_id = manager.next_id
      BY <2>1
    <2>4. /\ Consistent(manager)' /\ Live(manager)' = Live(manager) \cup {id}
          /\ manager'.limit = manager.limit /\ manager'.next_id = manager.next_id
      BY <2>2, <2>3, EnforcedOK DEF Fields
    <2> QED BY <1>0, <1>2, <2>4 DEF CallerInv, Manager!Issued
  <1>3. ASSUME NEW id \in Manager!Issued, held' = held,
               manager' \in {Remove(manager, id), TakeEngine(manager, id),
                             InstallEngine(manager, id), SetActive(manager, id)}
        PROVE  CallerInv'
    <2>1. id \in Nat
      BY <1>0
    <2>2. /\ Consistent(manager)' /\ Live(manager)' \subseteq Live(manager)
          /\ manager'.limit = manager.limit /\ manager'.next_id = manager.next_id
      <3>1. CASE manager' = Remove(manager, id)
        BY <1>0, <3>1, RemoveOK
      <3>2. CASE manager' \in {TakeEngine(manager, id), InstallEngine(manager, id)}
        BY <1>0, <3>2, TakeEngineOK, InstallEngineOK DEF Fields
      <3>3. CASE manager' = SetActive(manager, id)
        BY <1>0, <2>1, <3>3, SetActiveOK
      <3> QED BY <1>3, <3>1, <3>2, <3>3
    <2> QED BY <1>0, <1>3, <2>2 DEF CallerInv, Manager!Issued
  <1>4. ASSUME NEW limit \in CallerLimits, held' = held,
               manager' = SetMaxLoadedPages(manager, limit)
        PROVE  CallerInv'
    <2> DEFINE d == Relimited(manager, limit)
    <2>1. /\ Consistent(d) /\ Live(d) = Live(manager)
          /\ d.limit = limit /\ d.next_id = manager.next_id
      BY <1>0, RelimitedOK DEF Fields
    <2> HIDE DEF d
    <2>2. /\ Consistent(manager)' /\ Live(manager)' = Live(manager)
          /\ manager'.limit = limit /\ manager'.next_id = manager.next_id
      BY <1>4, <2>1, EnforcedOK DEF SetMaxLoadedPages, Fields, d
    <2> QED BY <1>0, <1>4, <2>2 DEF CallerInv, Manager!Issued
  <1>5. CASE manager' = manager /\ held' = held
    BY <1>5 DEF CallerInv, Manager!Issued
  <1> QED BY <1>1, <1>2, <1>3, <1>4, <1>5, Calls

(* What a caller can see of that, in the words of the runs.                *)
LEMMA CallerInvTells ==
  CallerInv => /\ Manager!TypeOK /\ Manager!PagesUnique /\ Manager!AgesDistinct
  <1> SUFFICES ASSUME CallerInv
               PROVE  Manager!TypeOK /\ Manager!PagesUnique /\ Manager!AgesDistinct
    OBVIOUS
  <1>1. held \subseteq Nat
    BY CallerInvFacts DEF CallerInv
  <1> QED BY <1>1, SameOperators
          DEF CallerInv, Consistent, Manager!TypeOK, Manager!PagesUnique,
              Manager!AgesDistinct

(* The bookkeeping of PageManager is consistent after any sequence of      *)
(* calls: nothing but pages of the Vec is loaded or holds an engine.       *)
THEOREM TypeCorrect ==
  ASSUME Manager!LimitsAssumption
  PROVE  Manager!Spec => []Manager!TypeOK
  BY InitCallerInv, NextCallerInv, CallerInvTells, PTL DEF Manager!Spec

(* No id ever names two pages.                                             *)
THEOREM NoSharedIds ==
  ASSUME Manager!LimitsAssumption
  PROVE  Manager!Spec => []Manager!PagesUnique
  BY InitCallerInv, NextCallerInv, CallerInvTells, PTL DEF Manager!Spec

(* No two pages are equally old.                                           *)
THEOREM AgesAreTotal ==
  ASSUME Manager!LimitsAssumption
  PROVE  Manager!Spec => []Manager!AgesDistinct
  BY InitCallerInv, NextCallerInv, CallerInvTells, PTL DEF Manager!Spec

-----------------------------------------------------------------------------
(* The index after and before i in a ring of n, as next_page_id and        *)
(* previous_page_id compute them from a position.                          *)
LEMMA AfterInRing ==
  ASSUME NEW n \in Nat \ {0}, NEW i \in 1..n
  PROVE  (i % n) + 1 = IF i = n THEN 1 ELSE i + 1
  <1>1. CASE i = n
    BY <1>1, Z3
  <1>2. CASE i < n
    BY <1>2, Z3
  <1> QED BY <1>1, <1>2

(* And before it.                                                          *)
LEMMA BeforeInRing ==
  ASSUME NEW n \in Nat \ {0}, NEW i \in 1..n
  PROVE  ((i + n - 2) % n) + 1 = IF i = 1 THEN n ELSE i - 1
  <1>1. CASE i = 1
    BY <1>1, Z3
  <1>2. CASE i > 1
    BY <1>2, Z3
  <1> QED BY <1>1, <1>2

(* Where the two methods go from the page at position i.                   *)
LEMMA Neighbours ==
  ASSUME NEW c, Consistent(c), NEW i \in 1..Len(c.pages), c.active = c.pages[i]
  PROVE  /\ NextPageId(c) = c.pages[IF i = Len(c.pages) THEN 1 ELSE i + 1]
         /\ PreviousPageId(c) = c.pages[IF i = 1 THEN Len(c.pages) ELSE i - 1]
  <1> DEFINE n == Len(c.pages)
  <1>1. c.active \in Live(c) /\ n \in Nat \ {0}
    BY LenProperties DEF Live, Elements, Consistent, CoreTypeOK
  <1>2. Position(c, c.active) = i
    BY <1>1, PositionOf DEF Consistent, IdsUnique
  <1> QED BY <1>1, <1>2, AfterInRing, BeforeInRing DEF NextPageId, PreviousPageId

(* Switching to the page at j and back from there ends where it began, when *)
(* j is the neighbour of i on one side and i is that of j on the other.    *)
LEMMA ThereAndBack ==
  ASSUME NEW c, Consistent(c), NEW i \in 1..Len(c.pages), c.active = c.pages[i]
  PROVE  /\ PreviousPageId(SetActive(c, NextPageId(c))) = c.active
         /\ NextPageId(SetActive(c, PreviousPageId(c))) = c.active
  <1> DEFINE n == Len(c.pages)
             after == IF i = n THEN 1 ELSE i + 1
             before == IF i = 1 THEN n ELSE i - 1
  <1>1. n \in Nat \ {0} /\ c.pages \in Seq(Nat)
    BY LenProperties DEF Consistent, CoreTypeOK
  <1>2. after \in 1..n /\ before \in 1..n
    BY <1>1
  <1>3. NextPageId(c) = c.pages[after] /\ PreviousPageId(c) = c.pages[before]
    BY Neighbours
  <1>4. ASSUME NEW j \in 1..n
        PROVE  LET d == SetActive(c, c.pages[j])
               IN Consistent(d) /\ d.pages = c.pages /\ d.active = c.pages[j]
    <2>1. c.pages[j] \in Nat
      BY <1>1
    <2> QED BY <2>1, SetActiveOK
  <1>5. /\ (IF after = 1 THEN n ELSE after - 1) = i
        /\ (IF before = n THEN 1 ELSE before + 1) = i
    BY <1>1
  <1> HIDE DEF after, before, n
  <1>6. PreviousPageId(SetActive(c, c.pages[after])) = c.pages[i]
    BY <1>2, <1>4, <1>5, Neighbours DEF n
  <1>7. NextPageId(SetActive(c, c.pages[before])) = c.pages[i]
    BY <1>2, <1>4, <1>5, Neighbours DEF n
  <1> QED BY <1>3, <1>6, <1>7

(* Next and then previous comes back to the page it left, and the other    *)
(* way round, for every number of pages (next_page_id, previous_page_id).  *)
THEOREM CyclingComesBack ==
  ASSUME Manager!LimitsAssumption
  PROVE  Manager!Spec => []Manager!CyclingRoundTrip
  <1>1. ASSUME CallerInv PROVE Manager!CyclingRoundTrip
    <2> SUFFICES ASSUME manager.active \in Live(manager)
                 PROVE  /\ PreviousPageId(SetActive(manager, NextPageId(manager))) = manager.active
                        /\ NextPageId(SetActive(manager, PreviousPageId(manager))) = manager.active
      BY SameOperators DEF Manager!CyclingRoundTrip
    <2>1. PICK i \in 1..Len(manager.pages) : manager.pages[i] = manager.active
      BY DEF Live, Elements
    <2> QED BY <1>1, <2>1, ThereAndBack DEF CallerInv
  <1>2. CallerInv => Manager!CyclingRoundTrip
    BY <1>1
  <1> QED BY InitCallerInv, NextCallerInv, <1>2, PTL DEF Manager!Spec

-----------------------------------------------------------------------------
(* The four things a step does with the loaded pages.                      *)

Enforces ==
  \E c : Consistent(c) /\ manager' = Enforced(c) /\ manager.loaded \subseteq c.loaded

LeavesLoaded ==
  /\ manager'.loaded = manager.loaded /\ manager'.limit = manager.limit
  /\ manager'.engine \subseteq Live(manager)

Removes ==
  \E id : /\ manager'.loaded = manager.loaded \ {id}
          /\ Live(manager)' = Live(manager) \ {id}
          /\ manager'.limit = manager.limit /\ manager'.engine \subseteq manager.engine

Reactivates ==
  \E id : /\ manager'.active = id
          /\ manager'.loaded = manager.loaded \cup ({id} \cap Live(manager))
          /\ manager'.limit = manager.limit /\ manager'.engine = manager.engine

(* Every call is of one of four kinds: it ends by enforcing the limit, it  *)
(* leaves the loaded flags alone, it removes a page, or it reactivates one.*)
LEMMA StepKinds ==
  ASSUME Manager!LimitsAssumption, CallerInv, [Manager!Next]_Manager!vars
  PROVE  Enforces \/ LeavesLoaded \/ Removes \/ Reactivates
  <1>0. /\ Consistent(manager)
        /\ \A id \in held : id \in 0 .. manager.next_id - 1 /\ id \notin Live(manager)
        /\ Manager!Issued \subseteq Nat /\ CallerLimits \subseteq Nat \cup {Unlimited}
        /\ manager.engine \subseteq Live(manager)
    BY CallerInvFacts DEF CallerInv, Manager!LimitsAssumption
  <1>1. CASE manager' = AllocateId(manager)
    BY <1>0, <1>1, AllocateOK DEF LeavesLoaded, Fields
  <1>2. ASSUME NEW id \in held,
               manager' \in {Insert(manager, id), InsertBackground(manager, id)}
        PROVE  Enforces
    <2>1. ASSUME NEW d, d \in {Inserted(manager, id), InsertedBackground(manager, id)}
          PROVE  Consistent(d) /\ manager.loaded \subseteq d.loaded
      BY <1>0, <2>1, InsertedOK, InsertedBackgroundOK
    <2> QED BY <1>2, <2>1 DEF Enforces, Insert, InsertBackground
  <1>3. ASSUME NEW id \in held, manager' = InsertUnloaded(manager, id) PROVE LeavesLoaded
    BY <1>0, <1>3, PushedOK DEF InsertUnloaded, LeavesLoaded, Fields
  <1>4. ASSUME NEW id \in Manager!Issued, manager' = Remove(manager, id) PROVE Removes
    BY <1>0, <1>4, RemoveOK DEF Removes
  <1>5. ASSUME NEW id \in Manager!Issued,
               manager' \in {TakeEngine(manager, id), InstallEngine(manager, id)}
        PROVE  LeavesLoaded
    BY <1>0, <1>5, TakeEngineOK, InstallEngineOK DEF LeavesLoaded, Fields
  <1>6. ASSUME NEW id \in Manager!Issued, manager' = SetActive(manager, id) PROVE Reactivates
    BY <1>0, <1>6, SetActiveOK DEF Reactivates
  <1>7. ASSUME NEW limit \in CallerLimits, manager' = SetMaxLoadedPages(manager, limit)
        PROVE  Enforces
    <2>1. /\ Consistent(Relimited(manager, limit))
          /\ manager.loaded \subseteq Relimited(manager, limit).loaded
      BY <1>0, RelimitedOK DEF Fields
    <2> QED BY <1>7, <2>1 DEF Enforces, SetMaxLoadedPages
  <1>8. CASE manager' = manager
    BY <1>0, <1>8 DEF LeavesLoaded
  <1> QED BY <1>1, <1>2, <1>3, <1>4, <1>5, <1>6, <1>7, <1>8, Calls

(* No call unloads the page in front.                                      *)
THEOREM ForegroundStaysLoaded ==
  ASSUME Manager!LimitsAssumption
  PROVE  Manager!Spec => Manager!ForegroundNeverEvicted
  <1> DEFINE A == manager'.active \in manager.loaded \cap Live(manager')
                    => manager'.active \in manager'.loaded
             B == manager'.active \in manager.loaded \cap Manager!Live(manager')
                    => manager'.active \in manager'.loaded
  <1>1. ASSUME CallerInv, [Manager!Next]_Manager!vars PROVE A
    <2>1. CASE Enforces
      <3>1. PICK c : Consistent(c) /\ manager' = Enforced(c) /\ manager.loaded \subseteq c.loaded
        BY <2>1 DEF Enforces
      <3> QED BY <3>1, EnforcedOK, EnforcedKeepsActive DEF Fields
    <2>2. CASE LeavesLoaded
      BY <2>2 DEF LeavesLoaded
    <2>3. CASE Removes
      BY <2>3 DEF Removes
    <2>4. CASE Reactivates
      BY <2>4 DEF Reactivates
    <2> QED BY <1>1, <2>1, <2>2, <2>3, <2>4, StepKinds
  <1>2. A => B
    BY SameOperators
  <1>3. CallerInv /\ [Manager!Next]_Manager!vars => [B]_Manager!vars
    BY <1>1, <1>2
  <1> QED BY InitCallerInv, NextCallerInv, <1>3, PTL
          DEF Manager!Spec, Manager!ForegroundNeverEvicted

(* A call that adds a page with an engine, or sets the limit, leaves no    *)
(* more pages loaded than the limit, the page in front excepted.           *)
THEOREM LimitIsRestored ==
  ASSUME Manager!LimitsAssumption
  PROVE  Manager!Spec => Manager!LimitRestored
  <1> DEFINE A == manager'.limit # manager.limit \/ manager'.engine \ Live(manager) # {}
                    => WithinLimit(manager')
             B == manager'.limit # manager.limit \/ manager'.engine \ Manager!Live(manager) # {}
                    => Manager!WithinLimit(manager')
  <1>1. ASSUME CallerInv, [Manager!Next]_Manager!vars PROVE A
    <2>1. CASE Enforces
      BY <2>1, EnforcedWithin DEF Enforces
    <2>2. manager.engine \subseteq Live(manager)
      BY <1>1 DEF CallerInv, Consistent, CoreTypeOK
    <2>3. CASE LeavesLoaded \/ Removes \/ Reactivates
      BY <2>2, <2>3 DEF LeavesLoaded, Removes, Reactivates
    <2> QED BY <1>1, <2>1, <2>3, StepKinds
  <1>2. A => B
    BY SameOperators
  <1>3. CallerInv /\ [Manager!Next]_Manager!vars => [B]_Manager!vars
    BY <1>1, <1>2
  <1> QED BY InitCallerInv, NextCallerInv, <1>3, PTL
          DEF Manager!Spec, Manager!LimitRestored

(* Only going back to an unloaded page exceeds the limit, by that page.    *)
THEOREM OverfillIsReactivation ==
  ASSUME Manager!LimitsAssumption
  PROVE  Manager!Spec => Manager!OnlyReactivationOverfills
  <1> DEFINE A == WithinLimit(manager) /\ ~WithinLimit(manager') =>
                    /\ manager'.active \notin manager.loaded
                    /\ manager'.loaded = manager.loaded \cup {manager'.active}
                    /\ manager'.limit = manager.limit
             B == Manager!WithinLimit(manager) /\ ~Manager!WithinLimit(manager') =>
                    /\ manager'.active \notin manager.loaded
                    /\ manager'.loaded = manager.loaded \cup {manager'.active}
                    /\ manager'.limit = manager.limit
  <1>1. ASSUME CallerInv, [Manager!Next]_Manager!vars PROVE A
    <2>0. IsFiniteSet(manager.loaded) /\ Cardinality(manager.loaded) \in Nat
      BY <1>1, LoadedFinite, FS_CardinalityType DEF CallerInv
    <2>1. CASE Enforces
      BY <2>1, EnforcedWithin DEF Enforces
    <2>2. CASE LeavesLoaded
      BY <2>2 DEF LeavesLoaded, WithinLimit, Allowance
    <2>3. CASE Removes
      <3>1. manager'.loaded \subseteq manager.loaded /\ manager'.limit = manager.limit
        BY <2>3 DEF Removes
      <3>2. /\ Cardinality(manager'.loaded) <= Cardinality(manager.loaded)
            /\ Cardinality(manager'.loaded) \in Nat
        BY <2>0, <3>1, FS_Subset, FS_CardinalityType
      <3>3. manager.limit # Unlimited => Allowance(manager) \in Nat
        BY <1>1 DEF CallerInv, Consistent, CoreTypeOK, Allowance
      <3>4. Allowance(manager') = Allowance(manager)
        BY <3>1 DEF Allowance
      <3> QED BY <2>0, <3>1, <3>2, <3>3, <3>4 DEF WithinLimit
    <2>4. CASE Reactivates
      <3>1. manager'.loaded = manager.loaded =>
              (WithinLimit(manager) => WithinLimit(manager'))
        BY <2>4 DEF Reactivates, WithinLimit, Allowance
      <3> QED BY <2>4, <3>1 DEF Reactivates
    <2> QED BY <1>1, <2>1, <2>2, <2>3, <2>4, StepKinds
  <1>2. A => B
    BY SameOperators
  <1>3. CallerInv /\ [Manager!Next]_Manager!vars => [B]_Manager!vars
    BY <1>1, <1>2
  <1> QED BY InitCallerInv, NextCallerInv, <1>3, PTL
          DEF Manager!Spec, Manager!OnlyReactivationOverfills

(* Pages are unloaded in the order they were last used.                    *)
THEOREM EvictsLeastRecentlyUsed ==
  ASSUME Manager!LimitsAssumption
  PROVE  Manager!Spec => Manager!LeastRecentlyUsedFirst
  <1> DEFINE A == \A p \in (manager.loaded \ manager'.loaded) \cap Live(manager') :
                    \A q \in manager'.loaded \ {manager'.active} :
                       manager'.accessed[p] < manager'.accessed[q]
             B == \A p \in (manager.loaded \ manager'.loaded) \cap Manager!Live(manager') :
                    \A q \in manager'.loaded \ {manager'.active} :
                       manager'.accessed[p] < manager'.accessed[q]
  <1>1. ASSUME CallerInv, [Manager!Next]_Manager!vars PROVE A
    <2>1. CASE Enforces
      <3>1. PICK c : Consistent(c) /\ manager' = Enforced(c) /\ manager.loaded \subseteq c.loaded
        BY <2>1 DEF Enforces
      <3>2. manager'.accessed = c.accessed /\ manager'.active = c.active
        BY <3>1, EnforcedOK DEF Fields
      <3> QED BY <3>1, <3>2, EnforcedOldestFirst
    <2>2. CASE LeavesLoaded \/ Removes \/ Reactivates
      BY <2>2 DEF LeavesLoaded, Removes, Reactivates
    <2> QED BY <1>1, <2>1, <2>2, StepKinds
  <1>2. A => B
    BY SameOperators
  <1>3. CallerInv /\ [Manager!Next]_Manager!vars => [B]_Manager!vars
    BY <1>1, <1>2
  <1> QED BY InitCallerInv, NextCallerInv, <1>3, PTL
          DEF Manager!Spec, Manager!LeastRecentlyUsedFirst

-----------------------------------------------------------------------------
(* The rows of the page switcher (module SwitcherRows), for any pages P    *)
(* and URLs U that they stand for.                                         *)

CONSTANT NoRow

Switcher == INSTANCE SwitcherRows

Headings == {"Open Pages", "History", "Bookmarks", "Similar"}
Finds == {"history", "bookmark", "similar"}

RowsOf(P, U) ==
  [kind : {"header"}, of : Headings] \cup [kind : {"open"}, of : P]
    \cup [kind : {"add"}, of : {NoRow}] \cup [kind : Finds, of : U]

(* Those of a list that is not empty, under their heading.                 *)
LEMMA GroupShape ==
  ASSUME NEW label, NEW kind, NEW T, NEW of \in Seq(T)
  PROVE  LET g == Switcher!Group(label, kind, of)
         IN /\ of = <<>> => g = <<>>
            /\ of # <<>> =>
                 /\ g = [i \in 1..Len(of) + 1 |-> IF i = 1 THEN Switcher!Header(label)
                                                  ELSE Switcher!Row(kind, of[i - 1])]
                 /\ Len(g) = Len(of) + 1 /\ Len(of) \in Nat \ {0}
  <1> DEFINE r == [i \in 1..Len(of) |-> Switcher!Row(kind, of[i])]
             h == Switcher!Header(label)
             R == {h} \cup {Switcher!Row(kind, of[i]) : i \in 1..Len(of)}
             g == Switcher!Group(label, kind, of)
  <1>1. Len(of) \in Nat /\ (of # <<>> => Len(of) # 0)
    BY LenProperties
  <1>2. g = IF of = <<>> THEN <<>> ELSE <<h>> \o r
    BY DEF Switcher!Group
  <1> HIDE DEF g
  <1>3. ASSUME of # <<>>
        PROVE  /\ g = [i \in 1..Len(of) + 1 |-> IF i = 1 THEN h ELSE Switcher!Row(kind, of[i - 1])]
               /\ Len(g) = Len(of) + 1
    <2>1. r \in Seq(R) /\ Len(r) = Len(of) /\ \A i \in 1..Len(of) : r[i] = Switcher!Row(kind, of[i])
      BY <1>1
    <2>2. <<h>> \in Seq(R) /\ Len(<<h>>) = 1 /\ <<h>>[1] = h
      OBVIOUS
    <2> DEFINE c == <<h>> \o r
    <2> HIDE DEF r, h, R
    <2>3. /\ c \in Seq(R) /\ Len(c) = 1 + Len(of)
          /\ \A i \in 1..1 + Len(of) : c[i] = IF i <= 1 THEN <<h>>[i] ELSE r[i - 1]
      BY <2>1, <2>2, ConcatProperties
    <2> HIDE DEF c
    <2>4. \A i \in 1..1 + Len(of) : c[i] = IF i = 1 THEN h ELSE Switcher!Row(kind, of[i - 1])
      BY <1>1, <2>1, <2>2, <2>3
    <2>5. c = [i \in 1..Len(c) |-> c[i]]
      BY <2>3
    <2>6. 1 + Len(of) = Len(of) + 1
      BY <1>1
    <2>7. g = c
      BY <1>2, <1>3 DEF c
    <2> QED BY <2>3, <2>4, <2>5, <2>6, <2>7
  <1> QED BY <1>1, <1>2, <1>3 DEF g

LEMMA GroupRows ==
  ASSUME NEW P, NEW U, NEW label \in Headings, NEW T, NEW of \in Seq(T),
         NEW kind, (kind = "open" /\ T \subseteq P) \/ (kind \in Finds /\ T \subseteq U)
  PROVE  Switcher!Group(label, kind, of) \in Seq(RowsOf(P, U))
  <1> DEFINE g == Switcher!Group(label, kind, of)
  <1>1. CASE of = <<>>
    <2>1. g = <<>>
      BY <1>1, GroupShape
    <2> HIDE DEF g
    <2> QED BY <2>1 DEF g
  <1>2. CASE of # <<>>
    <2>1. /\ g = [i \in 1..Len(of) + 1 |-> IF i = 1 THEN Switcher!Header(label)
                                           ELSE Switcher!Row(kind, of[i - 1])]
          /\ Len(of) \in Nat
      BY <1>2, GroupShape
    <2> HIDE DEF g
    <2>2. Switcher!Header(label) \in RowsOf(P, U)
      BY DEF Switcher!Header, Switcher!Row, RowsOf
    <2>3. ASSUME NEW i \in 1..Len(of) + 1, i # 1 PROVE Switcher!Row(kind, of[i - 1]) \in RowsOf(P, U)
      <3>1. i - 1 \in 1..Len(of)
        BY <2>1, <2>3
      <3>2. of[i - 1] \in T
        BY <3>1, ElementOfSeq
      <3> QED BY <3>2 DEF Switcher!Row, RowsOf
    <2>4. \A i \in 1..Len(of) + 1 :
            (IF i = 1 THEN Switcher!Header(label) ELSE Switcher!Row(kind, of[i - 1])) \in RowsOf(P, U)
      BY <2>2, <2>3
    <2> QED BY <2>1, <2>4 DEF g
  <1> QED BY <1>1, <1>2

LEMMA EntriesIn ==
  ASSUME NEW T, NEW s \in Seq(T), NEW P, \A n \in 1..Len(s) : s[n] \in P
  PROVE  s \in Seq(P)
  <1>1. Len(s) \in Nat /\ s = [n \in 1..Len(s) |-> s[n]]
    BY LenProperties
  <1> QED BY <1>1

(* Unseen gives each value once, and none that was shown.                  *)
LEMMA UnseenOK ==
  ASSUME NEW T, NEW found \in Seq(T), NEW seen
  PROVE  LET t == Switcher!Unseen(found, seen)
         IN /\ t \in Seq(T \ seen) /\ Len(t) \in Nat
            /\ \A m, n \in 1..Len(t) : t[m] = t[n] => m = n
  <1> DEFINE at == Switcher!FirstPlaces(found, seen)
             t == EntriesAt(found, at)
  <1>1. at = {i \in 1..Len(found) : found[i] \notin seen /\ \A j \in 1 .. i - 1 : found[j] # found[i]}
    BY DEF Switcher!FirstPlaces
  <1>2. Switcher!Unseen(found, seen) = t
    BY DEF Switcher!Unseen, Switcher!EntriesAt, Switcher!UpTo, Switcher!Cardinality, EntriesAt, UpTo, Cardinality
  <1> HIDE DEF at
  <1>3. at \in SUBSET (1..Len(found)) /\ Len(found) \in Nat
    BY <1>1, LenProperties
  <1>4. \A i, j \in at : found[i] = found[j] => i = j
    <2> SUFFICES ASSUME NEW i \in at, NEW j \in at, found[i] = found[j], i < j PROVE FALSE
      BY <1>3
    <2>1. i \in 1 .. j - 1
      BY <1>3
    <2> QED BY <1>1, <2>1
  <1>5. /\ t \in Seq(T) /\ Len(t) \in Nat
        /\ \A n \in 1..Len(t) : \E i \in at : t[n] = found[i]
        /\ (\A i, j \in at : found[i] = found[j] => i = j) =>
             \A m, n \in 1..Len(t) : t[m] = t[n] => m = n
    BY <1>3, EntriesOK
  <1> HIDE DEF t
  <1>6. \A n \in 1..Len(t) : t[n] \in T \ seen
    <2> SUFFICES ASSUME NEW n \in 1..Len(t) PROVE t[n] \in T /\ t[n] \notin seen
      OBVIOUS
    <2>1. PICK i \in at : t[n] = found[i]
      BY <1>5
    <2>2. t[n] \in T
      BY <1>5, ElementOfSeq
    <2> QED BY <1>1, <2>1, <2>2
  <1>7. t = [n \in 1..Len(t) |-> t[n]]
    BY <1>5
  <1>8. t \in Seq(T \ seen)
    BY <1>5, <1>6, <1>7
  <1> QED BY <1>2, <1>4, <1>5, <1>8

(* The rows are of the open pages that match and of URLs that were found.  *)
LEMMA BuiltRows ==
  ASSUME NEW P, NEW U, NEW matching \in Seq(P), NEW openUrls, NEW anyQuery,
         NEW history \in Seq(U), NEW bookmarks \in Seq(U), NEW similar \in Seq(U)
  PROVE  Switcher!BuildSwitcherRows(matching, openUrls, anyQuery, history, bookmarks, similar)
           \in Seq(RowsOf(P, U))
  <1> DEFINE R == RowsOf(P, U)
             visited == Switcher!Unseen(history, openUrls)
             marked == Switcher!Unseen(bookmarks, openUrls \cup Switcher!Range(visited))
             alike == Switcher!Unseen(similar, openUrls \cup Switcher!Range(visited)
                                                 \cup Switcher!Range(marked))
             a == Switcher!Group("Open Pages", "open", matching)
             b == <<Switcher!Row("add", NoRow)>>
             c == Switcher!Group("History", "history", visited)
             d == Switcher!Group("Bookmarks", "bookmark", marked)
             e == Switcher!Group("Similar", "similar", alike)
  <1>1. \A found \in Seq(U) : \A seen : Switcher!Unseen(found, seen) \in Seq(U)
    <2> SUFFICES ASSUME NEW found \in Seq(U), NEW seen PROVE Switcher!Unseen(found, seen) \in Seq(U)
      OBVIOUS
    <2> DEFINE t == Switcher!Unseen(found, seen)
    <2>1. t \in Seq(U \ seen) /\ Len(t) \in Nat
      BY UnseenOK
    <2> HIDE DEF t
    <2>2. \A n \in 1..Len(t) : t[n] \in U
      BY <2>1, ElementOfSeq
    <2>3. t \in Seq(U)
      BY <2>1, <2>2, EntriesIn
    <2> QED BY <2>3 DEF t
  <1>2. visited \in Seq(U) /\ marked \in Seq(U) /\ alike \in Seq(U)
    BY <1>1
  <1>4. Switcher!BuildSwitcherRows(matching, openUrls, anyQuery, history, bookmarks, similar)
          = IF anyQuery THEN (((a \o b) \o c) \o d) \o e ELSE a \o b
    BY DEF Switcher!BuildSwitcherRows
  <1> HIDE DEF visited, marked, alike
  <1>5. a \in Seq(R)
    <2>1. "Open Pages" \in Headings /\ P \subseteq P /\ matching \in Seq(P)
      BY DEF Headings
    <2> QED BY <2>1, GroupRows
  <1>6. b \in Seq(R)
    BY DEF RowsOf, Switcher!Row
  <1>7. c \in Seq(R)
    BY <1>2, GroupRows DEF Headings, Finds
  <1>8. d \in Seq(R)
    BY <1>2, GroupRows DEF Headings, Finds
  <1>9. e \in Seq(R)
    BY <1>2, GroupRows DEF Headings, Finds
  <1> HIDE DEF a, b, c, d, e, R
  <1>10. a \o b \in Seq(R)
    BY <1>5, <1>6, ConcatProperties
  <1>11. (a \o b) \o c \in Seq(R)
    BY <1>7, <1>10, ConcatProperties
  <1>12. ((a \o b) \o c) \o d \in Seq(R)
    BY <1>8, <1>11, ConcatProperties
  <1>13. (((a \o b) \o c) \o d) \o e \in Seq(R)
    BY <1>9, <1>12, ConcatProperties
  <1> QED BY <1>4, <1>10, <1>13 DEF R

(* What activating a row does: switch to its page, or open its URL.        *)
LEMMA ActivatedRow ==
  ASSUME NEW P, NEW U, NEW rows \in Seq(RowsOf(P, U)), NEW i, NEW start \in U
  PROVE  LET to == Switcher!ActivateRow(rows, i, start)
         IN \/ to = NoRow
            \/ to.kind = "switch" /\ to.of \in P
            \/ to.kind = "new" /\ to.of \in U
  <1>1. CASE i \notin 1..Len(rows)
    BY <1>1 DEF Switcher!ActivateRow
  <1>2. CASE i \in 1..Len(rows)
    <2>1. rows[i] \in RowsOf(P, U)
      BY <1>2, ElementOfSeq
    <2>2. PICK r : r = rows[i]
      OBVIOUS
    <2>3. Switcher!ActivateRow(rows, i, start)
            = CASE r.kind = "open"   -> Switcher!Row("switch", r.of)
                [] r.kind = "add"    -> Switcher!Row("new", start)
                [] r.kind = "header" -> NoRow
                [] OTHER             -> Switcher!Row("new", r.of)
      BY <1>2, <2>2 DEF Switcher!ActivateRow
    <2>4. CASE r \in [kind : {"open"}, of : P]
      <3>1. r.kind = "open" /\ r.of \in P
        BY <2>4
      <3> QED BY <2>3, <3>1 DEF Switcher!Row
    <2>5. CASE r \in [kind : {"header"}, of : Headings]
      <3>1. r.kind = "header"
        BY <2>5
      <3> QED BY <2>3, <3>1
    <2>6. CASE r \in [kind : {"add"}, of : {NoRow}]
      <3>1. r.kind = "add"
        BY <2>6
      <3> QED BY <2>3, <3>1 DEF Switcher!Row
    <2>7. CASE r \in [kind : Finds, of : U]
      <3>1. r.kind \in Finds /\ r.of \in U
        BY <2>7
      <3> QED BY <2>3, <3>1 DEF Switcher!Row, Finds
    <2> QED BY <2>1, <2>2, <2>4, <2>5, <2>6, <2>7 DEF RowsOf
  <1> QED BY <1>1, <1>2

(* Rows of which each heading has rows, and each page and URL is listed    *)
(* once; add has the places of the tiles that add a page.                  *)
Headed(s) ==
  \A i \in 1..Len(s) : s[i].kind = "header" => i < Len(s) /\ s[i + 1].kind # "header"
ListedOnce(s) ==
  \A i, j \in 1..Len(s) :
    s[i].kind # "header" /\ s[j].kind # "header" /\ s[j].of = s[i].of => i = j
Tiled(s, P, U, add) ==
  /\ s \in Seq(RowsOf(P, U)) /\ Headed(s) /\ ListedOnce(s)
  /\ {i \in 1..Len(s) : s[i].kind = "add"} = add

Shifted(k, at) == {k + i : i \in at}

(* A URL is no page, and NoRow is neither.                                 *)
Apart(P, U) == U \cap P = {} /\ NoRow \notin P \cup U

LEMMA RowFields ==
  ASSUME NEW P, NEW U, NEW r \in RowsOf(P, U)
  PROVE  /\ r.kind \in {"header", "open", "add"} \cup Finds
         /\ r.kind \in Finds => r.of \in U
         /\ r.kind = "open" => r.of \in P
         /\ r.kind = "add" => r.of = NoRow
  <1>1. CASE r \in [kind : {"open"}, of : P]
    BY <1>1 DEF Finds
  <1>2. CASE r \in [kind : {"header"}, of : Headings]
    BY <1>2 DEF Finds
  <1>3. CASE r \in [kind : {"add"}, of : {NoRow}]
    BY <1>3 DEF Finds
  <1>4. CASE r \in [kind : Finds, of : U]
    BY <1>4 DEF Finds
  <1> QED BY <1>1, <1>2, <1>3, <1>4 DEF RowsOf

LEMMA TiledConcat ==
  ASSUME NEW P, NEW U, NEW Q, NEW V, Apart(P \cup Q, U \cup V), U \cap V = {}, P \cap Q = {},
         NEW add, NEW s, Tiled(s, P, U, add), NEW more, NEW t, Tiled(t, Q, V, more),
         add = {} \/ more = {}
  PROVE  Tiled(s \o t, P \cup Q, U \cup V, add \cup Shifted(Len(s), more))
  <1> DEFINE c == s \o t
             R == RowsOf(P \cup Q, U \cup V)
             m == Len(s)
             n == Len(t)
  <1>1. RowsOf(P, U) \subseteq R /\ RowsOf(Q, V) \subseteq R
    BY DEF RowsOf
  <1>2. s \in Seq(RowsOf(P, U)) /\ t \in Seq(RowsOf(Q, V))
    BY DEF Tiled
  <1>3. s \in Seq(R) /\ t \in Seq(R) /\ m \in Nat /\ n \in Nat
    <2>1. (\A i \in 1..Len(s) : s[i] \in R) /\ \A i \in 1..Len(t) : t[i] \in R
      BY <1>1, <1>2, ElementOfSeq
    <2> HIDE DEF R
    <2>2. s \in Seq(R) /\ t \in Seq(R)
      BY <1>2, <2>1, EntriesIn
    <2> QED BY <1>2, <2>2, LenProperties
  <1>4. /\ c \in Seq(R) /\ Len(c) = m + n
        /\ \A i \in 1..m + n : c[i] = IF i <= m THEN s[i] ELSE t[i - m]
    BY <1>3, ConcatProperties
  <1>5. \A i \in 1..m : /\ s[i].kind \in {"header", "open", "add"} \cup Finds
                        /\ s[i].kind \in Finds => s[i].of \in U
                        /\ s[i].kind = "open" => s[i].of \in P
                        /\ s[i].kind = "add" => s[i].of = NoRow
    BY <1>2, <1>3, ElementOfSeq, RowFields
  <1>6. \A i \in 1..n : /\ t[i].kind \in {"header", "open", "add"} \cup Finds
                        /\ t[i].kind \in Finds => t[i].of \in V
                        /\ t[i].kind = "open" => t[i].of \in Q
                        /\ t[i].kind = "add" => t[i].of = NoRow
    BY <1>2, <1>3, ElementOfSeq, RowFields
  <1> HIDE DEF c, R, m, n
  <1>7. \A i \in 1..m + n : /\ i <= m => i \in 1..m /\ c[i] = s[i]
                            /\ i > m => i - m \in 1..n /\ c[i] = t[i - m]
    BY <1>3, <1>4
  <1>8. Headed(c)
    <2> SUFFICES ASSUME NEW i \in 1..m + n, c[i].kind = "header"
                 PROVE  i < m + n /\ c[i + 1].kind # "header"
      BY <1>4 DEF Headed
    <2>1. CASE i <= m
      <3>1. i < m /\ s[i + 1].kind # "header"
        BY <1>7, <2>1 DEF Tiled, Headed, m
      <3>2. i + 1 \in 1..m + n /\ i + 1 <= m
        BY <1>3, <3>1
      <3> QED BY <1>3, <1>7, <3>1, <3>2
    <2>2. CASE i > m
      <3>1. i - m < n /\ t[(i - m) + 1].kind # "header"
        BY <1>7, <2>2 DEF Tiled, Headed, n
      <3>2. i + 1 \in 1..m + n /\ i + 1 > m /\ (i + 1) - m = (i - m) + 1 /\ i < m + n
        BY <1>3, <2>2, <3>1
      <3> QED BY <1>7, <3>1, <3>2
    <2> QED BY <1>3, <2>1, <2>2
  <1>9. ListedOnce(c)
    <2>1. ASSUME NEW i \in 1..m, NEW j \in 1..n, s[i].kind # "header", t[j].kind # "header"
          PROVE  s[i].of # t[j].of
      <3>1. /\ s[i].of \in P \cup U \cup {NoRow}
            /\ s[i].of \in P \cup U \/ s[i].kind = "add"
            /\ t[j].of \in Q \cup V \cup {NoRow}
            /\ t[j].of \in Q \cup V \/ t[j].kind = "add"
        BY <1>5, <1>6, <2>1
      <3>2. ~(s[i].kind = "add" /\ t[j].kind = "add")
        BY DEF Tiled, m, n
      <3>3. (P \cup U) \cap (Q \cup V) = {} /\ NoRow \notin P \cup U /\ NoRow \notin Q \cup V
        BY DEF Apart
      <3> QED BY <1>5, <1>6, <3>1, <3>2, <3>3
    <2> SUFFICES ASSUME NEW i \in 1..m + n, NEW j \in 1..m + n, c[i].kind # "header",
                        c[j].kind # "header", c[j].of = c[i].of
                 PROVE  i = j
      BY <1>4 DEF ListedOnce
    <2>2. CASE i <= m /\ j <= m
      BY <1>7, <2>2 DEF Tiled, ListedOnce, m
    <2>3. CASE i > m /\ j > m
      <3>1. i - m = j - m
        BY <1>7, <2>3 DEF Tiled, ListedOnce, n
      <3> QED BY <1>3, <3>1
    <2>4. CASE i <= m /\ j > m
      BY <1>7, <2>1, <2>4
    <2>5. CASE i > m /\ j <= m
      BY <1>7, <2>1, <2>5
    <2> QED BY <1>3, <2>2, <2>3, <2>4, <2>5
  <1>10. {i \in 1..Len(c) : c[i].kind = "add"} = add \cup {m + i : i \in more}
    <2>1. add = {i \in 1..m : s[i].kind = "add"} /\ more = {i \in 1..n : t[i].kind = "add"}
      BY DEF Tiled, m, n
    <2>2. ASSUME NEW i \in 1..m + n, c[i].kind = "add" PROVE i \in add \cup {m + k : k \in more}
      <3>1. CASE i <= m
        BY <1>7, <2>1, <2>2, <3>1
      <3>2. CASE i > m
        <4>1. i - m \in more /\ i = m + (i - m)
          BY <1>3, <1>7, <2>1, <2>2, <3>2
        <4> QED BY <4>1
      <3> QED BY <1>3, <3>1, <3>2
    <2>3. ASSUME NEW i \in add PROVE i \in 1..m + n /\ c[i].kind = "add"
      <3>1. i \in 1..m /\ s[i].kind = "add"
        BY <2>1
      <3>2. i \in 1..m + n /\ i <= m
        BY <1>3, <3>1
      <3> QED BY <1>7, <3>1, <3>2
    <2>4. ASSUME NEW k \in more PROVE m + k \in 1..m + n /\ c[m + k].kind = "add"
      <3>1. k \in 1..n /\ t[k].kind = "add"
        BY <2>1
      <3>2. m + k \in 1..m + n /\ m + k > m /\ (m + k) - m = k
        BY <1>3, <3>1
      <3> QED BY <1>7, <3>1, <3>2
    <2> QED BY <1>4, <2>2, <2>3, <2>4
  <1> QED BY <1>4, <1>8, <1>9, <1>10 DEF Tiled, Shifted, c, R, m

LEMMA TiledNext ==
  ASSUME NEW P, NEW W, NEW V, Apart(P, W \cup V), W \cap V = {},
         NEW add, NEW s, Tiled(s, P, W, add), NEW t, Tiled(t, {}, V, {})
  PROVE  Tiled(s \o t, P, W \cup V, add)
  <1>1. P \cup {} = P /\ add \cup Shifted(Len(s), {}) = add
    BY DEF Shifted
  <1>2. Apart(P \cup {}, W \cup V) /\ P \cap {} = {}
    BY <1>1
  <1>3. Tiled(s \o t, P \cup {}, W \cup V, add \cup Shifted(Len(s), {}))
    BY Zenon, <1>2, TiledConcat
  <1> QED BY Zenon, <1>1, <1>3

LEMMA TiledWider ==
  ASSUME NEW P, NEW U, NEW W, W \subseteq U, NEW add, NEW s, Tiled(s, P, W, add)
  PROVE  Tiled(s, P, U, add)
  <1>1. RowsOf(P, W) \subseteq RowsOf(P, U)
    BY DEF RowsOf
  <1>2. s \in Seq(RowsOf(P, W))
    BY DEF Tiled
  <1>3. \A n \in 1..Len(s) : s[n] \in RowsOf(P, U)
    BY <1>1, <1>2, ElementOfSeq
  <1>4. s \in Seq(RowsOf(P, U))
    BY <1>2, <1>3, EntriesIn
  <1> QED BY <1>4 DEF Tiled

LEMMA TiledGroup ==
  ASSUME NEW P, NEW U, Apart(P, U), NEW label \in Headings, NEW T, NEW of \in Seq(T),
         \A i, j \in 1..Len(of) : of[i] = of[j] => i = j,
         NEW kind, (kind = "open" /\ T \subseteq P) \/ (kind \in Finds /\ T \subseteq U)
  PROVE  Tiled(Switcher!Group(label, kind, of), P, U, {})
  <1> DEFINE g == Switcher!Group(label, kind, of)
  <1>1. g \in Seq(RowsOf(P, U))
    BY GroupRows
  <1>2. CASE of = <<>>
    <2>1. g = <<>>
      BY <1>2, GroupShape
    <2> HIDE DEF g
    <2> QED BY <1>1, <2>1 DEF Tiled, Headed, ListedOnce, g
  <1>3. CASE of # <<>>
    <2> DEFINE n == Len(of)
    <2>1. /\ g = [i \in 1..n + 1 |-> IF i = 1 THEN Switcher!Header(label) ELSE Switcher!Row(kind, of[i - 1])]
          /\ Len(g) = n + 1 /\ n \in Nat \ {0}
      BY <1>3, GroupShape
    <2>2. Switcher!Header(label).kind = "header" /\ Switcher!Header(label).of = label
      BY DEF Switcher!Header, Switcher!Row
    <2>3. \A x : Switcher!Row(kind, x).kind = kind /\ Switcher!Row(kind, x).of = x
      BY DEF Switcher!Row
    <2>4. \A i \in 1..n : of[i] \in T
      BY ElementOfSeq
    <2> HIDE DEF g, n
    <2>5. g[1].kind = "header" /\ g[1].of = label
      BY <2>1, <2>2
    <2>6. \A i \in 1..n + 1 : i # 1 => i - 1 \in 1..n /\ g[i].kind = kind /\ g[i].of = of[i - 1]
      BY <2>1, <2>3
    <2>7. kind # "header" /\ kind # "add"
      BY DEF Finds
    <2>8. Headed(g)
      <3> SUFFICES ASSUME NEW i \in 1..n + 1, g[i].kind = "header"
                   PROVE  i < n + 1 /\ g[i + 1].kind # "header"
        BY <2>1 DEF Headed
      <3>1. i = 1
        BY <2>6, <2>7
      <3>2. 2 \in 1..n + 1 /\ 1 < n + 1
        BY <2>1
      <3> QED BY <2>6, <2>7, <3>1, <3>2
    <2>9. ListedOnce(g)
      <3> SUFFICES ASSUME NEW i \in 1..n + 1, NEW j \in 1..n + 1, g[i].kind # "header",
                          g[j].kind # "header", g[j].of = g[i].of
                   PROVE  i = j
        BY <2>1 DEF ListedOnce
      <3>1. i # 1 /\ j # 1
        BY <2>5
      <3>2. \A k, l \in 1..n : of[k] = of[l] => k = l
        BY DEF n
      <3>3. i - 1 = j - 1
        BY <2>6, <3>1, <3>2
      <3> QED BY <2>1, <3>3
    <2>10. {i \in 1..Len(g) : g[i].kind = "add"} = {}
      BY <2>1, <2>5, <2>6, <2>7
    <2> QED BY <1>1, <2>8, <2>9, <2>10 DEF Tiled, g
  <1> QED BY <1>2, <1>3

LEMMA TiledAdd ==
  Tiled(<<Switcher!Row("add", NoRow)>>, {}, {}, {1})
  <1> DEFINE r == Switcher!Row("add", NoRow)
             b == <<r>>
  <1>1. r.kind = "add" /\ r \in RowsOf({}, {})
    BY DEF Switcher!Row, RowsOf
  <1> HIDE DEF r
  <1>2. b \in Seq(RowsOf({}, {})) /\ Len(b) = 1 /\ b[1] = r
    BY <1>1
  <1> HIDE DEF b
  <1>3. \A i \in 1..Len(b) : i = 1 /\ b[i].kind = "add"
    BY <1>1, <1>2
  <1>4. Headed(b) /\ ListedOnce(b)
    BY <1>3 DEF Headed, ListedOnce
  <1>5. {i \in 1..Len(b) : b[i].kind = "add"} = {1}
    BY <1>1, <1>2, <1>3
  <1> QED BY <1>2, <1>4, <1>5 DEF Tiled, b, r

(* A group of what Unseen leaves of found.                                 *)
LEMMA TiledUnseen ==
  ASSUME NEW U, NoRow \notin U, NEW found \in Seq(U), NEW seen,
         NEW label \in Headings, NEW kind \in Finds
  PROVE  LET t == Switcher!Unseen(found, seen)
             V == Switcher!Range(t)
         IN /\ Tiled(Switcher!Group(label, kind, t), {}, V, {})
            /\ V \subseteq U /\ V \cap seen = {}
  <1> DEFINE t == Switcher!Unseen(found, seen)
             V == Switcher!Range(t)
  <1>1. /\ t \in Seq(U \ seen) /\ Len(t) \in Nat
        /\ \A m, n \in 1..Len(t) : t[m] = t[n] => m = n
    BY UnseenOK
  <1> HIDE DEF t
  <1>2. DOMAIN t = 1..Len(t) /\ \A n \in 1..Len(t) : t[n] \in U \ seen
    BY <1>1, ElementOfSeq
  <1>3. V \subseteq U \ seen /\ \A n \in 1..Len(t) : t[n] \in V
    BY <1>2 DEF Switcher!Range
  <1> HIDE DEF V
  <1>4. t \in Seq(V)
    BY <1>1, <1>3, EntriesIn
  <1>5. Apart({}, V)
    BY <1>3 DEF Apart
  <1>6. Tiled(Switcher!Group(label, kind, t), {}, V, {})
    <2>1. \A i, j \in 1..Len(t) : t[i] = t[j] => i = j
      BY <1>1
    <2>2. (kind = "open" /\ V \subseteq {}) \/ (kind \in Finds /\ V \subseteq V)
      OBVIOUS
    <2> QED BY <1>4, <1>5, <2>1, <2>2, TiledGroup
  <1> QED BY <1>3, <1>6 DEF t, V

(* The pages, the tile that adds one, and three groups of URLs.            *)
LEMMA TiledGroups ==
  ASSUME NEW P, NEW U, Apart(P, U), NEW V, NEW M, NEW S,
         V \subseteq U, M \subseteq U, S \subseteq U, V \cap M = {}, (V \cup M) \cap S = {},
         NEW a, Tiled(a, P, {}, {}), NEW b, Tiled(b, {}, {}, {1}), NEW c, Tiled(c, {}, V, {}),
         NEW d, Tiled(d, {}, M, {}), NEW e, Tiled(e, {}, S, {})
  PROVE  LET k == Len(a) + 1
         IN Tiled(a \o b, P, U, {k}) /\ Tiled((((a \o b) \o c) \o d) \o e, P, U, {k})
  <1> DEFINE k == Len(a) + 1
  <1>1. Tiled(a \o b, P, {}, {k})
    <2>1. Apart(P \cup {}, {} \cup {}) /\ {} \cap {} = {} /\ P \cap {} = {}
      BY DEF Apart
    <2>2. Tiled(a \o b, P \cup {}, {} \cup {}, {} \cup Shifted(Len(a), {1}))
      BY Zenon, <2>1, TiledConcat
    <2>3. {} \cup Shifted(Len(a), {1}) = {k} /\ P \cup {} = P /\ {} \cup {} = {}
      BY DEF Shifted
    <2> QED BY Zenon, <2>2, <2>3
  <1> HIDE DEF k
  <1>2. Tiled((a \o b) \o c, P, V, {k})
    <2>1. Apart(P, {} \cup V) /\ {} \cap V = {} /\ {} \cup V = V
      BY DEF Apart
    <2>2. Tiled((a \o b) \o c, P, {} \cup V, {k})
      BY Zenon, <1>1, <2>1, TiledNext
    <2> QED BY Zenon, <2>1, <2>2
  <1>3. Tiled(((a \o b) \o c) \o d, P, V \cup M, {k})
    <2>1. Apart(P, V \cup M)
      BY DEF Apart
    <2> QED BY Zenon, <1>2, <2>1, TiledNext
  <1>4. Tiled((((a \o b) \o c) \o d) \o e, P, (V \cup M) \cup S, {k})
    <2>1. Apart(P, (V \cup M) \cup S)
      BY DEF Apart
    <2> QED BY Zenon, <1>3, <2>1, TiledNext
  <1>5. {} \subseteq U /\ (V \cup M) \cup S \subseteq U
    OBVIOUS
  <1>6. Tiled(a \o b, P, U, {k})
    BY Zenon, <1>1, <1>5, TiledWider
  <1>7. Tiled((((a \o b) \o c) \o d) \o e, P, U, {k})
    BY Zenon, <1>4, <1>5, TiledWider
  <1> QED BY <1>6, <1>7 DEF k

(* The switcher's rows: one tile adds a page, the headings have rows, and  *)
(* each page is listed once, and each URL that was found and that no page  *)
(* shows.                                                                  *)
LEMMA BuiltTiled ==
  ASSUME NEW P, NEW U, Apart(P, U), NEW matching \in Seq(P), NEW openUrls, NEW anyQuery,
         \A i, j \in 1..Len(matching) : matching[i] = matching[j] => i = j,
         NEW history \in Seq(U), NEW bookmarks \in Seq(U), NEW similar \in Seq(U)
  PROVE  \E k : Tiled(Switcher!BuildSwitcherRows(matching, openUrls, anyQuery,
                                                history, bookmarks, similar), P, U \ openUrls, {k})
  <1>1. PICK visited : visited = Switcher!Unseen(history, openUrls)
    OBVIOUS
  <1>2. PICK V : V = Switcher!Range(visited)
    OBVIOUS
  <1>3. PICK X : X = openUrls \cup V
    OBVIOUS
  <1>4. PICK marked : marked = Switcher!Unseen(bookmarks, X)
    OBVIOUS
  <1>5. PICK M : M = Switcher!Range(marked)
    OBVIOUS
  <1>6. PICK Y : Y = openUrls \cup V \cup M
    OBVIOUS
  <1>7. PICK alike : alike = Switcher!Unseen(similar, Y)
    OBVIOUS
  <1>8. PICK S : S = Switcher!Range(alike)
    OBVIOUS
  <1>9. PICK a : a = Switcher!Group("Open Pages", "open", matching)
    OBVIOUS
  <1>10. PICK b : b = <<Switcher!Row("add", NoRow)>>
    OBVIOUS
  <1>11. PICK c : c = Switcher!Group("History", "history", visited)
    OBVIOUS
  <1>12. PICK d : d = Switcher!Group("Bookmarks", "bookmark", marked)
    OBVIOUS
  <1>13. PICK e : e = Switcher!Group("Similar", "similar", alike)
    OBVIOUS
  <1>14. Switcher!BuildSwitcherRows(matching, openUrls, anyQuery, history, bookmarks, similar)
           = IF anyQuery THEN (((a \o b) \o c) \o d) \o e ELSE a \o b
    BY <1>1, <1>2, <1>4, <1>5, <1>7, <1>3, <1>6, <1>9, <1>10, <1>11, <1>12, <1>13
       DEF Switcher!BuildSwitcherRows
  <1>15. NoRow \notin U
    BY DEF Apart
  <1>16. Tiled(c, {}, V, {}) /\ V \subseteq U /\ V \cap openUrls = {}
    BY <1>1, <1>2, <1>11, <1>15, TiledUnseen DEF Headings, Finds
  <1>17. Tiled(d, {}, M, {}) /\ M \subseteq U /\ M \cap X = {}
    BY <1>4, <1>5, <1>12, <1>15, TiledUnseen DEF Headings, Finds
  <1>18. Tiled(e, {}, S, {}) /\ S \subseteq U /\ S \cap Y = {}
    BY <1>7, <1>8, <1>13, <1>15, TiledUnseen DEF Headings, Finds
  <1>19. Tiled(a, P, {}, {})
    <2>1. Apart(P, {}) /\ "Open Pages" \in Headings
      BY DEF Apart, Headings
    <2>2. ("open" = "open" /\ P \subseteq P) \/ ("open" \in Finds /\ P \subseteq {})
      OBVIOUS
    <2> QED BY <1>9, <2>1, <2>2, TiledGroup
  <1>20. Tiled(b, {}, {}, {1})
    BY <1>10, TiledAdd
  <1>21. V \cap M = {} /\ (V \cup M) \cap S = {}
    BY <1>17, <1>18, <1>3, <1>6
  <1> DEFINE W == U \ openUrls
  <1>22. V \subseteq W /\ M \subseteq W /\ S \subseteq W /\ Apart(P, W)
    BY <1>3, <1>6, <1>16, <1>17, <1>18 DEF Apart
  <1> HIDE DEF W
  <1>23. \E k : Tiled(a \o b, P, W, {k}) /\ Tiled((((a \o b) \o c) \o d) \o e, P, W, {k})
    BY Zenon, <1>16, <1>17, <1>18, <1>19, <1>20, <1>21, <1>22, TiledGroups
  <1> QED BY Zenon, <1>14, <1>23 DEF W
=============================================================================
