------------------------- MODULE ProfileStores_proofs ------------------------
(***************************************************************************)
(* Proofs about ProfileStores, for any windows and any values of the       *)
(* stores: what is kept is a value of its store, the last window to save   *)
(* finds in the file what it saved, and only a page that shows an old      *)
(* state makes a request destroy what it did not name.                     *)
(***************************************************************************)
EXTENDS ProfileStores, TLAPS, FiniteSetTheorems, SequenceTheorems

-----------------------------------------------------------------------------
(* Lists without repetition.                                               *)

(* The bound on their length, by which TLC enumerates them, is none.       *)
LEMMA ListIs ==
  ASSUME NEW S, IsFiniteSet(S), NEW q
  PROVE  q \in Lists(S) <=> q \in Seq(S) /\ \A i, j \in 1..Len(q) : q[i] = q[j] => i = j
  <1>1. Cardinality(S) \in Nat
    BY FS_CardinalityType
  <1>2. ASSUME q \in Lists(S)
        PROVE  q \in Seq(S) /\ \A i, j \in 1..Len(q) : q[i] = q[j] => i = j
    <2>1. PICK n \in 0..Cardinality(S) : q \in [1..n -> S]
      BY <1>2 DEF Lists
    <2>2. n \in Nat /\ IsInjective(q)
      BY <1>1, <1>2 DEF Lists
    <2>3. q \in Seq(S) /\ Len(q) = n
      BY <2>1, <2>2
    <2> QED BY <2>1, <2>2, <2>3 DEF IsInjective
  <1>3. ASSUME q \in Seq(S), \A i, j \in 1..Len(q) : q[i] = q[j] => i = j
        PROVE  q \in Lists(S)
    <2> DEFINE n == Len(q)
    <2>1. n \in Nat /\ q \in [1..n -> S]
      BY <1>3, LenProperties
    <2>2. IsInjective(q)
      BY <1>3, <2>1 DEF IsInjective
    <2>3. q \in Injection(1..n, S)
      BY <2>1, <2>2 DEF Injection
    <2>4. Cardinality(1..n) <= Cardinality(S)
      BY <2>3, FS_Injection
    <2>5. Cardinality(1..n) = n
      BY <2>1, FS_Interval
    <2>6. n \in 0..Cardinality(S)
      BY <1>1, <2>1, <2>4, <2>5
    <2> QED BY <2>1, <2>2, <2>6 DEF Lists
  <1> QED BY <1>2, <1>3

(* push, of what is not there.                                             *)
LEMMA AppendList ==
  ASSUME NEW S, IsFiniteSet(S), NEW q \in Lists(S), NEW x \in S, x \notin ToSet(q)
  PROVE  Append(q, x) \in Lists(S) /\ ToSet(Append(q, x)) = ToSet(q) \cup {x}
  <1> DEFINE r == Append(q, x)
  <1>1. q \in Seq(S) /\ \A i, j \in 1..Len(q) : q[i] = q[j] => i = j
    BY ListIs
  <1>2. Len(q) \in Nat /\ DOMAIN q = 1..Len(q)
    BY <1>1, LenProperties
  <1>3. /\ r \in Seq(S) /\ Len(r) = Len(q) + 1
        /\ \A i \in 1..Len(q) : r[i] = q[i]
        /\ r[Len(q) + 1] = x
    BY <1>1, AppendProperties
  <1>4. DOMAIN r = 1..Len(r)
    BY <1>3, LenProperties
  <1> HIDE DEF r
  <1>5. \A i \in 1..Len(r) : i \in 1..Len(q) \/ i = Len(q) + 1
    BY <1>2, <1>3
  <1>6. \A i \in 1..Len(q) : i \in 1..Len(r) /\ r[i] # x
    BY <1>2, <1>3 DEF ToSet
  <1>7. Len(q) + 1 \in 1..Len(r)
    BY <1>2, <1>3
  <1>8. \A i, j \in 1..Len(r) : r[i] = r[j] => i = j
    BY <1>1, <1>3, <1>5, <1>6
  <1>9. ToSet(r) = ToSet(q) \cup {x}
    BY <1>2, <1>3, <1>4, <1>5, <1>6, <1>7 DEF ToSet
  <1>10. r \in Lists(S)
    BY <1>3, <1>8, ListIs
  <1> QED BY <1>9, <1>10 DEF r

(* Vec::remove at k.                                                       *)
LEMMA RemoveAtPlace ==
  ASSUME NEW S, NEW s \in Seq(S), NEW k \in 1..Len(s)
  PROVE  /\ RemoveAt(s, k) \in Seq(S) /\ Len(RemoveAt(s, k)) = Len(s) - 1
         /\ \A i \in 1..(Len(s) - 1) :
              RemoveAt(s, k)[i] = IF i < k THEN s[i] ELSE s[i + 1]
  <1> DEFINE a == SubSeq(s, 1, k - 1)
             b == SubSeq(s, k + 1, Len(s))
  <1>1. Len(s) \in Nat /\ k \in Nat /\ 1 <= k /\ k <= Len(s)
    BY LenProperties
  <1>2. /\ a \in Seq(S) /\ Len(a) = k - 1
        /\ \A i \in 1..(k - 1) : a[i] = s[i]
    <2>1. \A i \in 1..(k - 1) : s[i] \in S
      BY <1>1, ElementOfSeq
    <2>2. /\ a \in Seq(S)
          /\ Len(a) = IF 1 <= k - 1 THEN (k - 1) - 1 + 1 ELSE 0
          /\ \A i \in 1 .. ((k - 1) - 1 + 1) : a[i] = s[1 + i - 1]
      BY <1>1, <2>1, SubSeqProperties
    <2> QED BY <1>1, <2>2
  <1>3. /\ b \in Seq(S) /\ Len(b) = Len(s) - k
        /\ \A i \in 1..(Len(s) - k) : b[i] = s[i + k]
    <2>1. \A i \in (k + 1)..Len(s) : s[i] \in S
      BY <1>1, ElementOfSeq
    <2>2. /\ b \in Seq(S)
          /\ Len(b) = IF k + 1 <= Len(s) THEN Len(s) - (k + 1) + 1 ELSE 0
          /\ \A i \in 1 .. (Len(s) - (k + 1) + 1) : b[i] = s[(k + 1) + i - 1]
      BY <1>1, <2>1, SubSeqProperties
    <2> QED BY <1>1, <2>2
  <1>4. /\ a \o b \in Seq(S) /\ Len(a \o b) = Len(a) + Len(b)
        /\ \A i \in 1..(Len(a) + Len(b)) :
             (a \o b)[i] = IF i <= Len(a) THEN a[i] ELSE b[i - Len(a)]
    BY <1>2, <1>3, ConcatProperties
  <1>5. RemoveAt(s, k) = a \o b
    BY DEF RemoveAt
  <1> HIDE DEF a, b
  <1>6. ASSUME NEW i \in 1..(Len(s) - 1)
        PROVE  (a \o b)[i] = IF i < k THEN s[i] ELSE s[i + 1]
    <2>1. CASE i < k
      BY <1>1, <1>2, <1>3, <1>4, <2>1
    <2>2. CASE ~(i < k)
      <3> DEFINE j == i - (k - 1)
      <3>1. /\ j \in 1..(Len(s) - k) /\ j + k = i + 1 /\ j = i - Len(a) /\ ~(i <= Len(a))
            /\ i \in 1..(Len(a) + Len(b))
        BY <1>1, <1>2, <1>3, <2>2
      <3>2. (a \o b)[i] = b[j]
        BY <1>4, <3>1
      <3> HIDE DEF j
      <3>3. b[j] = s[j + k]
        BY <1>3, <3>1
      <3> QED BY <2>2, <3>1, <3>2, <3>3
    <2> QED BY <2>1, <2>2
  <1> QED BY <1>1, <1>2, <1>3, <1>4, <1>5, <1>6

(* retain of all but x.                                                    *)
LEMMA WithoutList ==
  ASSUME NEW S, IsFiniteSet(S), NEW q \in Lists(S), NEW x
  PROVE  /\ Without(q, x) \in Lists(S) /\ ToSet(Without(q, x)) = ToSet(q) \ {x}
         /\ Len(Without(q, x)) = IF x \in ToSet(q) THEN Len(q) - 1 ELSE Len(q)
  <1>1. q \in Seq(S) /\ \A i, j \in 1..Len(q) : q[i] = q[j] => i = j
    BY ListIs
  <1>2. Len(q) \in Nat /\ DOMAIN q = 1..Len(q)
    BY <1>1, LenProperties
  <1>3. CASE x \notin ToSet(q)
    BY <1>3 DEF Without
  <1>4. CASE x \in ToSet(q)
    <2> DEFINE k == CHOOSE i \in 1..Len(q) : q[i] = x
               r == Without(q, x)
    <2>1. k \in 1..Len(q) /\ q[k] = x
      BY <1>2, <1>4 DEF ToSet
    <2>2. r = RemoveAt(q, k)
      BY <1>4 DEF Without
    <2> HIDE DEF k, r
    <2>3. /\ r \in Seq(S) /\ Len(r) = Len(q) - 1
          /\ \A i \in 1..(Len(q) - 1) : r[i] = IF i < k THEN q[i] ELSE q[i + 1]
      BY <1>1, <2>1, <2>2, RemoveAtPlace
    <2>4. DOMAIN r = 1..Len(r)
      BY <2>3, LenProperties
    <2> DEFINE from(i) == IF i < k THEN i ELSE i + 1
    <2>5. \A i \in 1..Len(r) : from(i) \in 1..Len(q) /\ from(i) # k /\ r[i] = q[from(i)]
      BY <1>2, <2>1, <2>3
    <2>6. \A i, j \in 1..Len(r) : from(i) = from(j) => i = j
      BY <1>2, <2>1, <2>3
    <2>7. \A j \in (1..Len(q)) \ {k} : \E i \in 1..Len(r) : from(i) = j
      <3> TAKE j \in (1..Len(q)) \ {k}
      <3>1. CASE j < k
        BY <1>2, <2>1, <2>3, <3>1
      <3>2. CASE j > k
        <4>1. j - 1 \in 1..Len(r) /\ from(j - 1) = j
          BY <1>2, <2>1, <2>3, <3>2
        <4> QED BY <4>1
      <3> QED BY <2>1, <3>1, <3>2
    <2> HIDE DEF from
    <2>8. \A i, j \in 1..Len(r) : r[i] = r[j] => i = j
      BY <1>1, <2>5, <2>6
    <2>9. ToSet(r) = ToSet(q) \ {x}
      <3>1. ASSUME NEW y \in ToSet(r) PROVE y \in ToSet(q) \ {x}
        BY <1>1, <1>2, <2>1, <2>4, <2>5 DEF ToSet
      <3>2. ASSUME NEW y \in ToSet(q) \ {x} PROVE y \in ToSet(r)
        <4>1. PICK j \in 1..Len(q) : y = q[j]
          BY <1>2 DEF ToSet
        <4>2. j # k
          BY <2>1, <4>1
        <4>3. PICK i \in 1..Len(r) : from(i) = j
          BY <2>7, <4>2
        <4> QED BY <2>4, <2>5, <4>1, <4>3 DEF ToSet
      <3> QED BY <3>1, <3>2
    <2>10. r \in Lists(S)
      BY <2>3, <2>8, ListIs
    <2> QED BY <1>4, <2>3, <2>9, <2>10 DEF r
  <1> QED BY <1>3, <1>4

-----------------------------------------------------------------------------
(* The values of a store.                                                  *)

(* Values, without its CASE.                                               *)
LEMMA ValuesAre ==
  /\ kind = "engines" => Values = [engines : Lists(Names), default : Names]
  /\ kind = "theme"   => Values = Themes
  /\ kind = "server"  => Values = Servers
  /\ kind = "keys"    => Values = [Actions -> SUBSET Chords]
  /\ kind = "marks"   => Values = Lists(Urls)
  /\ kind = "session" => Values = Sessions
  /\ kind \in Kinds   => Nothing \notin Values /\ Torn \notin Values
  BY NoValueAssumption DEF Values, ValuesOf

(* Default, of any store.                                                  *)
LEMMA DefaultOK ==
  ASSUME kind \in Kinds
  PROVE  Default \in Values
  <1>1. CASE kind = "engines"
    <2>1. Offered \in Seq(Names) /\ Len(Offered) \in Nat /\ DOMAIN Offered = 1..Len(Offered)
      BY StoresAssumption, LenProperties
    <2>2. Offered \in Lists(Names)
      BY <2>1, FiniteAssumption, StoresAssumption, ListIs DEF IsInjective
    <2>3. Len(Offered) # 0
      BY <2>1, StoresAssumption, EmptySeq
    <2>4. Offered[1] \in Names
      BY <2>1, <2>3, ElementOfSeq
    <2>5. Default = [engines |-> Offered, default |-> Offered[1]]
      BY <1>1 DEF Default, DefaultEngines
    <2> QED BY <1>1, <2>2, <2>4, <2>5, ValuesAre
  <1>2. CASE kind = "theme" \/ kind = "server"
    BY <1>2, ValuesAre DEF Default, Themes, Servers
  <1>3. CASE kind = "keys"
    <2>1. Default = [a \in Actions |-> {Preset[a]}]
      BY <1>3 DEF Default, DefaultKeys
    <2> QED BY <1>3, <2>1, StoresAssumption, ValuesAre
  <1>4. CASE kind = "marks"
    <2>1. <<>> \in Seq(Urls) /\ Len(<<>>) = 0
      BY EmptySeq
    <2>2. \A i, j \in 1..Len(<<>>) : i = j
      BY <2>1
    <2>3. <<>> \in Lists(Urls)
      BY <2>1, <2>2, FiniteAssumption, ListIs
    <2> QED BY <1>4, <2>3, ValuesAre DEF Default
  <1>5. CASE kind = "session"
    <2>1. <<>> \in [1..0 -> Urls] /\ 0 \in 0..MaxPages
      BY StoresAssumption
    <2>2. <<>> \in Sessions
      BY <2>1 DEF Sessions
    <2> QED BY <1>5, <2>2, ValuesAre DEF Default
  <1> QED BY <1>1, <1>2, <1>3, <1>4, <1>5 DEF Kinds

-----------------------------------------------------------------------------
(* The inductive invariant.                                                *)

(* The page of a window shows some value.                                  *)
PagesShow == \A w \in Windows : Open(w) => shown[w] \in Values

(* A private window neither writes nor leaves anything.                    *)
PrivateQuiet == \A w \in Private : phase[w] = "idle" /\ w \notin kept

(* The open pages alone change without being saved, and they only between  *)
(* two handlers.                                                           *)
Unsaved(w) == kind = "session" /\ phase[w] = "idle"
CopiesSaved ==
  \A w \in Windows : Open(w) => saved[w] \in Values /\ (saved[w] = mem[w] \/ Unsaved(w))

(* What the window has read or written is in the file, unless it is about  *)
(* to save.                                                                *)
Stands ==
  \A w \in kept :
    /\ Open(w)
    /\ phase[w] = "idle" => file = saved[w] \/ (file = Nothing /\ saved[w] = Default)

IInv == TypeOK /\ PagesShow /\ PrivateQuiet /\ CopiesSaved /\ Stands

(* A copy that stays loses nothing.                                        *)
LEMMA SameLosesNothing == \A m : LosesNothing(kind, m, m)
  BY DEF LosesNothing, Unbound

(* Of a step that leaves kind alone.                                       *)
LEMMA KindKept ==
  ASSUME UNCHANGED kind
  PROVE  Values' = Values /\ Default' = Default
  BY DEF Values, ValuesOf, Default

(* A handler: the copy has another value, and a save begins.               *)
LEMMA ChangeOK ==
  ASSUME IInv, NEW w \in Windows, Idle(w), NEW v \in Values, Change(w, v),
         shown[w] = mem[w] => LosesNothing(kind, mem[w], v)
  PROVE  IInv' /\ FreshPageLosesNothing
  <1>1. /\ mem' = [mem EXCEPT ![w] = v] /\ saved' = [saved EXCEPT ![w] = v]
        /\ phase' = IF w \in Private THEN phase ELSE [phase EXCEPT ![w] = "opening"]
        /\ UNCHANGED <<kind, file, shown, kept>>
    BY DEF Change, Save
  <1>2. /\ mem \in [Windows -> Values \cup {Nothing}]
        /\ saved \in [Windows -> Values \cup {Nothing}]
        /\ phase \in [Windows -> {"idle", "opening", "writing", "mixing"}]
        /\ Open(w) /\ phase[w] = "idle" /\ Nothing \notin Values
    BY ValuesAre DEF IInv, TypeOK, Idle
  <1>3. \A u \in Windows : Open(u)' <=> Open(u)
    BY <1>1, <1>2 DEF Open
  <1>4. TypeOK'
    BY <1>1, <1>2, <1>3, KindKept DEF IInv, TypeOK
  <1>5. PagesShow' /\ PrivateQuiet'
    BY <1>1, <1>2, <1>3, KindKept, StoresAssumption DEF IInv, PagesShow, PrivateQuiet
  <1>6. CopiesSaved'
    BY <1>1, <1>2, <1>3, KindKept DEF IInv, CopiesSaved, Unsaved
  <1>7. Stands'
    <2> SUFFICES ASSUME NEW u \in kept
                 PROVE  /\ Open(u)'
                        /\ phase'[u] = "idle" =>
                             file' = saved'[u] \/ (file' = Nothing /\ saved'[u] = Default')
      BY <1>1 DEF Stands
    <2>1. u \in Windows /\ u \notin Private
      BY DEF IInv, TypeOK, PrivateQuiet
    <2>2. CASE u = w
      BY <1>1, <1>2, <1>3, <2>1, <2>2
    <2>3. CASE u # w
      BY <1>1, <1>2, <1>3, <2>1, <2>3, KindKept DEF IInv, Stands
    <2> QED BY <2>2, <2>3
  <1>8. FreshPageLosesNothing
    <2> SUFFICES ASSUME NEW u \in Windows, shown[u] = mem[u]
                 PROVE  LosesNothing(kind, mem[u], mem'[u])
      BY DEF FreshPageLosesNothing
    <2>1. CASE u = w
      BY <1>1, <1>2, <2>1
    <2>2. CASE u # w
      BY <1>1, <1>2, <2>2, SameLosesNothing
    <2> QED BY <2>1, <2>2
  <1> QED BY <1>4, <1>5, <1>6, <1>7, <1>8 DEF IInv

-----------------------------------------------------------------------------
(* The handlers, each with the value it makes.                             *)

(* A copy, and what is shown of it, are values while the window is open.   *)
LEMMA CopyIs ==
  ASSUME IInv, NEW w \in Windows, Idle(w)
  PROVE  mem[w] \in Values /\ shown[w] \in Values
  BY DEF IInv, TypeOK, PagesShow, Idle, Open

(* The theme and the vault's server: any of them.                          *)
LEMMA FieldStep ==
  ASSUME IInv, NEW w \in Windows,
         UpdateGeneral(w) \/ ConnectBitwarden(w) \/ DisconnectBitwarden(w)
  PROVE  IInv' /\ FreshPageLosesNothing
  <1>1. PICK v : v \in Values /\ Change(w, v) /\ Idle(w) /\ kind \in {"theme", "server"}
    BY ValuesAre DEF UpdateGeneral, ConnectBitwarden, DisconnectBitwarden, NextTheme, Themes,
                     Servers
  <1>2. LosesNothing(kind, mem[w], v)
    BY <1>1 DEF LosesNothing
  <1> QED BY <1>1, <1>2, ChangeOK

(* add_search_engine: what was listed still is.                            *)
LEMMA SearchEnginesAddStep ==
  ASSUME IInv, NEW w \in Windows, NEW n \in Names, SearchEnginesAdd(w, n)
  PROVE  IInv' /\ FreshPageLosesNothing
  <1> DEFINE s == mem[w]
             v == AddSearchEngine(s, n)
  <1>1. kind = "engines" /\ Idle(w) /\ Change(w, v)
    BY DEF SearchEnginesAdd
  <1>2. s \in [engines : Lists(Names), default : Names]
    BY <1>1, CopyIs, ValuesAre
  <1> HIDE DEF s
  <1>3. CASE n \in ToSet(s.engines)
    <2>1. v = s
      BY <1>3 DEF AddSearchEngine
    <2> QED BY <1>1, <1>2, <2>1, ValuesAre, SameLosesNothing, ChangeOK DEF s
  <1>4. CASE n \notin ToSet(s.engines)
    <2>1. /\ Append(s.engines, n) \in Lists(Names)
          /\ ToSet(Append(s.engines, n)) = ToSet(s.engines) \cup {n}
      BY <1>2, <1>4, FiniteAssumption, AppendList
    <2>2. v = [s EXCEPT !.engines = Append(@, n)]
      BY <1>4 DEF AddSearchEngine
    <2>3. v.engines = Append(s.engines, n) /\ v.default = s.default
      BY <1>2, <2>2
    <2>4. v \in Values
      BY <1>1, <1>2, <2>1, <2>2, ValuesAre
    <2>5. LosesNothing(kind, s, v)
      BY <1>1, <2>1, <2>3 DEF LosesNothing, ListedDefault
    <2> QED BY <1>1, <2>4, <2>5, ChangeOK DEF s
  <1> QED BY <1>3, <1>4

(* remove_search_engine: the default goes to one that is left.             *)
LEMMA SearchEnginesRemoveStep ==
  ASSUME IInv, NEW w \in Windows, NEW n \in Names, SearchEnginesRemove(w, n)
  PROVE  IInv' /\ FreshPageLosesNothing
  <1> DEFINE s == mem[w]
             v == RemoveSearchEngine(s, n)
             rest == Without(s.engines, n)
  <1>1. kind = "engines" /\ Idle(w) /\ Change(w, v)
    BY DEF SearchEnginesRemove
  <1>2. s \in [engines : Lists(Names), default : Names]
    BY <1>1, CopyIs, ValuesAre
  <1> HIDE DEF s
  <1>3. CASE Len(s.engines) =< 1
    <2>1. v = s
      BY <1>3 DEF RemoveSearchEngine
    <2> QED BY <1>1, <1>2, <2>1, ValuesAre, SameLosesNothing, ChangeOK DEF s
  <1>4. CASE ~(Len(s.engines) =< 1)
    <2> DEFINE d == IF n \in ToSet(s.engines) /\ s.default = n THEN rest[1] ELSE s.default
    <2>1. /\ rest \in Lists(Names) /\ ToSet(rest) = ToSet(s.engines) \ {n}
          /\ Len(rest) = IF n \in ToSet(s.engines) THEN Len(s.engines) - 1 ELSE Len(s.engines)
      BY <1>2, FiniteAssumption, WithoutList
    <2>2. v = [s EXCEPT !.engines = rest, !.default = d]
      BY <1>4 DEF RemoveSearchEngine
    <2> HIDE DEF rest
    <2>3. rest \in Seq(Names) /\ Len(rest) \in Nat \ {0} /\ DOMAIN rest = 1..Len(rest)
      <3>1. s.engines \in Seq(Names) /\ rest \in Seq(Names)
        BY <1>2, <2>1, FiniteAssumption, ListIs
      <3>2. Len(s.engines) \in Nat /\ Len(rest) \in Nat /\ DOMAIN rest = 1..Len(rest)
        BY <3>1, LenProperties
      <3> QED BY <1>4, <2>1, <3>1, <3>2
    <2>4. rest[1] \in Names /\ rest[1] \in ToSet(rest)
      <3>1. 1 \in 1..Len(rest)
        BY <2>3
      <3> QED BY <2>3, <3>1, ElementOfSeq DEF ToSet
    <2>5. d \in Names
      BY <1>2, <2>4
    <2>6. v.engines = rest /\ v.default = d /\ v \in [engines : Lists(Names), default : Names]
      BY <1>2, <2>1, <2>2, <2>5
    <2>7. ListedDefault(s) => ListedDefault(v)
      BY <2>1, <2>4, <2>6 DEF ListedDefault
    <2> HIDE DEF v
    <2>8. LosesNothing(kind, s, v)
      BY <1>1, <2>7 DEF LosesNothing
    <2> QED BY <1>1, <2>6, <2>8, ValuesAre, ChangeOK DEF s
  <1> QED BY <1>3, <1>4

(* set_default: of an engine the page shows, so of one that is listed, if  *)
(* the page shows what is so.                                              *)
LEMMA SearchEnginesSetDefaultStep ==
  ASSUME IInv, NEW w \in Windows, NEW n \in Names, SearchEnginesSetDefault(w, n)
  PROVE  IInv' /\ FreshPageLosesNothing
  <1> DEFINE s == mem[w]
             v == [s EXCEPT !.default = n]
  <1>1. kind = "engines" /\ Idle(w) /\ Offers(w, n) /\ Change(w, v)
    BY DEF SearchEnginesSetDefault
  <1>2. s \in [engines : Lists(Names), default : Names]
    BY <1>1, CopyIs, ValuesAre
  <1> HIDE DEF s
  <1>3. v \in Values /\ v.engines = s.engines /\ v.default = n
    BY <1>1, <1>2, ValuesAre
  <1>4. shown[w] = s => LosesNothing(kind, s, v)
    BY <1>1, <1>3 DEF LosesNothing, ListedDefault, Offers
  <1> QED BY <1>1, <1>3, <1>4, ChangeOK DEF s

(* set_bindings: what the page shows of the action's chords, and one more. *)
LEMMA AddChordStep ==
  ASSUME IInv, NEW w \in Windows, NEW a \in Actions, NEW c \in Chords, AddChord(w, a, c)
  PROVE  IInv' /\ FreshPageLosesNothing
  <1> DEFINE k == mem[w]
             v == [k EXCEPT ![a] = shown[w][a] \cup {c}]
  <1>1. kind = "keys" /\ Idle(w) /\ Change(w, v)
    BY DEF AddChord, SetBindings
  <1>2. k \in [Actions -> SUBSET Chords] /\ shown[w] \in [Actions -> SUBSET Chords]
    BY <1>1, CopyIs, ValuesAre
  <1> HIDE DEF k
  <1>3. v \in Values
    BY <1>1, <1>2, ValuesAre
  <1>4. shown[w] = k => LosesNothing(kind, k, v)
    BY <1>1, <1>2 DEF LosesNothing, Unbound
  <1> QED BY <1>1, <1>3, <1>4, ChangeOK DEF k

(* The same, and one less.                                                 *)
LEMMA RemoveChordStep ==
  ASSUME IInv, NEW w \in Windows, NEW a \in Actions, NEW c \in Chords, RemoveChord(w, a, c)
  PROVE  IInv' /\ FreshPageLosesNothing
  <1> DEFINE k == mem[w]
             v == [k EXCEPT ![a] = shown[w][a] \ {c}]
  <1>1. kind = "keys" /\ Idle(w) /\ Change(w, v) /\ c \in shown[w][a]
    BY DEF RemoveChord, SetBindings
  <1>2. k \in [Actions -> SUBSET Chords] /\ shown[w] \in [Actions -> SUBSET Chords]
    BY <1>1, CopyIs, ValuesAre
  <1> HIDE DEF k
  <1>3. v \in Values
    BY <1>1, <1>2, ValuesAre
  <1>4. ASSUME shown[w] = k PROVE LosesNothing(kind, k, v)
    <2>1. \A b \in Actions : v[b] = IF b = a THEN k[a] \ {c} ELSE k[b]
      BY <1>2, <1>4
    <2> HIDE DEF v
    <2>2. Unbound(v, k) = {}
      BY <2>1 DEF Unbound
    <2>3. Unbound(k, v) = {<<a, c>>}
      BY <1>1, <1>4, <2>1 DEF Unbound
    <2> QED BY <1>1, <2>2, <2>3, FS_Singleton DEF LosesNothing
  <1> QED BY <1>1, <1>3, <1>4, ChangeOK DEF k

(* Bookmarks: other than a kind with something to lose.                    *)
LEMMA MarksStep ==
  ASSUME IInv, NEW w \in Windows, NEW u \in Urls,
         ToggleBookmark(w, u) \/ SwitcherRemoveBookmark(w, u)
  PROVE  IInv' /\ FreshPageLosesNothing
  <1>1. kind = "marks" /\ Idle(w) /\ mem[w] \in Lists(Urls)
    BY CopyIs, ValuesAre DEF ToggleBookmark, SwitcherRemoveBookmark
  <1>2. Without(mem[w], u) \in Lists(Urls)
    BY <1>1, FiniteAssumption, WithoutList
  <1>3. Toggle(mem[w], u) \in Lists(Urls)
    BY <1>1, <1>2, FiniteAssumption, AppendList
    DEF Toggle, IsBookmarked, RemoveBookmark, AddBookmark
  <1>4. PICK v \in Lists(Urls) : Change(w, v)
    BY <1>2, <1>3 DEF ToggleBookmark, SwitcherRemoveBookmark, RemoveBookmark
  <1>5. v \in Values /\ LosesNothing(kind, mem[w], v)
    BY <1>1, ValuesAre DEF LosesNothing
  <1> QED BY <1>1, <1>4, <1>5, ChangeOK

(* So is the session, when it is saved ...                                 *)
LEMMA SaveSessionStep ==
  ASSUME IInv, NEW w \in Windows, NEW pages \in Sessions, SaveSession(w, pages)
  PROVE  IInv' /\ FreshPageLosesNothing
  <1>1. kind = "session" /\ Idle(w) /\ Change(w, pages)
    BY DEF SaveSession
  <1>2. pages \in Values /\ LosesNothing(kind, mem[w], pages)
    BY <1>1, ValuesAre DEF LosesNothing
  <1> QED BY <1>1, <1>2, ChangeOK

(* ... and when it is not: what was last saved stands.                     *)
LEMMA NavigateStep ==
  ASSUME IInv, NEW w \in Windows, NEW i \in 1..MaxPages, NEW u \in Urls, Navigate(w, i, u)
  PROVE  IInv' /\ FreshPageLosesNothing
  <1> DEFINE v == [mem[w] EXCEPT ![i] = u]
  <1>1. /\ kind = "session" /\ Idle(w) /\ i \in 1..Len(mem[w])
        /\ mem' = [mem EXCEPT ![w] = v]
        /\ UNCHANGED <<kind, file, shown, phase, saved, kept>>
    BY DEF Navigate
  <1>2. v \in Values
    <2>1. mem[w] \in Sessions
      BY <1>1, CopyIs, ValuesAre
    <2>2. PICK n \in 0..MaxPages : mem[w] \in [1..n -> Urls]
      BY <2>1 DEF Sessions
    <2>3. v \in [1..n -> Urls]
      BY <2>2
    <2>4. v \in Sessions
      BY <2>2, <2>3 DEF Sessions
    <2> QED BY <1>1, <2>4, ValuesAre
  <1> HIDE DEF v
  <1>3. /\ mem \in [Windows -> Values \cup {Nothing}] /\ kept \subseteq Windows
        /\ Open(w) /\ phase[w] = "idle" /\ Nothing \notin Values
    BY <1>1, ValuesAre DEF IInv, TypeOK, Idle
  <1>4. \A x \in Windows : Open(x)' <=> Open(x)
    BY <1>1, <1>2, <1>3 DEF Open
  <1>5. TypeOK'
    BY <1>1, <1>2, <1>3, <1>4, KindKept DEF IInv, TypeOK
  <1>6. PagesShow' /\ PrivateQuiet'
    BY <1>1, <1>4, KindKept DEF IInv, PagesShow, PrivateQuiet
  <1>7. CopiesSaved'
    BY <1>1, <1>3, <1>4, KindKept DEF IInv, CopiesSaved, Unsaved
  <1>8. Stands'
    BY <1>1, <1>3, <1>4, KindKept DEF IInv, Stands
  <1>9. FreshPageLosesNothing
    BY <1>1 DEF FreshPageLosesNothing, LosesNothing
  <1> QED BY <1>5, <1>6, <1>7, <1>8, <1>9 DEF IInv

-----------------------------------------------------------------------------
(* What else a window and its files do.                                    *)

(* A step that changes no copy loses nothing.                              *)
LEMMA CopiesKept ==
  ASSUME UNCHANGED mem
  PROVE  FreshPageLosesNothing
  BY SameLosesNothing DEF FreshPageLosesNothing

(* A page reads.                                                           *)
LEMMA RereadStep ==
  ASSUME IInv, NEW w \in Windows, Reread(w)
  PROVE  IInv' /\ FreshPageLosesNothing
  <1>1. /\ shown' = [shown EXCEPT ![w] = mem[w]] /\ Idle(w)
        /\ UNCHANGED <<kind, file, mem, phase, saved, kept>>
    BY DEF Reread
  <1>2. \A u \in Windows : Open(u)' <=> Open(u)
    BY <1>1 DEF Open
  <1>3. mem[w] \in Values
    BY <1>1, CopyIs
  <1>4. TypeOK' /\ PagesShow'
    BY <1>1, <1>2, <1>3, KindKept DEF IInv, TypeOK, PagesShow
  <1>5. PrivateQuiet' /\ CopiesSaved'
    BY <1>1, <1>2, KindKept DEF IInv, PrivateQuiet, CopiesSaved, Unsaved
  <1>6. Stands'
    BY <1>1, <1>2, KindKept DEF IInv, TypeOK, Stands
  <1> QED BY <1>1, <1>4, <1>5, <1>6, CopiesKept DEF IInv

(* A save that goes on or ends, when nobody but those in keep can count on *)
(* the file any more.                                                      *)
LEMMA SavingStep ==
  ASSUME IInv, NEW w \in Windows, phase[w] # "idle", UNCHANGED <<kind, mem, shown, saved>>,
         file' \in Values \cup {Nothing, Torn},
         phase' \in [Windows -> {"idle", "opening", "writing", "mixing"}],
         \A u \in Windows : u # w => (phase'[u] = "idle" <=> phase[u] = "idle"),
         \/ kept' = {}
         \/ kept' = {w} /\ file' = mem[w]
         \/ kept' = kept \ {w} /\ file' = file
  PROVE  IInv' /\ FreshPageLosesNothing
  <1>1. /\ w \notin Private /\ Open(w) /\ mem[w] \in Values /\ saved[w] = mem[w]
        /\ kept \subseteq Windows
    BY DEF IInv, TypeOK, PrivateQuiet, Open, CopiesSaved, Unsaved
  <1>2. \A u \in Windows : Open(u)' <=> Open(u)
    BY DEF Open
  <1>3. TypeOK'
    BY <1>1, <1>2, KindKept DEF IInv, TypeOK
  <1>4. PagesShow'
    BY <1>2, KindKept DEF IInv, PagesShow
  <1>5. PrivateQuiet'
    BY <1>1, StoresAssumption DEF IInv, PrivateQuiet
  <1>6. CopiesSaved'
    BY <1>1, <1>2, KindKept DEF IInv, CopiesSaved, Unsaved
  <1>7. Stands'
    <2>1. CASE kept' = {}
      BY <2>1 DEF Stands
    <2>2. CASE kept' = {w} /\ file' = mem[w]
      BY <1>1, <1>2, <2>2 DEF Stands
    <2>3. CASE kept' = kept \ {w} /\ file' = file
      BY <1>1, <1>2, <2>3, KindKept DEF IInv, Stands
    <2> QED BY <2>1, <2>2, <2>3
  <1> QED BY <1>3, <1>4, <1>5, <1>6, <1>7, CopiesKept DEF IInv

(* open and write, alone or among others, and a failure of either.         *)
LEMMA SaveStep ==
  ASSUME IInv, NEW w \in Windows,
         Truncate(w) \/ Write(w) \/ WriteAmong(w) \/ SaveFails(w)
  PROVE  IInv' /\ FreshPageLosesNothing
  <1>1. /\ phase \in [Windows -> {"idle", "opening", "writing", "mixing"}]
        /\ file \in Values \cup {Nothing, Torn}
        /\ phase[w] # "idle" => mem[w] \in Values
    BY DEF IInv, TypeOK, Open
  <1>2. CASE Truncate(w)
    <2>1. /\ phase[w] = "opening" /\ file' = Torn /\ kept' = {}
          /\ phase' = IF Others(w) = {} THEN [phase EXCEPT ![w] = "writing"]
                      ELSE [v \in Windows |-> IF v = w \/ Past(v) THEN "mixing" ELSE phase[v]]
          /\ UNCHANGED <<kind, mem, shown, saved>>
      BY <1>2 DEF Truncate
    <2>2. phase' \in [Windows -> {"idle", "opening", "writing", "mixing"}]
      BY <1>1, <2>1
    <2>3. \A u \in Windows : u # w => (phase'[u] = "idle" <=> phase[u] = "idle")
      BY <1>1, <2>1 DEF Past
    <2> QED BY <2>1, <2>2, <2>3, SavingStep
  <1>3. CASE Write(w) \/ WriteAmong(w)
    <2>1. /\ phase[w] # "idle" /\ phase' = [phase EXCEPT ![w] = "idle"]
          /\ file' \in {mem[w], Torn} /\ UNCHANGED <<kind, mem, shown, saved>>
          /\ kept' = {} \/ (kept' = {w} /\ file' = mem[w])
      BY <1>3 DEF Write, WriteAmong
    <2> QED BY <1>1, <2>1, SavingStep
  <1>4. CASE SaveFails(w)
    <2>1. /\ phase[w] # "idle" /\ phase' = [phase EXCEPT ![w] = "idle"]
          /\ file' \in {file, Torn} /\ UNCHANGED <<kind, mem, shown, saved>>
          /\ kept' = {} \/ (kept' = kept \ {w} /\ file' = file)
      BY <1>4 DEF SaveFails, BreaksOff
    <2> QED BY <1>1, <2>1, SavingStep
  <1> QED BY <1>2, <1>3, <1>4

(* A window starts with what the file holds, or with the default.          *)
LEMMA LaunchStep ==
  ASSUME IInv, NEW w \in Windows, Launch(w)
  PROVE  IInv' /\ FreshPageLosesNothing
  <1>1. /\ ~Open(w)
        /\ mem' = [mem EXCEPT ![w] = Loaded(w)] /\ shown' = [shown EXCEPT ![w] = Loaded(w)]
        /\ saved' = [saved EXCEPT ![w] = Loaded(w)]
        /\ kept' = IF w \in Private \/ file = Torn THEN kept ELSE kept \cup {w}
        /\ UNCHANGED <<kind, file, phase>>
    BY DEF Launch
  <1>2. /\ mem \in [Windows -> Values \cup {Nothing}]
        /\ saved \in [Windows -> Values \cup {Nothing}]
        /\ phase[w] = "idle" /\ Nothing \notin Values /\ kind \in Kinds
        /\ file \in Values \cup {Nothing, Torn} /\ kept \subseteq Windows /\ w \notin kept
    BY <1>1, ValuesAre DEF IInv, TypeOK, Stands
  <1>3. Loaded(w) \in Values
    BY <1>2, DefaultOK DEF Loaded
  <1>4. \A u \in Windows : Open(u)' <=> Open(u) \/ u = w
    BY <1>1, <1>2, <1>3 DEF Open
  <1>5. TypeOK'
    BY <1>1, <1>2, <1>3, <1>4, KindKept DEF IInv, TypeOK
  <1>6. PagesShow'
    BY <1>1, <1>3, <1>4, KindKept DEF IInv, TypeOK, PagesShow
  <1>7. PrivateQuiet'
    BY <1>1 DEF IInv, PrivateQuiet
  <1>8. CopiesSaved'
    BY <1>1, <1>2, <1>3, <1>4, KindKept DEF IInv, CopiesSaved, Unsaved
  <1>9. Stands'
    <2> SUFFICES ASSUME NEW u \in kept'
                 PROVE  /\ Open(u)'
                        /\ phase'[u] = "idle" =>
                             file' = saved'[u] \/ (file' = Nothing /\ saved'[u] = Default')
      BY DEF Stands
    <2>1. CASE u = w
      <3>1. w \notin Private /\ file # Torn
        BY <1>1, <1>2, <2>1
      <3>2. saved'[w] = IF file = Nothing THEN Default ELSE file
        BY <1>1, <1>2, <3>1 DEF Loaded
      <3> QED BY <1>1, <1>4, <2>1, <3>2, KindKept
    <2>2. CASE u # w
      <3>1. u \in kept /\ u \in Windows
        BY <1>1, <1>2, <2>2
      <3> QED BY <1>1, <1>2, <1>4, <2>2, <3>1, KindKept DEF IInv, Stands
    <2> QED BY <2>1, <2>2
  <1>10. FreshPageLosesNothing
    BY <1>1, <1>2, SameLosesNothing DEF FreshPageLosesNothing
  <1> QED BY <1>5, <1>6, <1>7, <1>8, <1>9, <1>10 DEF IInv

(* A window closes, or dies.                                               *)
LEMMA GoneStep ==
  ASSUME IInv, NEW w \in Windows, Quit(w) \/ Kill(w)
  PROVE  IInv' /\ FreshPageLosesNothing
  <1>1. /\ mem' = [mem EXCEPT ![w] = Nothing] /\ shown' = [shown EXCEPT ![w] = Nothing]
        /\ saved' = [saved EXCEPT ![w] = Nothing]
        /\ phase' = [phase EXCEPT ![w] = "idle"] /\ UNCHANGED kind
        /\ file' \in {file, Torn} /\ (kept' = {} \/ (kept' = kept \ {w} /\ file' = file))
    BY DEF Quit, Kill, Gone, BreaksOff
  <1>2. /\ mem \in [Windows -> Values \cup {Nothing}]
        /\ saved \in [Windows -> Values \cup {Nothing}]
        /\ phase \in [Windows -> {"idle", "opening", "writing", "mixing"}]
        /\ kept \subseteq Windows
    BY DEF IInv, TypeOK
  <1>3. \A u \in Windows : Open(u)' <=> Open(u) /\ u # w
    BY <1>1, <1>2 DEF Open
  <1>4. TypeOK'
    BY <1>1, <1>2, <1>3, KindKept DEF IInv, TypeOK
  <1>5. PagesShow'
    BY <1>1, <1>3, KindKept DEF IInv, TypeOK, PagesShow
  <1>6. PrivateQuiet'
    BY <1>1, <1>2, StoresAssumption DEF IInv, PrivateQuiet
  <1>7. CopiesSaved'
    BY <1>1, <1>2, <1>3, KindKept DEF IInv, CopiesSaved, Unsaved
  <1>8. Stands'
    <2>1. CASE kept' = {}
      BY <2>1 DEF Stands
    <2>2. CASE kept' = kept \ {w} /\ file' = file
      BY <1>1, <1>2, <1>3, <2>2, KindKept DEF IInv, Stands
    <2> QED BY <1>1, <2>1, <2>2
  <1>9. FreshPageLosesNothing
    BY <1>1, <1>2, <1>3, SameLosesNothing DEF FreshPageLosesNothing
  <1> QED BY <1>4, <1>5, <1>6, <1>7, <1>8, <1>9 DEF IInv

(* Every step.                                                             *)
LEMMA StepOK ==
  ASSUME IInv, [Next]_vars
  PROVE  IInv' /\ FreshPageLosesNothing
  <1>1. CASE Next
    <2>1. PICK w \in Windows :
            \/ UpdateGeneral(w) \/ ConnectBitwarden(w) \/ DisconnectBitwarden(w)
            \/ \E n \in Names : SearchEnginesAdd(w, n) \/ SearchEnginesRemove(w, n)
                                                       \/ SearchEnginesSetDefault(w, n)
            \/ \E a \in Actions, c \in Chords : AddChord(w, a, c) \/ RemoveChord(w, a, c)
            \/ \E u \in Urls : ToggleBookmark(w, u) \/ SwitcherRemoveBookmark(w, u)
            \/ \E pages \in Sessions : SaveSession(w, pages)
            \/ \E i \in 1..MaxPages, u \in Urls : Navigate(w, i, u)
            \/ ReloadSettings(w) \/ ReloadManagers(w) \/ ReloadBindings(w) \/ ReloadBookmarks(w)
            \/ Truncate(w) \/ Write(w) \/ WriteAmong(w) \/ SaveFails(w)
            \/ Launch(w) \/ Quit(w) \/ Kill(w)
      BY <1>1 DEF Next
    <2>2. CASE UpdateGeneral(w) \/ ConnectBitwarden(w) \/ DisconnectBitwarden(w)
      BY <2>2, FieldStep
    <2>3. CASE \E n \in Names : SearchEnginesAdd(w, n) \/ SearchEnginesRemove(w, n)
                                                       \/ SearchEnginesSetDefault(w, n)
      BY <2>3, SearchEnginesAddStep, SearchEnginesRemoveStep, SearchEnginesSetDefaultStep
    <2>4. CASE \E a \in Actions, c \in Chords : AddChord(w, a, c) \/ RemoveChord(w, a, c)
      BY <2>4, AddChordStep, RemoveChordStep
    <2>5. CASE \/ \E u \in Urls : ToggleBookmark(w, u) \/ SwitcherRemoveBookmark(w, u)
               \/ \E pages \in Sessions : SaveSession(w, pages)
               \/ \E i \in 1..MaxPages, u \in Urls : Navigate(w, i, u)
      BY <2>5, MarksStep, SaveSessionStep, NavigateStep
    <2>6. CASE ReloadSettings(w) \/ ReloadManagers(w) \/ ReloadBindings(w) \/ ReloadBookmarks(w)
      BY <2>6, RereadStep DEF ReloadSettings, ReloadManagers, ReloadBindings, ReloadBookmarks
    <2>7. CASE Truncate(w) \/ Write(w) \/ WriteAmong(w) \/ SaveFails(w)
      BY <2>7, SaveStep
    <2>8. CASE Launch(w) \/ Quit(w) \/ Kill(w)
      BY <2>8, LaunchStep, GoneStep
    <2> QED BY <2>1, <2>2, <2>3, <2>4, <2>5, <2>6, <2>7, <2>8
  <1>2. CASE UNCHANGED vars
    <2>1. UNCHANGED <<kind, file, mem, shown, phase, saved, kept>>
      BY <1>2 DEF vars
    <2>2. \A u \in Windows : Open(u)' <=> Open(u)
      BY <2>1 DEF Open
    <2>3. TypeOK' /\ PagesShow' /\ PrivateQuiet'
      BY <2>1, <2>2, KindKept DEF IInv, TypeOK, PagesShow, PrivateQuiet
    <2>4. CopiesSaved' /\ Stands'
      BY <2>1, <2>2, KindKept DEF IInv, TypeOK, CopiesSaved, Unsaved, Stands
    <2> QED BY <2>1, <2>3, <2>4, CopiesKept DEF IInv
  <1> QED BY <1>1, <1>2

-----------------------------------------------------------------------------
(* The invariant holds in every behaviour.                                 *)
LEMMA StoresInvariant == Spec => []IInv
  <1>1. Init => IInv
    <2> SUFFICES ASSUME Init PROVE IInv
      OBVIOUS
    <2>1. /\ kind \in Kinds /\ file = Nothing /\ kept = {}
          /\ mem = [w \in Windows |-> Nothing] /\ shown = [w \in Windows |-> Nothing]
          /\ phase = [w \in Windows |-> "idle"] /\ saved = [w \in Windows |-> Nothing]
      BY DEF Init
    <2>2. \A w \in Windows : ~Open(w) /\ phase[w] = "idle"
      BY <2>1 DEF Open
    <2>3. TypeOK
      BY <2>1, <2>2 DEF TypeOK
    <2> QED BY <2>2, <2>3, <2>1, StoresAssumption
            DEF IInv, PagesShow, PrivateQuiet, CopiesSaved, Stands
  <1>2. IInv /\ [Next]_vars => IInv'
    BY StepOK
  <1> QED BY <1>1, <1>2, PTL DEF Spec

(* Files, copies and pages hold values of their store, in which nothing is *)
(* listed twice, whatever the user changes and however often the files are *)
(* torn.                                                                   *)
THEOREM StoresTypesCorrect == Spec => []TypeOK
  <1>1. IInv => TypeOK
    BY DEF IInv
  <1> QED BY <1>1, StoresInvariant, PTL

(* What a window read or saved stands in the file until the next save      *)
(* begins, however many windows there are, private or not, and whatever    *)
(* became of their saves before; and it is all the window has, but for     *)
(* where its pages have navigated since.                                   *)
THEOREM LastSaveIsKept == Spec => []LastSaveStands
  <1>1. IInv => LastSaveStands
    BY DEF IInv, TypeOK, CopiesSaved, Unsaved, Stands, LastSaveStands, Idle
  <1> QED BY <1>1, StoresInvariant, PTL

(* No request unlists the default engine or unbinds a chord it did not     *)
(* name, unless its page shows what is no longer so.                       *)
THEOREM StaleOnlyLoses == Spec => OnlyStalePagesLose
  <1>1. IInv /\ [Next]_vars => FreshPageLosesNothing
    BY StepOK
  <1> QED BY <1>1, StoresInvariant, PTL DEF Spec, OnlyStalePagesLose
===============================================================================
