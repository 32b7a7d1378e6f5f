---------------------------- MODULE GtkPages_proofs ----------------------------
(***************************************************************************)
(* Proofs about GtkPages, for any URLs and limits and any number of pages: *)
(* wherever the main loop runs handlers inside the construction of an      *)
(* engine, and whatever fails to build, the pages, their engines,          *)
(* containers and URLs and the session file agree.  At the end, the chrome *)
(* around the pages (GtkChrome), in the same way.                          *)
(***************************************************************************)
EXTENDS GtkPages, PageManagerOps_proofs

-----------------------------------------------------------------------------
(* The inductive invariant, by what it is about.                           *)

(* The core: ids are given once each, and no page is without one.          *)
CoreOK(c) ==
  /\ Consistent(c)
  /\ c.limit \in Limits /\ c.next_id <= MaxPages
  /\ Len(c.pages) <= c.next_id
  /\ c.active \in 0 .. c.next_id - 1 \cup {NoPage}
  /\ c.engine \subseteq c.loaded

(* The stack of a core: containers k, of which s is visible.               *)
StackOK(c, k, s) ==
  /\ k \subseteq 0 .. c.next_id - 1 /\ Live(c) \subseteq k /\ s \in k \cup {NoPage}
  /\ c.active \in Live(c) => s = c.active

(* The URLs u of the engines, l of the pages that have lost their own.     *)
MaybeUrls == Urls \cup {NoUrl}
UrlsOK(u, l) ==
  u \in [Ids -> MaybeUrls] /\ l \in [Ids -> MaybeUrls]

(* The suspended handler b: the page it opens has its container and is not *)
(* in the Vec; the one it rebuilds has no engine, if it is there still;    *)
(* ids are left for the pages it has to register.                          *)
Opening(b) == b.kind \in {"page", "related"}
BuildOK(c, k, l, b) ==
  /\ b \in Handlers
  /\ Opening(b) => /\ b.page \in k \ Live(c) /\ b.page # c.active
                   /\ Len(c.pages) < c.next_id
  /\ b.kind \in {"page", "related", "reload"} => b.url \in MaybeUrls
  /\ b.kind = "reload" =>
       /\ b.page \in 0 .. c.next_id - 1
       /\ b.page \in Live(c) => b.page \notin c.engine /\ l[b.page] = b.url
  /\ b.rest \in Seq(MaybeUrls) /\ c.next_id + Len(b.rest) <= MaxPages

(* Until an engine has failed to build.                                    *)
Whole(c, k, b) ==
  /\ k = Live(c) \cup (IF Opening(b) THEN {b.page} ELSE {})
  /\ c.loaded = c.engine
  /\ c.active \in Live(c) => c.active \in c.engine

(* A session file f, and what it has of the pages.                         *)
Entries == [page : Ids, url : MaybeUrls]
FileOK(f) ==
  /\ f.pages \in Seq(Entries)
  /\ Len(f.pages) <= MaxPages
  /\ f.active \in 0 .. Len(f.pages)
Holds(f, c) == \A p \in Live(c) : \E i \in 1..Len(f.pages) : f.pages[i].page = p
Matches(f, c) ==
  /\ Len(f.pages) = Len(c.pages)
  /\ \A i \in 1..Len(c.pages) : f.pages[i].page = c.pages[i]
  /\ f.active = IF c.active \in Live(c) THEN Position(c, c.active) ELSE 0

(* The handlers that may end without a save: they have changed nothing.    *)
Settled(b) == b.kind \in {"none", "related", "chrome"} \/ (b.kind = "page" /\ b.caller = "open")

(* Only the handler that restores keeps the file as it found it, and what  *)
(* it has still to register are the last entries of it.                    *)
LastOf(f, r) ==
  /\ f.pages = <<>> => r = <<>>
  /\ Len(r) <= Len(f.pages)
  /\ \A i \in 1..Len(r) : r[i] = f.pages[Len(f.pages) - Len(r) + i].url
RestoreOK(f, b) == b.kind = "page" /\ b.caller = "restore" /\ LastOf(f, b.rest)

FlagsTyped == /\ up \in BOOLEAN /\ restoring \in BOOLEAN
              /\ quitting \in BOOLEAN /\ failed \in BOOLEAN

(* A window: its core, stack, URLs and suspended handler, x when an engine *)
(* has failed to build.                                                    *)
WindowOK(c, k, s, u, l, b, x) ==
  /\ CoreOK(c) /\ StackOK(c, k, s) /\ UrlsOK(u, l) /\ BuildOK(c, k, l, b)
  /\ ~x => Whole(c, k, b)

(* The session file f of a core, r while it is being restored.             *)
FileFollows(c, b, f, r) ==
  /\ FileOK(f)
  /\ ~r => Holds(f, c)
  /\ Settled(b) /\ c.pages # <<>> => Matches(f, c)
  /\ r => RestoreOK(f, b)

IInv ==
  /\ FlagsTyped
  /\ WindowOK(core, containers, shown, url, lastUrl, build, failed)
  /\ FileFollows(core, build, disk, restoring)

(* The URL of a page, and that those of the pages that stay do not change. *)
UrlOf(c, u, l, p) == IF p \in c.engine THEN u[p] ELSE l[p]
SameUrls(c, u, l, d, v, m) ==
  \A p \in Live(c) \cap Live(d) : UrlOf(d, v, m, p) = UrlOf(c, u, l, p)

-----------------------------------------------------------------------------
(* The parts of the handlers.                                              *)

(* The part of a core that has a limit and ids left.                       *)
LEMMA CoreFacts ==
  ASSUME NEW c, CoreOK(c)
  PROVE  /\ Consistent(c) /\ c.pages \in Seq(Nat) /\ Len(c.pages) \in Nat /\ c.next_id \in Nat
         /\ c.active \in Nat \cup {NoPage} /\ c.loaded \subseteq Live(c)
         /\ c.engine \subseteq Live(c) /\ Live(c) \subseteq Ids /\ Live(c) \subseteq Nat
         /\ c.limit \in Nat \cup {Unlimited} /\ c.limit \in Limits
         /\ Live(c) \subseteq 0 .. c.next_id - 1 /\ c.next_id \notin Live(c)
         /\ MaxPages \in Nat \ {0} /\ 0 .. c.next_id - 1 \subseteq Ids
         /\ \A i \in 1..Len(c.pages) : c.pages[i] \in Live(c)
         /\ NoPage \notin Nat
  <1>1. /\ Consistent(c) /\ c.limit \in Limits /\ c.next_id <= MaxPages
        /\ Live(c) \subseteq 0 .. c.next_id - 1
    BY DEF CoreOK, Consistent, IdsUnique
  <1>2. /\ c.pages \in Seq(Nat) /\ c.next_id \in Nat
        /\ c.active \in Nat \cup {NoPage} /\ c.loaded \subseteq Live(c)
        /\ c.engine \subseteq Live(c) /\ c.limit \in Nat \cup {Unlimited}
    BY <1>1 DEF Consistent, CoreTypeOK
  <1>3. \A i \in 1..Len(c.pages) : c.pages[i] \in Live(c)
    BY DEF Live, Elements
  <1>4. MaxPages \in Nat \ {0} /\ NoPage \notin Nat
    BY GtkBoundAssumption, NoPageAssumption
  <1>5. /\ 0 .. c.next_id - 1 \subseteq 0 .. MaxPages - 1
        /\ c.next_id \notin 0 .. c.next_id - 1 /\ 0 .. c.next_id - 1 \subseteq Nat
    BY <1>1, <1>2, <1>4
  <1>6. Len(c.pages) \in Nat
    BY <1>2, LenProperties
  <1> QED BY <1>1, <1>2, <1>3, <1>4, <1>5, <1>6 DEF Ids

(* A handler that builds nothing needs nothing.                            *)
LEMMA IdleOK ==
  ASSUME NEW c, NEW k, NEW l, CoreOK(c)
  PROVE  BuildOK(c, k, l, NoBuild) /\ ~Opening(NoBuild) /\ Settled(NoBuild)
  <1>1. /\ NoBuild.kind = "none" /\ NoBuild.rest = <<>>
    BY DEF NoBuild
  <1>2. NoBuild \in Handlers
    <2>1. <<>> \in Seq(MaybeUrls)
      OBVIOUS
    <2> QED BY <2>1 DEF NoBuild, Handlers, Origins
  <1>3. <<>> \in Seq(MaybeUrls) /\ Len(<<>>) = 0
    OBVIOUS
  <1>4. c.next_id + 0 <= MaxPages
    BY CoreFacts DEF CoreOK
  <1> HIDE DEF NoBuild
  <1>5. ~Opening(NoBuild) /\ Settled(NoBuild)
    BY <1>1 DEF Opening, Settled
  <1> QED BY <1>1, <1>2, <1>3, <1>4, <1>5 DEF BuildOK

(* enforce_loaded_limit and unload_engines: pages stay, engines that are   *)
(* left have their page loaded, and the page in front keeps its own.       *)
LEMMA UnloadedOK ==
  ASSUME NEW c, CoreOK(c), NEW d, d = Unload(Enforced(c), Evicted(c))
  PROVE  /\ CoreOK(d) /\ Live(d) = Live(c)
         /\ d.engine = c.engine \ Evicted(c) /\ d.loaded = c.loaded \ Evicted(c)
         /\ d.pages = c.pages /\ d.active = c.active /\ d.next_id = c.next_id
         /\ d.limit = c.limit
         /\ c.active \notin Evicted(c)
  <1> DEFINE e == Enforced(c)
  <1>1. /\ Consistent(e) /\ Live(e) = Live(c) /\ e.loaded = c.loaded \ Evicted(c)
        /\ \A f \in Fields \ {"loaded"} : e[f] = c[f]
    BY EnforcedOK DEF CoreOK
  <1>2. d = [e EXCEPT !.engine = @ \ Evicted(c)]
    BY DEF Unload
  <1> HIDE DEF e
  <1>3. /\ Consistent(d) /\ Live(d) = Live(e) /\ d.engine = e.engine \ Evicted(c)
        /\ \A f \in Fields \ {"engine"} : d[f] = e[f]
    BY <1>1, <1>2, EnginesDroppedOK
  <1>4. /\ d.loaded = e.loaded /\ d.pages = c.pages /\ d.active = c.active
        /\ d.next_id = c.next_id /\ d.limit = c.limit /\ d.engine = c.engine \ Evicted(c)
    BY <1>1, <1>3 DEF Fields
  <1>5. c.active \notin Evicted(c)
    BY DEF Evicted, Candidates
  <1> QED BY <1>1, <1>3, <1>4, <1>5 DEF CoreOK

(* Frozen, of any last_urls.                                               *)
FrozenOf(l, c, u, gone) ==
  [p \in Ids |-> IF p \in gone \cap c.engine THEN u[p] ELSE l[p]]

(* The same, for a window: the pages that lose their engine keep their URL. *)
LEMMA EvictedOK ==
  ASSUME NEW c, NEW k, NEW s, NEW u, NEW l, NEW b, NEW x, WindowOK(c, k, s, u, l, b, x),
         NEW d, d = Unload(Enforced(c), Evicted(c)),
         NEW v, v = Without(u, Evicted(c)),
         NEW m, m = FrozenOf(l, c, u, Evicted(c))
  PROVE  /\ WindowOK(d, k, s, v, m, b, x) /\ SameUrls(c, u, l, d, v, m)
         /\ Live(d) = Live(c) /\ d.pages = c.pages /\ d.active = c.active
         /\ d.next_id = c.next_id
         /\ c.active \in c.engine => d.active \in d.engine
  <1> DEFINE gone == Evicted(c)
  <1>1. CoreOK(c) /\ StackOK(c, k, s) /\ UrlsOK(u, l) /\ BuildOK(c, k, l, b)
    BY DEF WindowOK
  <1>2. /\ CoreOK(d) /\ Live(d) = Live(c)
        /\ d.engine = c.engine \ gone /\ d.loaded = c.loaded \ gone
        /\ d.pages = c.pages /\ d.active = c.active /\ d.next_id = c.next_id
        /\ c.active \notin gone
    BY <1>1, UnloadedOK
  <1>3. v = Without(u, gone) /\ m = FrozenOf(l, c, u, gone)
    OBVIOUS
  <1>4. gone \subseteq Live(c) /\ Live(c) \subseteq Ids /\ c.engine \subseteq Live(c)
        /\ c.engine \subseteq c.loaded /\ 0 .. c.next_id - 1 \subseteq Ids
    BY <1>1, CoreFacts DEF Evicted, Candidates, CoreOK
  <1> HIDE DEF gone
  <1>5. /\ \A p \in Ids : v[p] = IF p \in gone THEN NoUrl ELSE u[p]
        /\ \A p \in Ids : m[p] = IF p \in gone \cap c.engine THEN u[p] ELSE l[p]
        /\ u \in [Ids -> MaybeUrls] /\ l \in [Ids -> MaybeUrls]
    BY <1>1, <1>3 DEF Without, FrozenOf, UrlsOK
  <1>6. UrlsOK(v, m)
    BY <1>3, <1>5 DEF Without, FrozenOf, MaybeUrls, UrlsOK
  <1>7. SameUrls(c, u, l, d, v, m)
    BY <1>2, <1>4, <1>5 DEF SameUrls, UrlOf
  <1>8. BuildOK(d, k, m, b)
    <2>1. b.kind = "reload" => /\ b.page \in 0 .. d.next_id - 1
                               /\ b.page \in Live(d) => b.page \notin d.engine /\ m[b.page] = b.url
      BY <1>1, <1>2, <1>4, <1>5 DEF BuildOK
    <2> QED BY <1>1, <1>2, <2>1 DEF BuildOK
  <1>9. StackOK(d, k, s)
    BY <1>1, <1>2 DEF StackOK
  <1>10. ~x => Whole(d, k, b)
    BY <1>2, <1>4 DEF WindowOK, Whole
  <1> QED BY <1>2, <1>6, <1>7, <1>8, <1>9, <1>10 DEF WindowOK

(* remove and the stack, of the page id a list has named.                  *)
LEMMA ClosedOK ==
  ASSUME NEW c, NEW k, NEW s, NEW u, NEW l, NEW b, NEW x, WindowOK(c, k, s, u, l, b, x),
         NEW id, Opening(b) => id # b.page,
         NEW d, d = Remove(c, id),
         NEW j, j = k \ {id}, NEW t, id \in k => t = StackRemove(s, id), id \notin k => t = s
  PROVE  /\ WindowOK(d, j, t, u, l, b, x) /\ SameUrls(c, u, l, d, u, l)
         /\ Live(d) = Live(c) \ {id} /\ d.active = c.active
  <1>1. CoreOK(c) /\ StackOK(c, k, s) /\ UrlsOK(u, l) /\ BuildOK(c, k, l, b)
    BY DEF WindowOK
  <1>2. /\ Consistent(d) /\ Live(d) = Live(c) \ {id}
        /\ d.loaded = c.loaded \ {id} /\ d.engine = c.engine \ {id}
        /\ d.active = c.active /\ d.next_id = c.next_id /\ d.limit = c.limit
    BY <1>1, RemoveOK DEF CoreOK
  <1>3. CoreOK(d) /\ Len(d.pages) <= Len(c.pages)
    <2>1. c.pages \in Seq(Nat) /\ c.next_id \in Nat /\ Len(c.pages) <= c.next_id
      BY <1>1, CoreFacts DEF CoreOK
    <2>2. Len(d.pages) <= Len(c.pages) /\ Len(d.pages) \in Nat /\ Len(c.pages) \in Nat
      <3>1. CASE id \notin Live(c)
        BY <1>1, <2>1, <3>1, RemovePages, LenProperties DEF CoreOK
      <3>2. CASE id \in Live(c)
        <4> DEFINE i == Position(c, id)
        <4>1. i \in 1..Len(c.pages) /\ d.pages = VecRemove(c.pages, i)
          BY <1>1, <3>2, RemovePages, PositionOf DEF CoreOK
        <4> HIDE DEF i
        <4> QED BY <2>1, <4>1, VecRemoveAt, LenProperties
      <3> QED BY <3>1, <3>2
    <2> QED BY <1>1, <1>2, <2>1, <2>2 DEF CoreOK
  <1>4. /\ c.engine \subseteq Live(c)
        /\ Len(d.pages) \in Nat /\ Len(c.pages) \in Nat /\ c.next_id \in Nat
    BY <1>1, <1>3, CoreFacts
  <1>5. UrlsOK(u, l) /\ SameUrls(c, u, l, d, u, l)
    BY <1>1, <1>2, <1>4 DEF UrlsOK, SameUrls, UrlOf
  <1>6. StackOK(d, j, t)
    <2>1. t \in j \cup {NoPage}
      BY <1>1 DEF StackOK, StackRemove
    <2>2. d.active \in Live(d) => t = d.active
      BY <1>1, <1>2 DEF StackOK, StackRemove
    <2> QED BY <1>1, <1>2, <2>1, <2>2 DEF StackOK
  <1>7. BuildOK(d, j, l, b)
    <2>1. Opening(b) => b.page \in j \ Live(d) /\ b.page # d.active
      BY <1>1, <1>2 DEF BuildOK
    <2>2. Opening(b) => Len(d.pages) < d.next_id
      BY <1>1, <1>2, <1>3, <1>4 DEF BuildOK
    <2>3. b.kind = "reload" => /\ b.page \in 0 .. d.next_id - 1
                               /\ b.page \in Live(d) => b.page \notin d.engine /\ l[b.page] = b.url
      BY <1>1, <1>2 DEF BuildOK
    <2> QED BY <1>1, <1>2, <2>1, <2>2, <2>3 DEF BuildOK
  <1>8. ~x => Whole(d, j, b)
    BY <1>2 DEF WindowOK, Whole
  <1> QED BY <1>2, <1>3, <1>5, <1>6, <1>7, <1>8 DEF WindowOK

(* set_active with the page's container shown, of a page with an engine.   *)
LEMMA ShownOK ==
  ASSUME NEW c, NEW k, NEW s, NEW u, NEW l, NEW b, NEW x, WindowOK(c, k, s, u, l, b, x),
         NEW id \in 0 .. c.next_id - 1, Opening(b) => id # b.page,
         x \/ (id \in Live(c) => id \in c.engine),
         NEW d, d = SetActive(c, id), NEW t, t = StackShow(k, s, id)
  PROVE  /\ WindowOK(d, k, t, u, l, b, x) /\ SameUrls(c, u, l, d, u, l)
         /\ Live(d) = Live(c) /\ d.pages = c.pages /\ d.engine = c.engine
         /\ d.next_id = c.next_id /\ d.active = id
  <1>1. CoreOK(c) /\ StackOK(c, k, s) /\ UrlsOK(u, l) /\ BuildOK(c, k, l, b)
    BY DEF WindowOK
  <1>2. id \in Nat /\ Consistent(c)
    BY <1>1, CoreFacts
  <1>3. /\ Consistent(d) /\ Live(d) = Live(c) /\ d.active = id
        /\ d.loaded = c.loaded \cup ({id} \cap Live(c))
        /\ \A f \in {"pages", "engine", "limit", "next_id"} : d[f] = c[f]
    BY <1>2, SetActiveOK
  <1>4. /\ d.pages = c.pages /\ d.engine = c.engine /\ d.limit = c.limit
        /\ d.next_id = c.next_id
    BY <1>3
  <1>5. CoreOK(d)
    BY <1>1, <1>3, <1>4 DEF CoreOK
  <1>6. UrlsOK(u, l) /\ SameUrls(c, u, l, d, u, l)
    BY <1>1, <1>3, <1>4 DEF UrlsOK, SameUrls, UrlOf
  <1>7. StackOK(d, k, t)
    BY <1>1, <1>3, <1>4 DEF StackOK, StackShow
  <1>8. BuildOK(d, k, l, b)
    BY <1>1, <1>3, <1>4 DEF BuildOK
  <1>9. ~x => Whole(d, k, b)
    BY <1>3, <1>4 DEF WindowOK, Whole
  <1> QED BY <1>3, <1>4, <1>5, <1>6, <1>7, <1>8, <1>9 DEF WindowOK

(* An id is allocated and the engine of its page starts to build, in h.    *)
LEMMA StartedOK ==
  ASSUME NEW c, NEW k, NEW s, NEW u, NEW l, NEW x, WindowOK(c, k, s, u, l, NoBuild, x),
         NEW h \in Handlers, Opening(h), h.page = c.next_id, h.url \in MaybeUrls,
         h.rest \in Seq(MaybeUrls), c.next_id + 1 + Len(h.rest) <= MaxPages,
         NEW d, d = AllocateId(c), NEW t, t = StackAdd(s, c.next_id)
  PROVE  /\ WindowOK(d, k \cup {c.next_id}, t, u, l, h, x) /\ SameUrls(c, u, l, d, u, l)
         /\ Live(d) = Live(c) /\ d.pages = c.pages /\ d.active = c.active
  <1>1. CoreOK(c) /\ StackOK(c, k, s) /\ UrlsOK(u, l)
    BY DEF WindowOK
  <1>2. /\ Consistent(d) /\ d.next_id = c.next_id + 1 /\ Live(d) = Live(c)
        /\ \A f \in Fields \ {"next_id"} : d[f] = c[f]
    BY <1>1, AllocateOK DEF CoreOK
  <1>3. /\ d.pages = c.pages /\ d.active = c.active /\ d.limit = c.limit
        /\ d.loaded = c.loaded /\ d.engine = c.engine
    BY <1>2 DEF Fields
  <1>4. /\ c.next_id \in Nat /\ Len(c.pages) \in Nat /\ MaxPages \in Nat
        /\ c.next_id \notin Live(c) /\ NoPage \notin Nat /\ Len(h.rest) \in Nat
        /\ 0 .. c.next_id - 1 \subseteq Nat
    BY <1>1, CoreFacts, LenProperties
  <1>5. /\ c.active \in 0 .. c.next_id - 1 \cup {NoPage} /\ Len(c.pages) <= c.next_id
        /\ c.engine \subseteq c.loaded /\ c.limit \in Limits
    BY <1>1 DEF CoreOK
  <1>6. CoreOK(d)
    <2>1. d.next_id <= MaxPages /\ Len(d.pages) <= d.next_id
      BY <1>2, <1>3, <1>4, <1>5
    <2>2. d.active \in 0 .. d.next_id - 1 \cup {NoPage}
      BY <1>2, <1>3, <1>4, <1>5
    <2> QED BY <1>2, <1>3, <1>5, <2>1, <2>2 DEF CoreOK
  <1>7. UrlsOK(u, l) /\ SameUrls(c, u, l, d, u, l)
    BY <1>1, <1>2, <1>3 DEF UrlsOK, SameUrls, UrlOf
  <1>8. StackOK(d, k \cup {c.next_id}, t)
    <2>1. k \cup {c.next_id} \subseteq 0 .. d.next_id - 1
      <3>1. 0 .. c.next_id - 1 \cup {c.next_id} \subseteq 0 .. (c.next_id + 1) - 1
        BY <1>4
      <3>2. k \subseteq 0 .. c.next_id - 1
        BY <1>1 DEF StackOK
      <3> QED BY <1>2, <3>1, <3>2
    <2>2. Live(d) \subseteq k \cup {c.next_id} /\ t \in (k \cup {c.next_id}) \cup {NoPage}
      BY <1>1, <1>2 DEF StackOK, StackAdd
    <2>3. d.active \in Live(d) => t = d.active
      <3>1. Live(c) \subseteq Nat
        BY <1>1, CoreFacts
      <3> QED BY <1>1, <1>2, <1>3, <1>4, <3>1 DEF StackOK, StackAdd
    <2> QED BY <2>1, <2>2, <2>3 DEF StackOK
  <1>9. BuildOK(d, k \cup {c.next_id}, l, h)
    <2>1. h.page \in (k \cup {c.next_id}) \ Live(d)
      BY <1>2, <1>4
    <2>2. h.page # d.active
      BY <1>3, <1>4, <1>5
    <2>3. Len(d.pages) < d.next_id /\ d.next_id + Len(h.rest) <= MaxPages
      BY <1>2, <1>3, <1>4, <1>5
    <2>4. h.kind # "reload"
      BY DEF Opening
    <2> QED BY <2>1, <2>2, <2>3, <2>4 DEF BuildOK
  <1>10. ~x => Whole(d, k \cup {c.next_id}, h)
    <2>1. ~Opening(NoBuild)
      BY <1>1, IdleOK
    <2> QED BY <1>2, <1>3, <2>1 DEF WindowOK, Whole
  <1> QED BY <1>2, <1>3, <1>6, <1>7, <1>8, <1>9, <1>10 DEF WindowOK

(* The URL of one engine set; URLs v that differ from u in no other.       *)
UrlSet(u, id, w) == [u EXCEPT ![id] = w]
SetAt(u, v, id) == v \in [Ids -> MaybeUrls] /\ \A p \in Ids \ {id} : v[p] = u[p]

(* insert, after which the page is shown, or insert_background of the page *)
(* b.page, whose engine was built for it.                                  *)
Grown(c, k, s, u, l, b, x, d, t, v) ==
  /\ WindowOK(c, k, s, u, l, b, x) /\ Opening(b) /\ SetAt(u, v, b.page)
  /\ \/ d = Inserted(c, b.page) /\ t = StackShow(k, s, b.page)
     \/ d = InsertedBackground(c, b.page) /\ t = s

LEMMA GrownOK ==
  ASSUME NEW c, NEW k, NEW s, NEW u, NEW l, NEW b, NEW x, NEW d, NEW t, NEW v,
         Grown(c, k, s, u, l, b, x, d, t, v), NEW id, id = b.page
  PROVE  /\ WindowOK(d, k, t, v, l, NoBuild, x) /\ SameUrls(c, u, l, d, v, l)
         /\ Live(d) = Live(c) \cup {id} /\ d.pages = Append(c.pages, id)
         /\ Len(d.pages) = Len(c.pages) + 1 /\ d.next_id = c.next_id
         /\ d = Inserted(c, id) => d.active = id /\ id \in d.engine
  <1>. USE DEF Grown
  <1>1. CoreOK(c) /\ StackOK(c, k, s) /\ UrlsOK(u, l) /\ BuildOK(c, k, l, b)
    BY DEF WindowOK
  <1>2. /\ id \in k /\ id \notin Live(c) /\ id # c.active /\ Len(c.pages) < c.next_id
        /\ id \in 0 .. c.next_id - 1 /\ b.url \in MaybeUrls
    BY <1>1 DEF BuildOK, StackOK, Opening
  <1>3. /\ Consistent(c) /\ c.pages \in Seq(Nat) /\ id \in Nat /\ id \in Ids
        /\ Len(c.pages) \in Nat /\ c.next_id \in Nat /\ c.engine \subseteq Live(c)
        /\ Live(c) \subseteq Ids /\ NoPage \notin Nat
    BY <1>1, <1>2, CoreFacts
  <1>4. /\ d.pages = Append(c.pages, id) /\ Len(d.pages) = Len(c.pages) + 1
    BY <1>3, InsertedPages, ElementsAppend
  <1>5. /\ Consistent(d) /\ Live(d) = Live(c) \cup {id}
        /\ d.loaded = c.loaded \cup {id} /\ d.engine = c.engine \cup {id}
        /\ d.limit = c.limit /\ d.next_id = c.next_id
        /\ \/ d.active = id /\ t = id
           \/ d.active = c.active /\ t = s /\ d = InsertedBackground(c, id)
        /\ d = Inserted(c, id) => d.active = id
    <2>1. CASE d = Inserted(c, id) /\ t = StackShow(k, s, id)
      <3>1. t = id
        BY <1>2, <2>1 DEF StackShow
      <3> QED BY <1>2, <1>3, <2>1, <3>1, InsertedOK
    <2>2. CASE d = InsertedBackground(c, id) /\ t = s /\ d # Inserted(c, id)
      BY <1>2, <1>3, <2>2, InsertedBackgroundOK
    <2>3. CASE d = InsertedBackground(c, id) /\ t = s /\ d = Inserted(c, id)
      (* the two differ in the page in front, which is not the new one *)
      <3>1. d.active = id /\ d.active = c.active
        <4>1. Inserted(c, id).active = id
          BY <1>2, <1>3, InsertedOK
        <4>2. InsertedBackground(c, id).active = c.active
          BY <1>2, <1>3, InsertedBackgroundOK
        <4> QED BY <2>3, <4>1, <4>2
      <3> QED BY <1>2, <3>1
    <2> QED BY <2>1, <2>2, <2>3
  <1>6. CoreOK(d)
    <2>1. Len(d.pages) <= d.next_id
      BY <1>2, <1>3, <1>4, <1>5
    <2>2. d.active \in 0 .. d.next_id - 1 \cup {NoPage}
      BY <1>1, <1>2, <1>5 DEF CoreOK
    <2>3. d.limit \in Limits /\ d.next_id <= MaxPages /\ d.engine \subseteq d.loaded
      BY <1>1, <1>5 DEF CoreOK
    <2> QED BY <1>5, <2>1, <2>2, <2>3 DEF CoreOK
  <1>7. u \in [Ids -> MaybeUrls] /\ l \in [Ids -> MaybeUrls]
    BY <1>1 DEF UrlsOK
  <1>8. v \in [Ids -> MaybeUrls] /\ \A p \in Ids \ {id} : v[p] = u[p]
    BY DEF SetAt
  <1>9. UrlsOK(v, l) /\ SameUrls(c, u, l, d, v, l)
    <2>1. \A p \in c.engine : v[p] = u[p]
      BY <1>2, <1>3, <1>8
    <2>2. UrlsOK(v, l)
      BY <1>1, <1>2, <1>5, <1>7, <1>8, <2>1 DEF UrlsOK
    <2>3. SameUrls(c, u, l, d, v, l)
      BY <1>2, <1>5, <2>1 DEF SameUrls, UrlOf
    <2> QED BY <2>2, <2>3
  <1>10. StackOK(d, k, t)
    <2>1. k \subseteq 0 .. d.next_id - 1 /\ Live(d) \subseteq k /\ t \in k \cup {NoPage}
      BY <1>1, <1>2, <1>5 DEF StackOK
    <2>2. d.active \in Live(d) => t = d.active
      BY <1>1, <1>2, <1>5 DEF StackOK
    <2> QED BY <2>1, <2>2 DEF StackOK
  <1>11. BuildOK(d, k, l, NoBuild) /\ ~Opening(NoBuild)
    BY <1>6, IdleOK
  <1>12. ~x => Whole(d, k, NoBuild)
    <2>1. ~x => /\ k = Live(c) \cup {id} /\ c.loaded = c.engine
                /\ c.active \in Live(c) => c.active \in c.engine
      BY DEF WindowOK, Whole
    <2>2. ~x => k = Live(d) /\ d.loaded = d.engine
      BY <1>5, <2>1
    <2>3. ~x => (d.active \in Live(d) => d.active \in d.engine)
      BY <1>2, <1>5, <2>1
    <2> QED BY <1>11, <2>2, <2>3 DEF Whole
  <1>13. d = Inserted(c, id) => d.active = id /\ id \in d.engine
    BY <1>5
  <1> QED BY <1>4, <1>5, <1>6, <1>9, <1>10, <1>11, <1>12, <1>13 DEF WindowOK

(* add_unloaded_page for n pages: the Vec, and the pages by their ids.     *)
LEMMA RegisteredPages ==
  ASSUME NEW c, CoreOK(c), NEW n \in Nat, c.next_id + n <= MaxPages,
         NEW d, d = Registered(c, n), NEW new, new = c.next_id .. c.next_id + n - 1
  PROVE  /\ CoreOK(d) /\ Live(d) = Live(c) \cup new /\ new \cap Live(c) = {}
         /\ d.next_id = c.next_id + n /\ d.active = c.active
         /\ d.loaded = c.loaded /\ d.engine = c.engine
         /\ Len(d.pages) = Len(c.pages) + n
         /\ \A i \in 1..n : d.pages[Len(c.pages) + i] = c.next_id + i - 1
  <1> DEFINE q == [i \in 1..n |-> c.next_id + i - 1]
             w == Len(c.pages)
  <1>1. /\ Consistent(c) /\ c.pages \in Seq(Nat) /\ w \in Nat /\ c.next_id \in Nat
        /\ MaxPages \in Nat /\ NoPage \notin Nat /\ Live(c) \subseteq 0 .. c.next_id - 1
    BY CoreFacts
  <1>0. /\ \A p \in new : p \in Nat /\ c.next_id <= p /\ p <= c.next_id + n - 1
        /\ \A p \in Nat : c.next_id <= p /\ p <= c.next_id + n - 1 => p \in new
    BY <1>1
  <1>2. /\ DOMAIN d = Fields /\ d.pages = c.pages \o q /\ d.next_id = c.next_id + n
        /\ d.accessed = [p \in Live(c) \cup new |->
                           IF p \in new THEN w + 1 + p - c.next_id ELSE c.accessed[p]]
        /\ d.active = c.active /\ d.loaded = c.loaded /\ d.engine = c.engine
        /\ d.limit = c.limit
    BY <1>1 DEF Registered, Consistent, CoreTypeOK, Fields
  <1>3. q \in Seq(Nat) /\ Len(q) = n /\ \A i \in 1..n : q[i] = c.next_id + i - 1
    <2>1. \A i \in 1..n : c.next_id + i - 1 \in Nat
      BY <1>1
    <2> QED BY <2>1
  <1> HIDE DEF q
  <1>4. /\ d.pages \in Seq(Nat) /\ Len(d.pages) = w + n
        /\ \A i \in 1..(w + n) : d.pages[i] = IF i <= w THEN c.pages[i] ELSE q[i - w]
    <2>1. /\ c.pages \o q \in Seq(Nat)
          /\ Len(c.pages \o q) = Len(c.pages) + Len(q)
          /\ \A i \in 1..(Len(c.pages) + Len(q)) :
               (c.pages \o q)[i] = IF i <= Len(c.pages) THEN c.pages[i] ELSE q[i - Len(c.pages)]
      BY <1>1, <1>3, ConcatProperties
    <2> QED BY <1>2, <1>3, <2>1
  <1> HIDE DEF w
  <1>5. /\ \A i \in 1..w : d.pages[i] = c.pages[i]
        /\ \A i \in 1..n : d.pages[w + i] = c.next_id + i - 1
    <2>1. \A i \in 1..w : i \in 1..(w + n) /\ i <= w
      BY <1>1
    <2>2. \A i \in 1..n : w + i \in 1..(w + n) /\ ~(w + i <= w) /\ (w + i) - w = i
      BY <1>1
    <2>3. \A i \in 1..n : d.pages[w + i] = q[i]
      BY <1>4, <2>2
    <2> QED BY <1>3, <1>4, <2>1, <2>3
  <1>6. Live(d) = Live(c) \cup new
    <2>1. ASSUME NEW p \in Live(d) PROVE p \in Live(c) \cup new
      <3>1. PICK i \in 1..(w + n) : d.pages[i] = p
        BY <1>4 DEF Live, Elements
      <3>2. CASE i <= w
        <4>1. i \in 1..w
          BY <1>1, <3>2
        <4> QED BY <1>5, <3>1, <4>1 DEF Live, Elements, w
      <3>3. CASE ~(i <= w)
        <4>1. i - w \in 1..n
          BY <1>1, <3>3
        <4>2. p = c.next_id + (i - w) - 1
          BY <1>3, <1>4, <3>1, <3>3, <4>1
        <4> QED BY <1>1, <4>1, <4>2
      <3> QED BY <3>2, <3>3
    <2>2. ASSUME NEW p \in Live(c) PROVE p \in Live(d)
      <3>1. PICK i \in 1..w : c.pages[i] = p
        BY DEF Live, Elements, w
      <3>2. i \in 1..Len(d.pages) /\ d.pages[i] = p
        BY SMTT(30), <1>1, <1>4, <1>5, <3>1
      <3> QED BY <3>2 DEF Live, Elements
    <2>3. ASSUME NEW p \in new PROVE p \in Live(d)
      <3> DEFINE i == p - c.next_id + 1
      <3>1. i \in 1..n /\ c.next_id + i - 1 = p
        BY <1>0, <1>1
      <3> HIDE DEF i
      <3>2. w + i \in 1..Len(d.pages) /\ d.pages[w + i] = p
        BY SMTT(30), <1>1, <1>4, <1>5, <3>1
      <3> QED BY <3>2 DEF Live, Elements
    <2> QED BY <2>1, <2>2, <2>3
  <1>7. new \cap Live(c) = {} /\ Live(d) \subseteq 0 .. d.next_id - 1
    <2>1. new \cap 0 .. c.next_id - 1 = {} /\ new \subseteq 0 .. (c.next_id + n) - 1
      BY <1>1
    <2>2. 0 .. c.next_id - 1 \subseteq 0 .. (c.next_id + n) - 1
      BY <1>1
    <2> QED BY <1>1, <1>2, <1>6, <2>1, <2>2
  <1>8. \A p \in Live(c) : c.accessed[p] \in 1..w
    BY DEF CoreOK, Consistent, CoreTypeOK, w
  <1>9. /\ \A p \in Live(c) : d.accessed[p] = c.accessed[p]
        /\ \A p \in new : d.accessed[p] = w + 1 + p - c.next_id
        /\ d.accessed = [p \in Live(d) |-> d.accessed[p]]
    BY <1>2, <1>6, <1>7
  <1>10. \A p \in new : d.accessed[p] \in (w + 1)..(w + n)
    <2>1. ASSUME NEW p \in new PROVE d.accessed[p] \in (w + 1)..(w + n)
      <3>1. p \in Nat /\ c.next_id <= p /\ p <= c.next_id + n - 1
        BY <1>0
      <3>2. w + 1 + p - c.next_id \in (w + 1)..(w + n)
        BY <1>1, <3>1
      <3> QED BY <1>9, <3>2
    <2> QED BY <2>1
  <1>11. CoreTypeOK(d)
    <2>1. d.accessed \in [Live(d) -> 1..Len(d.pages)]
      <3>1. \A p \in Live(d) : d.accessed[p] \in 1..(w + n)
        <4>1. \A p \in Live(c) : d.accessed[p] \in 1..(w + n)
          <5>1. 1..w \subseteq 1..(w + n)
            BY <1>1
          <5> QED BY <1>8, <1>9, <5>1
        <4>2. \A p \in new : d.accessed[p] \in 1..(w + n)
          BY <1>1, <1>10
        <4> QED BY <1>6, <4>1, <4>2
      <3> QED BY <1>4, <1>9, <3>1
    <2>2. d.next_id \in Nat
      BY <1>1, <1>2
    <2> QED BY <1>1, <1>2, <1>4, <1>6, <2>1, <2>2 DEF Consistent, CoreTypeOK
  <1>12. IdsUnique(d)
    <2>1. ASSUME NEW i \in 1..Len(d.pages), NEW j \in 1..Len(d.pages),
                 d.pages[i] = d.pages[j]
          PROVE  i = j
      <3>1. i \in 1..(w + n) /\ j \in 1..(w + n)
        BY <1>4, <2>1
      <3>2. \A y \in 1..w : d.pages[y] \in Live(c)
        BY <1>5 DEF Live, Elements, w
      <3>3. \A y \in 1..(w + n) : ~(y <= w) => d.pages[y] = c.next_id + (y - w) - 1
        <4>1. \A y \in 1..(w + n) : ~(y <= w) => y - w \in 1..n
          BY <1>1
        <4> QED BY <1>3, <1>4, <4>1
      <3>4. \A y \in 1..(w + n) : ~(y <= w) => d.pages[y] \in new
        <4>1. \A y \in 1..(w + n) : ~(y <= w) => y - w \in 1..n
          BY <1>1
        <4>2. \A z \in 1..n : c.next_id + z - 1 \in new
          BY <1>0, <1>1
        <4> QED BY <3>3, <4>1, <4>2
      <3>5. CASE i <= w /\ j <= w
        <4>1. i \in 1..w /\ j \in 1..w
          BY <1>1, <3>1, <3>5
        <4>2. c.pages[i] = c.pages[j]
          BY <1>5, <2>1, <4>1
        <4> QED BY <4>1, <4>2 DEF CoreOK, Consistent, IdsUnique, w
      <3>6. CASE i <= w /\ ~(j <= w)
        BY <1>1, <1>7, <2>1, <3>1, <3>2, <3>4, <3>6
      <3>7. CASE ~(i <= w) /\ j <= w
        BY <1>1, <1>7, <2>1, <3>1, <3>2, <3>4, <3>7
      <3>8. CASE ~(i <= w) /\ ~(j <= w)
        BY SMTT(30), <1>1, <2>1, <3>1, <3>3, <3>8
      <3> QED BY <3>5, <3>6, <3>7, <3>8
    <2> QED BY <1>7, <2>1 DEF IdsUnique
  <1>13. AgesTotal(d)
    <2>1. ASSUME NEW x \in Live(d), NEW y \in Live(d), d.accessed[x] = d.accessed[y]
          PROVE  x = y
      <3>1. CASE x \in Live(c) /\ y \in Live(c)
        BY <1>9, <2>1, <3>1 DEF CoreOK, Consistent, AgesTotal
      <3>2. CASE x \in new /\ y \in new
        <4>1. x \in Nat /\ y \in Nat
          BY <1>0, <3>2
        <4>2. w + 1 + x - c.next_id = w + 1 + y - c.next_id
          BY <1>9, <2>1, <3>2
        <4> QED BY <1>1, <4>1, <4>2
      <3>3. CASE x \in Live(c) /\ y \in new
        <4>1. d.accessed[x] \in 1..w /\ d.accessed[y] \in (w + 1)..(w + n)
          BY <1>8, <1>9, <1>10, <3>3
        <4> QED BY <1>1, <2>1, <4>1
      <3>4. CASE x \in new /\ y \in Live(c)
        <4>1. d.accessed[x] \in (w + 1)..(w + n) /\ d.accessed[y] \in 1..w
          BY <1>8, <1>9, <1>10, <3>4
        <4> QED BY <1>1, <2>1, <4>1
      <3> QED BY <1>6, <3>1, <3>2, <3>3, <3>4
    <2> QED BY <2>1 DEF AgesTotal
  <1>14. CoreOK(d)
    <2>1. d.next_id <= MaxPages /\ Len(d.pages) <= d.next_id
      BY <1>1, <1>2, <1>4 DEF CoreOK, w
    <2>2. d.active \in 0 .. d.next_id - 1 \cup {NoPage}
      <3>1. 0 .. c.next_id - 1 \subseteq 0 .. (c.next_id + n) - 1
        BY <1>1
      <3> QED BY <1>2, <3>1 DEF CoreOK
    <2>3. d.limit \in Limits /\ d.engine \subseteq d.loaded
      BY <1>2 DEF CoreOK
    <2> QED BY <1>11, <1>12, <1>13, <2>1, <2>2, <2>3 DEF CoreOK, Consistent
  <1> QED BY <1>2, <1>4, <1>5, <1>6, <1>7, <1>14 DEF w

(* The URLs of the pages registered, of any last_urls.                     *)
RestOf(l, c, r) ==
  [p \in Ids |-> IF p \in c.next_id .. c.next_id + Len(r) - 1 THEN r[p - c.next_id + 1] ELSE l[p]]

(* There are ids for them, and in core d they have their places and URLs.  *)
RestFits(c, r) == r \in Seq(MaybeUrls) /\ c.next_id + Len(r) <= MaxPages
RestIds(c, r) == c.next_id .. c.next_id + Len(r) - 1
RestRegistered(c, r) == Registered(c, Len(r))
RestListed(c, r, d, u, m) ==
  /\ Len(d.pages) = Len(c.pages) + Len(r)
  /\ \A i \in 1..Len(r) : UrlOf(d, u, m, d.pages[Len(c.pages) + i]) = r[i]

(* The same, for a window: each has its container and its URL.             *)
LEMMA RegisteredOK ==
  ASSUME NEW c, NEW k, NEW s, NEW u, NEW l, NEW x, WindowOK(c, k, s, u, l, NoBuild, x),
         NEW r, RestFits(c, r), NEW d, d = RestRegistered(c, r),
         NEW new, new = RestIds(c, r), NEW j, j = k \cup new, NEW m, m = RestOf(l, c, r)
  PROVE  /\ WindowOK(d, j, s, u, m, NoBuild, x) /\ SameUrls(c, u, l, d, u, m)
         /\ Live(d) = Live(c) \cup new /\ RestListed(c, r, d, u, m)
         /\ d.active = c.active /\ d.engine = c.engine /\ d.next_id = c.next_id + Len(r)
  <1>1. /\ CoreOK(c) /\ StackOK(c, k, s) /\ UrlsOK(u, l)
        /\ r \in Seq(MaybeUrls) /\ c.next_id + Len(r) <= MaxPages
        /\ d = Registered(c, Len(r)) /\ new = c.next_id .. c.next_id + Len(r) - 1
    BY DEF WindowOK, RestFits, RestRegistered, RestIds
  <1>2. /\ Len(r) \in Nat /\ c.next_id \in Nat /\ c.engine \subseteq Live(c)
        /\ Live(c) \subseteq Ids /\ MaxPages \in Nat
    BY <1>1, CoreFacts, LenProperties
  <1>3. /\ CoreOK(d) /\ Live(d) = Live(c) \cup new /\ new \cap Live(c) = {}
        /\ d.next_id = c.next_id + Len(r) /\ d.active = c.active
        /\ d.loaded = c.loaded /\ d.engine = c.engine
        /\ Len(d.pages) = Len(c.pages) + Len(r)
        /\ \A i \in 1..Len(r) : d.pages[Len(c.pages) + i] = c.next_id + i - 1
    BY <1>1, <1>2, RegisteredPages
  <1>4. new \subseteq Ids
    BY <1>1, <1>2 DEF Ids
  <1>5. \A p \in new : p - c.next_id + 1 \in 1..Len(r)
    BY <1>1, <1>2
  <1>6. \A p \in new : r[p - c.next_id + 1] \in MaybeUrls
    BY <1>1, <1>5
  <1>7. /\ \A p \in Ids : m[p] = IF p \in new THEN r[p - c.next_id + 1] ELSE l[p]
        /\ m \in [Ids -> MaybeUrls]
    BY <1>1, <1>6 DEF RestOf, UrlsOK, MaybeUrls
  <1>8. UrlsOK(u, m) /\ SameUrls(c, u, l, d, u, m)
    <2>1. \A p \in Live(c) : m[p] = l[p]
      BY <1>2, <1>3, <1>7
    <2> QED BY <1>1, <1>3, <1>7, <2>1 DEF UrlsOK, SameUrls, UrlOf
  <1>9. ASSUME NEW i \in 1..Len(r) PROVE UrlOf(d, u, m, d.pages[Len(c.pages) + i]) = r[i]
    <2> DEFINE p == c.next_id + i - 1
    <2>1. p \in new /\ p - c.next_id + 1 = i
      BY <1>1, <1>2
    <2>2. d.pages[Len(c.pages) + i] = p
      BY <1>3
    <2> HIDE DEF p
    <2>3. p \notin d.engine /\ m[p] = r[i]
      BY <1>2, <1>3, <1>4, <1>7, <2>1
    <2> QED BY <2>2, <2>3 DEF UrlOf
  <1>10. StackOK(d, j, s)
    <2>1. k \subseteq 0 .. d.next_id - 1 /\ new \subseteq 0 .. d.next_id - 1
      <3>1. k \subseteq 0 .. c.next_id - 1
        BY <1>1 DEF StackOK
      <3>2. 0 .. c.next_id - 1 \subseteq 0 .. (c.next_id + Len(r)) - 1
        BY <1>1, <1>2
      <3>3. new \subseteq 0 .. (c.next_id + Len(r)) - 1
        BY <1>1, <1>2
      <3> QED BY <1>3, <3>1, <3>2, <3>3
    <2>2. d.active \in Live(d) => d.active \in Live(c)
      <3>1. NoPage \notin Nat /\ new \cap 0 .. c.next_id - 1 = {} /\ new \subseteq Nat
        BY <1>1, <1>2, NoPageAssumption
      <3> QED BY <1>1, <1>3, <3>1 DEF CoreOK
    <2> QED BY <1>1, <1>3, <2>1, <2>2 DEF StackOK
  <1>11. BuildOK(d, j, m, NoBuild) /\ ~Opening(NoBuild)
    BY <1>3, IdleOK
  <1>12. ~x => Whole(d, j, NoBuild)
    <2>1. d.active \in Live(d) => d.active \in Live(c)
      <3>1. NoPage \notin Nat /\ new \cap 0 .. c.next_id - 1 = {} /\ new \subseteq Nat
        BY <1>1, <1>2, NoPageAssumption
      <3> QED BY <1>1, <1>3, <3>1 DEF CoreOK
    <2> QED BY <1>3, <1>11, <2>1 DEF WindowOK, Whole
  <1> QED BY <1>3, <1>8, <1>9, <1>10, <1>11, <1>12 DEF WindowOK, RestListed

(* The engine of a page that was rebuilt is installed, and the page shown: *)
(* it is there at the URL the engine was built for, if it is there still.  *)
LEMMA ReloadedOK ==
  ASSUME NEW c, NEW k, NEW s, NEW u, NEW l, NEW b, NEW x, WindowOK(c, k, s, u, l, b, x),
         b.kind = "reload", NEW d, d = SetActive(InstallEngine(c, b.page), b.page),
         NEW v, v = IF b.page \in Live(c) THEN [u EXCEPT ![b.page] = b.url] ELSE u,
         NEW t, t = StackShow(k, s, b.page)
  PROVE  /\ WindowOK(d, k, t, v, l, NoBuild, x) /\ SameUrls(c, u, l, d, v, l)
         /\ Live(d) = Live(c)
  <1> DEFINE id == b.page
             e == InstallEngine(c, id)
  <1>1. CoreOK(c) /\ StackOK(c, k, s) /\ UrlsOK(u, l) /\ BuildOK(c, k, l, b)
    BY DEF WindowOK
  <1>2. /\ id \in 0 .. c.next_id - 1 /\ b.url \in MaybeUrls
        /\ id \in Live(c) => id \notin c.engine /\ l[id] = b.url
    BY <1>1 DEF BuildOK
  <1>3. id \in Nat /\ id \in Ids /\ c.engine \subseteq Live(c) /\ Live(c) \subseteq Ids
    BY <1>1, <1>2, CoreFacts
  <1>4. /\ Consistent(e) /\ Live(e) = Live(c) /\ e.engine = c.engine \cup ({id} \cap Live(c))
        /\ \A f \in Fields \ {"engine"} : e[f] = c[f]
    BY <1>1, InstallEngineOK DEF CoreOK
  <1>5. d = SetActive(e, id) /\ t = StackShow(k, s, id)
        /\ v = IF id \in Live(c) THEN [u EXCEPT ![id] = b.url] ELSE u
    OBVIOUS
  <1> HIDE DEF e, id
  <1>6. /\ e.pages = c.pages /\ e.limit = c.limit /\ e.next_id = c.next_id
        /\ e.loaded = c.loaded
    BY <1>4 DEF Fields
  <1>7. /\ Consistent(d) /\ Live(d) = Live(e) /\ d.active = id
        /\ d.loaded = e.loaded \cup ({id} \cap Live(e))
        /\ \A f \in {"pages", "engine", "limit", "next_id"} : d[f] = e[f]
    BY <1>3, <1>4, <1>5, SetActiveOK
  <1>8. /\ Live(d) = Live(c) /\ d.pages = c.pages /\ d.limit = c.limit
        /\ d.next_id = c.next_id /\ d.engine = c.engine \cup ({id} \cap Live(c))
        /\ d.loaded = c.loaded \cup ({id} \cap Live(c))
    BY <1>4, <1>6, <1>7
  <1>9. CoreOK(d)
    BY <1>1, <1>2, <1>7, <1>8 DEF CoreOK
  <1>10. /\ v \in [Ids -> MaybeUrls] /\ \A p \in Ids \ {id} : v[p] = u[p]
         /\ id \in Live(c) => v[id] = b.url
    BY <1>1, <1>2, <1>3, <1>5 DEF UrlsOK, MaybeUrls
  <1>11. UrlsOK(v, l)
    BY <1>1, <1>10 DEF UrlsOK
  <1>12. SameUrls(c, u, l, d, v, l)
    <2>1. ASSUME NEW p \in Live(c) PROVE UrlOf(d, v, l, p) = UrlOf(c, u, l, p)
      <3>1. CASE p = id
        BY <1>2, <1>8, <1>10, <2>1, <3>1 DEF UrlOf
      <3>2. CASE p # id
        BY <1>3, <1>8, <1>10, <2>1, <3>2 DEF UrlOf
      <3> QED BY <3>1, <3>2
    <2> QED BY <2>1 DEF SameUrls
  <1>13. StackOK(d, k, t)
    BY <1>1, <1>5, <1>7, <1>8 DEF StackOK, StackShow
  <1>14. BuildOK(d, k, l, NoBuild) /\ ~Opening(NoBuild)
    BY <1>9, IdleOK
  <1>15. ~x => Whole(d, k, NoBuild)
    <2>1. ~Opening(b)
      BY DEF Opening
    <2> QED BY <1>7, <1>8, <1>14, <2>1 DEF WindowOK, Whole
  <1> QED BY <1>8, <1>9, <1>11, <1>12, <1>13, <1>14, <1>15 DEF WindowOK

(* A window whose pages have all gone.                                     *)
LEMMA EmptyOK ==
  ASSUME NEW limit \in Limits, NEW x, NEW c, c = New(limit),
         NEW u, u = [p \in Ids |-> NoUrl]
  PROVE  WindowOK(c, {}, NoPage, u, u, NoBuild, x) /\ Live(c) = {} /\ c.pages = <<>>
  <1>1. limit \in Nat \cup {Unlimited}
    BY GtkLimitsAssumption
  <1>2. /\ Consistent(c) /\ Live(c) = {} /\ c.pages = <<>> /\ Len(c.pages) = 0
        /\ c.active = NoPage /\ c.next_id = 0 /\ c.limit = limit
        /\ c.loaded = {} /\ c.engine = {}
    BY <1>1, NewOK
  <1>3. CoreOK(c)
    BY <1>2, GtkBoundAssumption DEF CoreOK
  <1>4. StackOK(c, {}, NoPage) /\ UrlsOK(u, u)
    BY <1>2 DEF StackOK, UrlsOK, MaybeUrls
  <1>5. BuildOK(c, {}, u, NoBuild) /\ ~Opening(NoBuild)
    BY <1>3, IdleOK
  <1>6. Whole(c, {}, NoBuild)
    BY <1>2, <1>5 DEF Whole
  <1> QED BY <1>2, <1>3, <1>4, <1>5, <1>6 DEF WindowOK

-----------------------------------------------------------------------------
(* The session file.                                                       *)

(* build_session, of any core and URLs.                                    *)
SessionOf(c, u, l) ==
  [pages |-> [i \in 1..Len(c.pages) |-> [page |-> c.pages[i], url |-> UrlOf(c, u, l, c.pages[i])]],
   active |-> IF c.active \in Live(c) THEN Position(c, c.active) ELSE 0]

(* It names the pages with their URLs, in order, and the one in front.     *)
LEMMA SessionOK ==
  ASSUME NEW c, NEW u, NEW l, CoreOK(c), UrlsOK(u, l), NEW f, f = SessionOf(c, u, l)
  PROVE  /\ FileOK(f) /\ Holds(f, c) /\ Matches(f, c)
         /\ \A i \in 1..Len(c.pages) : f.pages[i].url = UrlOf(c, u, l, c.pages[i])
  <1> DEFINE n == Len(c.pages)
             E(i) == [page |-> c.pages[i], url |-> UrlOf(c, u, l, c.pages[i])]
             ps == [i \in 1..n |-> E(i)]
  <1>1. /\ n \in Nat /\ MaxPages \in Nat /\ n <= MaxPages /\ Live(c) \subseteq Ids
        /\ \A i \in 1..n : c.pages[i] \in Live(c)
    <2>1. n <= c.next_id /\ c.next_id <= MaxPages
      BY DEF CoreOK
    <2> QED BY <2>1, CoreFacts
  <1>2. \A p \in Live(c) : UrlOf(c, u, l, p) \in MaybeUrls
    BY <1>1 DEF UrlsOK, UrlOf
  <1>3. \A i \in 1..n : E(i) \in Entries
    BY <1>1, <1>2 DEF Entries
  <1>4. f.pages = ps /\ f.active = IF c.active \in Live(c) THEN Position(c, c.active) ELSE 0
    BY DEF SessionOf
  <1>5. \A i \in 1..n : E(i).page = c.pages[i] /\ E(i).url = UrlOf(c, u, l, c.pages[i])
    OBVIOUS
  <1> HIDE DEF E
  <1>6. ps \in Seq(Entries) /\ Len(ps) = n
    BY <1>1, <1>3
  <1>7. \A i \in 1..n : f.pages[i].page = c.pages[i] /\ f.pages[i].url = UrlOf(c, u, l, c.pages[i])
    BY <1>4, <1>5
  <1>8. f.active \in 0..n
    BY <1>1, <1>4, PositionOf DEF CoreOK
  <1> HIDE DEF ps
  <1>9. Len(f.pages) = n /\ FileOK(f)
    BY <1>1, <1>4, <1>6, <1>8 DEF FileOK
  <1>10. Holds(f, c)
    BY <1>7, <1>9 DEF Holds, Live, Elements
  <1>11. Matches(f, c)
    BY <1>4, <1>7, <1>9 DEF Matches
  <1> QED BY <1>7, <1>9, <1>10, <1>11

(* Session is that of the state before a step, and of the one after it.    *)
LEMMA SessionIs ==
  /\ Session = SessionOf(core, url, lastUrl)
  /\ Session' = SessionOf(core', url', lastUrl')
  BY DEF Session, SessionOf, CurrentUrl, UrlOf

(* save_session after a handler.                                           *)
LEMMA SavedOK ==
  ASSUME CoreOK(core'), UrlsOK(url', lastUrl'), FileOK(disk), SaveSession
  PROVE  /\ FileOK(disk')
         /\ restoring' => disk' = disk
         /\ ~restoring' =>
              /\ Holds(disk', core') /\ Matches(disk', core')
              /\ \A i \in 1..Len(core'.pages) :
                   disk'.pages[i].url = UrlOf(core', url', lastUrl', core'.pages[i])
  <1>1. disk' = IF restoring' THEN disk ELSE SessionOf(core', url', lastUrl')
    BY SessionIs DEF SaveSession
  <1> DEFINE f == SessionOf(core', url', lastUrl')
  <1>2. /\ FileOK(f) /\ Holds(f, core') /\ Matches(f, core')
        /\ \A i \in 1..Len(core'.pages) :
             f.pages[i].url = UrlOf(core', url', lastUrl', core'.pages[i])
    BY SessionOK
  <1> HIDE DEF f
  <1>3. CASE restoring'
    BY <1>1, <1>3
  <1>4. CASE ~restoring'
    <2>1. disk' = f
      BY <1>1, <1>4 DEF f
    <2> QED BY <1>2, <1>4, <2>1
  <1> QED BY <1>3, <1>4

-----------------------------------------------------------------------------
(* What every step does.                                                   *)

(* In terms of the operators above, what UnloadingKeepsUrl and             *)
(* RestoreKeepsOtherTabs say of a step.                                    *)
KeptUrls ==
  up /\ up' => \/ SameUrls(core, url, lastUrl, core', url', lastUrl')
               \/ core'.engine = core.engine
Restored ==
  /\ ~restoring' /\ Len(build.rest) <= Len(disk'.pages)
  /\ disk.pages = <<>> => build.rest = <<>>
  /\ \A i \in 1..Len(build.rest) :
       disk'.pages[Len(disk'.pages) - Len(build.rest) + i].url = build.rest[i]
StepOK == IInv' /\ KeptUrls /\ (restoring => disk' = disk \/ Restored)

(* URLs that do not change in two steps do not change in both.             *)
LEMMA SameUrlsTrans ==
  ASSUME NEW c, NEW u, NEW l, NEW d, NEW v, NEW m, NEW e, NEW w, NEW n,
         SameUrls(c, u, l, d, v, m), SameUrls(d, v, m, e, w, n),
         Live(c) \cap Live(e) \subseteq Live(d)
  PROVE  SameUrls(c, u, l, e, w, n)
  BY DEF SameUrls

(* The file matches another core with the same pages as well.              *)
LEMMA MatchesSame ==
  ASSUME NEW f, NEW c, NEW d, d.pages = c.pages, d.active = c.active, Matches(f, c)
  PROVE  Matches(f, d)
  BY DEF Matches, Live, Position

(* A process that is gone leaves the file.                                 *)
LEMMA GoneOK ==
  ASSUME IInv, Gone
  PROVE  StepOK
  <1>1. core.limit \in Limits /\ FileOK(disk)
    BY DEF IInv, WindowOK, CoreOK, FileFollows
  <1>2. /\ up' = FALSE /\ restoring' = FALSE /\ quitting' = FALSE /\ failed' = FALSE
        /\ containers' = {} /\ shown' = NoPage /\ build' = NoBuild /\ disk' = disk
        /\ core' = New(core.limit) /\ url' = [p \in Ids |-> NoUrl] /\ lastUrl' = url'
    BY DEF Gone
  <1>3. PICK c : c = New(core.limit)
    OBVIOUS
  <1>4. PICK u : u = [p \in Ids |-> NoUrl]
    OBVIOUS
  <1>5. WindowOK(c, {}, NoPage, u, u, NoBuild, FALSE) /\ Live(c) = {} /\ c.pages = <<>>
    BY <1>1, <1>3, <1>4, EmptyOK
  <1>6. WindowOK(core, containers, shown, url, lastUrl, build, failed)'
    BY <1>2, <1>3, <1>4, <1>5
  <1>7. FileFollows(core, build, disk, restoring)'
    BY <1>1, <1>2, <1>3, <1>5 DEF FileFollows, Holds
  <1>8. FlagsTyped'
    BY <1>2 DEF FlagsTyped
  <1> QED BY <1>2, <1>6, <1>7, <1>8 DEF IInv, StepOK, KeptUrls

(* A handler that leaves the file alone may do so when a handler that saves *)
(* is to come, or when nothing the file lists has changed.                 *)
LEMMA UnsavedOK ==
  ASSUME IInv, FlagsTyped', WindowOK(core, containers, shown, url, lastUrl, build, failed)',
         KeptUrls, disk' = disk,
         restoring' => restoring /\ build' = build,
         ~restoring' => ~restoring,
         Live(core') \subseteq Live(core),
         Settled(build') /\ core'.pages # <<>> =>
           Settled(build) /\ core'.pages = core.pages /\ core'.active = core.active
  PROVE  StepOK
  <1>1. FileFollows(core, build, disk, restoring)
    BY DEF IInv
  <1>2. ~restoring' => Holds(disk', core')
    BY <1>1 DEF FileFollows, Holds
  <1>3. Settled(build') /\ core'.pages # <<>> => Matches(disk', core')
    BY <1>1, MatchesSame DEF FileFollows
  <1>4. restoring' => RestoreOK(disk', build')
    BY <1>1 DEF FileFollows
  <1>5. FileOK(disk')
    BY <1>1 DEF FileFollows
  <1>6. FileFollows(core, build, disk, restoring)'
    BY <1>2, <1>3, <1>4, <1>5 DEF FileFollows
  <1> QED BY <1>6 DEF IInv, StepOK

(* A handler that saves.                                                   *)
LEMMA HandledOK ==
  ASSUME IInv, FlagsTyped', WindowOK(core, containers, shown, url, lastUrl, build, failed)',
         KeptUrls, SaveSession,
         restoring' => restoring /\ build' = build,
         ~restoring' => ~restoring
  PROVE  StepOK
  <1>1. FileFollows(core, build, disk, restoring)
    BY DEF IInv
  <1>2. CoreOK(core') /\ UrlsOK(url', lastUrl') /\ FileOK(disk)
    BY <1>1 DEF WindowOK, FileFollows
  <1>3. /\ FileOK(disk')
        /\ restoring' => disk' = disk
        /\ ~restoring' => Holds(disk', core') /\ Matches(disk', core')
    BY <1>2, SavedOK
  <1>4. restoring' => RestoreOK(disk', build') /\ ~Settled(build')
    <2>1. restoring' => RestoreOK(disk', build')
      BY <1>1, <1>3 DEF FileFollows
    <2> QED BY <2>1 DEF RestoreOK, Settled
  <1>5. FileFollows(core, build, disk, restoring)'
    BY <1>3, <1>4 DEF FileFollows
  <1>6. restoring => disk' = disk
    BY <1>3
  <1> QED BY <1>5, <1>6 DEF IInv, StepOK

(* WryEngine::new is called, with handler h suspended in it.               *)
LEMMA StartBuildOK ==
  ASSUME IInv, NEW c, NEW k, NEW s, NEW h, StartBuild(c, k, s, h),
         Idle => /\ WindowOK(c, k, s, url, lastUrl, h, failed)
                 /\ SameUrls(core, url, lastUrl, c, url, lastUrl)
                 /\ Live(c) \subseteq Live(core)
                 /\ Settled(h) => c.pages = core.pages /\ c.active = core.active
  PROVE  StepOK
  <1>1. CASE Gone
    BY <1>1, GoneOK
  <1>2. CASE Idle /\ ~Gone
    <2>1. /\ core' = c /\ containers' = k /\ shown' = s /\ build' = h
          /\ up' = up /\ url' = url /\ lastUrl' = lastUrl /\ restoring' = restoring
          /\ quitting' = quitting /\ failed' = failed /\ disk' = disk
      BY <1>2 DEF StartBuild
    <2>2. FlagsTyped'
      BY <2>1 DEF IInv, FlagsTyped
    <2>3. WindowOK(core, containers, shown, url, lastUrl, build, failed)'
      BY <1>2, <2>1
    <2>4. ~restoring
      BY <1>2 DEF IInv, FileFollows, RestoreOK, Idle, NoBuild
    <2>5. Settled(build)
      BY <1>2 DEF Idle, NoBuild, Settled
    <2>6. KeptUrls
      BY <1>2, <2>1 DEF KeptUrls
    <2> HIDE DEF Idle
    <2> QED BY <1>2, <2>1, <2>2, <2>3, <2>4, <2>5, <2>6, UnsavedOK
  <1> QED BY <1>1, <1>2 DEF StartBuild

(* set_active, with the core c, containers k and visible child s the       *)
(* handler has made by then.                                               *)
LEMMA ActivateOK ==
  ASSUME IInv, NEW c, NEW k, NEW s, WindowOK(c, k, s, url, lastUrl, build, failed),
         Live(c) \subseteq Live(core), SameUrls(core, url, lastUrl, c, url, lastUrl),
         NEW id \in 0 .. c.next_id - 1, Opening(build) => id # build.page,
         NEW origin \in Origins, NEW caller \in {"open", "close"},
         Activate(c, k, s, id, origin, caller)
  PROVE  StepOK
  <1> DEFINE h == [kind |-> "reload", page |-> id, url |-> lastUrl[id],
                   origin |-> origin, caller |-> caller, rest |-> <<>>]
  <1>1. CoreOK(c) /\ StackOK(c, k, s) /\ UrlsOK(url, lastUrl)
    BY DEF WindowOK
  <1>2. id \in Nat /\ id \in Ids /\ Live(c) \subseteq k
    BY <1>1, CoreFacts DEF StackOK
  <1>3. CASE id \in Live(c) \ c.engine /\ id \in k /\ StartBuild(c, k, s, h)
    <2>1. /\ h.kind = "reload" /\ h.page = id /\ h.url = lastUrl[id] /\ h.rest = <<>>
          /\ h.origin = origin /\ h.caller = caller
      OBVIOUS
    <2>2. lastUrl[id] \in MaybeUrls
      BY <1>1, <1>2, <1>3 DEF UrlsOK
    <2>3. h \in Handlers
      <3>1. <<>> \in Seq(MaybeUrls)
        OBVIOUS
      <3> QED BY <1>2, <2>2, <3>1 DEF Handlers, MaybeUrls
    <2> HIDE DEF h
    <2>4. <<>> \in Seq(MaybeUrls) /\ Len(<<>>) = 0 /\ c.next_id + 0 <= MaxPages
      BY <1>1, CoreFacts DEF CoreOK
    <2>5. BuildOK(c, k, lastUrl, h) /\ ~Opening(h) /\ ~Settled(h)
      BY <1>3, <2>1, <2>2, <2>3, <2>4 DEF BuildOK, Opening, Settled
    <2>6. ASSUME Idle PROVE WindowOK(c, k, s, url, lastUrl, h, failed)
      <3>1. ~Opening(build)
        BY <1>1, <2>6, IdleOK DEF Idle
      <3>2. ~failed => Whole(c, k, h)
        BY <2>5, <3>1 DEF WindowOK, Whole
      <3> QED BY <1>1, <2>5, <3>2 DEF WindowOK
    <2> QED BY <1>3, <2>5, <2>6, StartBuildOK
  <1>4. CASE /\ ~(id \in Live(c) \ c.engine /\ id \in k)
             /\ core' = SetActive(c, id) /\ containers' = k /\ shown' = StackShow(k, s, id)
             /\ UNCHANGED <<up, url, lastUrl, build, restoring, quitting, failed>>
             /\ SaveSession
    <2>1. PICK d : d = SetActive(c, id)
      OBVIOUS
    <2>2. PICK t : t = StackShow(k, s, id)
      OBVIOUS
    <2>3. id \in Live(c) => id \in c.engine
      BY <1>2, <1>4
    <2>4. /\ WindowOK(d, k, t, url, lastUrl, build, failed) /\ Live(d) = Live(c)
          /\ SameUrls(c, url, lastUrl, d, url, lastUrl)
      BY <2>1, <2>2, <2>3, ShownOK
    <2>5. SameUrls(core, url, lastUrl, d, url, lastUrl)
      BY <2>4, SameUrlsTrans
    <2>6. WindowOK(core, containers, shown, url, lastUrl, build, failed)' /\ KeptUrls
      BY <1>4, <2>1, <2>2, <2>4, <2>5 DEF KeptUrls
    <2>7. FlagsTyped'
      BY <1>4 DEF IInv, FlagsTyped
    <2> QED BY <1>4, <2>6, <2>7, HandledOK
  <1> QED BY <1>3, <1>4 DEF Activate

(* add_page up to its engine, in the same terms.                           *)
LEMMA StartAddPageOK ==
  ASSUME IInv, NEW c, NEW k, NEW s, WindowOK(c, k, s, url, lastUrl, build, failed),
         Live(c) \subseteq Live(core), SameUrls(core, url, lastUrl, c, url, lastUrl),
         c.next_id < MaxPages,
         NEW u \in MaybeUrls, NEW kind \in {"page", "related"},
         NEW origin \in Origins, NEW caller \in {"open", "close"},
         (kind = "related" \/ caller = "open") => c.pages = core.pages /\ c.active = core.active,
         StartBuild(AllocateId(c), k \cup {c.next_id}, StackAdd(s, c.next_id),
                    [kind |-> kind, page |-> c.next_id, url |-> u, origin |-> origin,
                     caller |-> caller, rest |-> <<>>])
  PROVE  StepOK
  <1>1. PICK h : h = [kind |-> kind, page |-> c.next_id, url |-> u, origin |-> origin,
                      caller |-> caller, rest |-> <<>>]
    OBVIOUS
  <1>2. PICK d : d = AllocateId(c)
    OBVIOUS
  <1>3. PICK t : t = StackAdd(s, c.next_id)
    OBVIOUS
  <1>4. CoreOK(c) /\ c.next_id \in Nat /\ MaxPages \in Nat
    BY CoreFacts DEF WindowOK
  <1>5. /\ h.kind = kind /\ h.page = c.next_id /\ h.url = u /\ h.rest = <<>>
        /\ h.origin = origin /\ h.caller = caller
    BY <1>1
  <1>6. h \in Handlers
    <2>1. <<>> \in Seq(MaybeUrls)
      OBVIOUS
    <2>2. c.next_id \in Ids
      BY <1>4 DEF Ids
    <2> QED BY <1>1, <2>1, <2>2 DEF Handlers, MaybeUrls
  <1>7. Opening(h) /\ (Settled(h) => kind = "related" \/ caller = "open")
    BY <1>5 DEF Opening, Settled
  <1>8. <<>> \in Seq(MaybeUrls) /\ Len(<<>>) = 0 /\ c.next_id + 1 + 0 <= MaxPages
    BY <1>4
  <1>9. ASSUME Idle
        PROVE  /\ WindowOK(d, k \cup {c.next_id}, t, url, lastUrl, h, failed)
               /\ SameUrls(c, url, lastUrl, d, url, lastUrl)
               /\ Live(d) = Live(c) /\ d.pages = c.pages /\ d.active = c.active
    <2>1. WindowOK(c, k, s, url, lastUrl, NoBuild, failed)
      BY <1>9 DEF Idle
    <2>2. /\ Opening(h) /\ h.page = c.next_id /\ h.url \in MaybeUrls /\ h.rest \in Seq(MaybeUrls)
          /\ c.next_id + 1 + Len(h.rest) <= MaxPages
      BY <1>5, <1>7, <1>8
    <2> QED BY ZenonT(60), <1>2, <1>3, <1>6, <2>1, <2>2, StartedOK
  <1>10. Idle => SameUrls(core, url, lastUrl, d, url, lastUrl)
    BY <1>9, SameUrlsTrans
  <1>11. StartBuild(d, k \cup {c.next_id}, t, h)
    BY <1>1, <1>2, <1>3
  <1> QED BY <1>7, <1>9, <1>10, <1>11, StartBuildOK

-----------------------------------------------------------------------------
(* The handlers.                                                           *)

(* A new page.                                                             *)
LEMMA AddPageOK ==
  ASSUME IInv, NEW u \in Urls, NEW origin \in Origins, AddPage(u, origin)
  PROVE  StepOK
  <1>1. WindowOK(core, containers, shown, url, lastUrl, build, failed)
    BY DEF IInv
  <1>2. SameUrls(core, url, lastUrl, core, url, lastUrl)
    BY DEF SameUrls
  <1>3. /\ core.next_id < MaxPages
        /\ StartBuild(AllocateId(core), containers \cup {core.next_id},
                      StackAdd(shown, core.next_id),
                      [kind |-> "page", page |-> core.next_id, url |-> u, origin |-> origin,
                       caller |-> "open", rest |-> <<>>])
    BY DEF AddPage, StartAddPage
  <1>4. u \in MaybeUrls
    BY DEF MaybeUrls
  <1> QED BY <1>1, <1>2, <1>3, <1>4, StartAddPageOK

(* A page opened by another.                                               *)
LEMMA AddPageRelatedOK ==
  ASSUME IInv, AddPageRelated
  PROVE  StepOK
  <1>1. WindowOK(core, containers, shown, url, lastUrl, build, failed)
    BY DEF IInv
  <1>2. SameUrls(core, url, lastUrl, core, url, lastUrl)
    BY DEF SameUrls
  <1>3. /\ core.next_id < MaxPages
        /\ StartBuild(AllocateId(core), containers \cup {core.next_id},
                      StackAdd(shown, core.next_id),
                      [kind |-> "related", page |-> core.next_id, url |-> NoUrl, origin |-> "ui",
                       caller |-> "open", rest |-> <<>>])
    BY DEF AddPageRelated
  <1>4. "ui" \in Origins /\ NoUrl \in MaybeUrls
    BY DEF Origins, MaybeUrls
  <1> QED BY <1>1, <1>2, <1>3, <1>4, StartAddPageOK

(* A webview of the chrome's own.                                          *)
LEMMA OpenChromeOK ==
  ASSUME IInv, OpenChrome
  PROVE  StepOK
  <1>1. WindowOK(core, containers, shown, url, lastUrl, build, failed)
    BY DEF IInv
  <1>2. CoreOK(core) /\ StackOK(core, containers, shown) /\ UrlsOK(url, lastUrl)
    BY <1>1 DEF WindowOK
  <1>3. SameUrls(core, url, lastUrl, core, url, lastUrl)
    BY DEF SameUrls
  <1>4. PICK h : h = [NoBuild EXCEPT !.kind = "chrome"]
    OBVIOUS
  <1>5. /\ h.kind = "chrome" /\ h.page = NoPage /\ h.url = NoUrl /\ h.rest = <<>>
        /\ h.origin = "ui" /\ h.caller = "open" /\ h \in Handlers
    <2>1. h = [kind |-> "chrome", page |-> NoPage, url |-> NoUrl, origin |-> "ui",
               caller |-> "open", rest |-> <<>>]
      BY <1>4 DEF NoBuild
    <2>2. <<>> \in Seq(MaybeUrls)
      OBVIOUS
    <2> QED BY <2>1, <2>2 DEF Handlers, Origins
  <1>6. <<>> \in Seq(MaybeUrls) /\ Len(<<>>) = 0 /\ core.next_id + 0 <= MaxPages
    BY <1>2, CoreFacts DEF CoreOK
  <1>7. BuildOK(core, containers, lastUrl, h) /\ ~Opening(h)
    BY <1>5, <1>6 DEF BuildOK, Opening
  <1>8. ASSUME Idle PROVE WindowOK(core, containers, shown, url, lastUrl, h, failed)
    <2>1. ~Opening(build)
      BY <1>2, <1>8, IdleOK DEF Idle
    <2>2. ~failed => Whole(core, containers, h)
      BY <1>1, <1>7, <2>1 DEF WindowOK, Whole
    <2> QED BY <1>2, <1>7, <2>2 DEF WindowOK
  <1>9. StartBuild(core, containers, shown, h)
    BY <1>4 DEF OpenChrome
  <1> QED BY <1>3, <1>8, <1>9, StartBuildOK

(* set_active on a page of the window as the handler finds it.             *)
LEMMA SwitchOK ==
  ASSUME IInv, NEW id \in 0 .. core.next_id - 1, Opening(build) => id # build.page,
         NEW origin \in Origins, Activate(core, containers, shown, id, origin, "open")
  PROVE  StepOK
  <1>1. WindowOK(core, containers, shown, url, lastUrl, build, failed)
    BY DEF IInv
  <1>2. SameUrls(core, url, lastUrl, core, url, lastUrl)
    BY DEF SameUrls
  <1> QED BY <1>1, <1>2, ActivateOK

(* The address bar or the switcher picks a page.                           *)
LEMMA SwitchToOK ==
  ASSUME IInv, NEW id \in Named, NEW origin \in Origins, SwitchTo(id, origin)
  PROVE  StepOK
  <1>1. id \in 0 .. core.next_id - 1 /\ (Opening(build) => id # build.page)
    BY DEF Named, Opening
  <1> QED BY <1>1, SwitchOK DEF SwitchTo

(* A page of the Vec has an id and is not the one under construction.      *)
LEMMA LiveNamed ==
  ASSUME NEW c, NEW k, NEW s, NEW u, NEW l, NEW b, NEW x, WindowOK(c, k, s, u, l, b, x),
         NEW id \in Live(c)
  PROVE  id \in 0 .. c.next_id - 1 /\ (Opening(b) => id # b.page)
  <1>1. CoreOK(c) /\ BuildOK(c, k, l, b)
    BY DEF WindowOK
  <1> QED BY <1>1, CoreFacts DEF BuildOK

(* The page next to one of the Vec, to either side, is one of the Vec.     *)
LEMMA NeighbourLive ==
  ASSUME NEW c, CoreOK(c)
  PROVE  /\ NextPageId(c) # NoPage => NextPageId(c) \in Live(c)
         /\ PreviousPageId(c) # NoPage => PreviousPageId(c) \in Live(c)
  <1> SUFFICES ASSUME c.active \in Live(c)
               PROVE  NextPageId(c) \in Live(c) /\ PreviousPageId(c) \in Live(c)
    BY DEF NextPageId, PreviousPageId
  <1> DEFINE n == Len(c.pages)
             i == Position(c, c.active)
  <1>1. i \in 1..n /\ n \in Nat /\ \A j \in 1..n : c.pages[j] \in Live(c)
    BY PositionOf, CoreFacts DEF CoreOK
  <1>2. /\ NextPageId(c) = c.pages[(i % n) + 1]
        /\ PreviousPageId(c) = c.pages[((i + n - 2) % n) + 1]
    BY DEF NextPageId, PreviousPageId
  <1> HIDE DEF i, n
  <1>3. n > 0 /\ i \in Nat /\ i + n - 2 \in Int
    BY <1>1
  <1>4. (i % n) \in 0 .. n - 1 /\ ((i + n - 2) % n) \in 0 .. n - 1
    BY <1>1, <1>3
  <1>5. (i % n) + 1 \in 1..n /\ ((i + n - 2) % n) + 1 \in 1..n
    BY <1>1, <1>4
  <1> QED BY <1>1, <1>2, <1>5

(* The keys for the page to either side.                                   *)
LEMMA CycleOK ==
  ASSUME IInv, SwitchToNextPage \/ SwitchToPreviousPage
  PROVE  StepOK
  <1>1. /\ WindowOK(core, containers, shown, url, lastUrl, build, failed) /\ CoreOK(core)
        /\ "ui" \in Origins
    BY DEF IInv, WindowOK, Origins
  <1>2. PICK id \in Live(core) : Activate(core, containers, shown, id, "ui", "open")
    BY <1>1, NeighbourLive DEF SwitchToNextPage, SwitchToPreviousPage
  <1>3. id \in 0 .. core.next_id - 1 /\ (Opening(build) => id # build.page)
    BY <1>1, LiveNamed
  <1> QED BY <1>1, <1>2, <1>3, SwitchOK

(* Closing a page, and what becomes of the one in front.                   *)
LEMMA ClosePageOK ==
  ASSUME IInv, NEW id \in Named \cup {NoPage}, NEW origin \in Origins, ClosePage(id, origin)
  PROVE  StepOK
  <1>1. PICK c : c = Remove(core, id)
    OBVIOUS
  <1>2. PICK s : s = IF id \in containers THEN StackRemove(shown, id) ELSE shown
    OBVIOUS
  <1>3. PICK k : k = containers \ {id}
    OBVIOUS
  <1>4. AfterClosing(c, k, s, id, origin)
    BY <1>1, <1>2, <1>3 DEF ClosePage
  <1>5. /\ WindowOK(core, containers, shown, url, lastUrl, build, failed)
        /\ CoreOK(core) /\ BuildOK(core, containers, lastUrl, build)
    BY DEF IInv, WindowOK
  <1>6. Opening(build) => id # build.page
    <2>1. CASE id \in Named
      BY <2>1 DEF Named, Opening
    <2>2. CASE id = NoPage
      <3>1. Opening(build) => build.page \in containers
        BY <1>5 DEF BuildOK
      <3>2. containers \subseteq 0 .. core.next_id - 1 /\ NoPage \notin Nat /\ core.next_id \in Nat
        BY <1>5, CoreFacts DEF WindowOK, StackOK
      <3>3. NoPage \notin 0 .. core.next_id - 1
        BY <3>2
      <3> QED BY <2>2, <3>1, <3>2, <3>3
    <2> QED BY <2>1, <2>2
  <1>7. /\ WindowOK(c, k, s, url, lastUrl, build, failed)
        /\ SameUrls(core, url, lastUrl, c, url, lastUrl)
        /\ Live(c) = Live(core) \ {id} /\ c.active = core.active
    <2>1. /\ id \in containers => s = StackRemove(shown, id)
          /\ id \notin containers => s = shown
      BY <1>2
    <2> QED BY <1>1, <1>3, <1>5, <1>6, <2>1, ClosedOK
  <1>8. CASE /\ id # core.active
             /\ core' = c /\ containers' = k /\ shown' = s
             /\ UNCHANGED <<up, url, lastUrl, build, restoring, quitting, failed>>
             /\ SaveSession
    <2>1. WindowOK(core, containers, shown, url, lastUrl, build, failed)' /\ KeptUrls
      BY <1>7, <1>8 DEF KeptUrls
    <2>2. FlagsTyped'
      BY <1>8 DEF IInv, FlagsTyped
    <2> QED BY <1>8, <2>1, <2>2, HandledOK
  <1>9. CASE c.pages # <<>> /\ Activate(c, k, s, c.pages[1], origin, "close")
    <2>1. CoreOK(c)
      BY <1>7 DEF WindowOK
    <2>2. c.pages[1] \in Live(c)
      <3>1. c.pages \in Seq(Nat) /\ \A i \in 1..Len(c.pages) : c.pages[i] \in Live(c)
        BY <2>1, CoreFacts
      <3>2. Len(c.pages) \in Nat /\ Len(c.pages) # 0
        BY <1>9, <3>1, EmptySeq, LenProperties
      <3> QED BY <3>1, <3>2
    <2>3. c.pages[1] \in 0 .. c.next_id - 1 /\ (Opening(build) => c.pages[1] # build.page)
      BY <1>7, <2>2, LiveNamed
    <2> QED BY <1>7, <1>9, <2>3, ActivateOK
  <1>10. CASE StartAddPage(c, k, s, StartPage, origin, "close", <<>>)
    <2>1. /\ c.next_id < MaxPages
          /\ StartBuild(AllocateId(c), k \cup {c.next_id}, StackAdd(s, c.next_id),
                        [kind |-> "page", page |-> c.next_id, url |-> StartPage,
                         origin |-> origin, caller |-> "close", rest |-> <<>>])
      BY <1>10 DEF StartAddPage
    <2>2. StartPage \in MaybeUrls
      BY UrlsAssumption DEF MaybeUrls
    <2> QED BY <1>7, <2>1, <2>2, StartAddPageOK
  <1> QED BY <1>4, <1>8, <1>9, <1>10 DEF AfterClosing

(* A new limit.                                                            *)
LEMMA SetLimitOK ==
  ASSUME IInv, NEW limit \in Limits, SetLimit(limit)
  PROVE  StepOK
  <1>1. PICK c : c = Relimited(core, limit)
    OBVIOUS
  <1>2. /\ CoreOK(core) /\ StackOK(core, containers, shown) /\ UrlsOK(url, lastUrl)
        /\ BuildOK(core, containers, lastUrl, build)
        /\ ~failed => Whole(core, containers, build)
    BY DEF IInv, WindowOK
  <1>3. limit \in Nat \cup {Unlimited}
    BY GtkLimitsAssumption
  <1>4. /\ Consistent(c) /\ Live(c) = Live(core) /\ c.limit = limit
        /\ \A f \in Fields \ {"limit"} : c[f] = core[f]
    BY <1>1, <1>2, <1>3, RelimitedOK DEF CoreOK
  <1>5. /\ c.pages = core.pages /\ c.active = core.active /\ c.next_id = core.next_id
        /\ c.loaded = core.loaded /\ c.engine = core.engine
    BY <1>4 DEF Fields
  <1>6. WindowOK(c, containers, shown, url, lastUrl, build, failed)
    <2>1. CoreOK(c)
      BY <1>2, <1>4, <1>5 DEF CoreOK
    <2>2. StackOK(c, containers, shown) /\ UrlsOK(url, lastUrl)
      BY <1>2, <1>4, <1>5 DEF StackOK, UrlsOK
    <2>3. BuildOK(c, containers, lastUrl, build)
      BY <1>2, <1>4, <1>5 DEF BuildOK
    <2>4. ~failed => Whole(c, containers, build)
      BY <1>2, <1>4, <1>5 DEF Whole
    <2> QED BY <2>1, <2>2, <2>3, <2>4 DEF WindowOK
  <1>7. SameUrls(core, url, lastUrl, c, url, lastUrl)
    BY <1>5 DEF SameUrls, UrlOf
  <1>8. PICK d : d = Unload(Enforced(c), Evicted(c))
    OBVIOUS
  <1>9. PICK v : v = Without(url, Evicted(c))
    OBVIOUS
  <1>10. PICK m : m = FrozenOf(lastUrl, c, url, Evicted(c))
    OBVIOUS
  <1>11. /\ WindowOK(d, containers, shown, v, m, build, failed)
         /\ SameUrls(c, url, lastUrl, d, v, m)
         /\ Live(d) = Live(c) /\ d.pages = c.pages /\ d.active = c.active
    BY <1>6, <1>8, <1>9, <1>10, EvictedOK
  <1>12. /\ core' = d /\ url' = v /\ lastUrl' = m
         /\ UNCHANGED <<up, containers, shown, build, restoring, quitting, failed, disk>>
    BY <1>1, <1>8, <1>9, <1>10 DEF SetLimit, Frozen, FrozenOf
  <1>13. SameUrls(core, url, lastUrl, d, v, m)
    BY <1>4, <1>7, <1>11, SameUrlsTrans
  <1>14. WindowOK(core, containers, shown, url, lastUrl, build, failed)' /\ KeptUrls
    BY <1>11, <1>12, <1>13 DEF KeptUrls
  <1>15. FlagsTyped'
    BY <1>12 DEF IInv, FlagsTyped
  <1>16. /\ Live(core') = Live(core) /\ core'.pages = core.pages
         /\ core'.active = core.active
    BY <1>4, <1>5, <1>11, <1>12
  <1> QED BY <1>12, <1>14, <1>15, <1>16, UnsavedOK

(* A page goes elsewhere by itself.                                        *)
LEMMA NavigateOK ==
  ASSUME IInv, NEW p \in Ids, NEW u \in Urls, Navigate(p, u)
  PROVE  StepOK
  <1>1. /\ url' = [url EXCEPT ![p] = u]
        /\ UNCHANGED <<up, core, lastUrl, containers, shown, build, restoring, quitting, failed, disk>>
    BY DEF Navigate
  <1>2. UrlsOK(url', lastUrl')
    <2>1. url' \in [Ids -> MaybeUrls] /\ \A q \in Ids : url'[q] = IF q = p THEN u ELSE url[q]
      BY <1>1 DEF IInv, WindowOK, UrlsOK, MaybeUrls
    <2>2. core.engine \subseteq Ids
      BY CoreFacts DEF IInv, WindowOK
    <2> QED BY <1>1, <2>1, <2>2 DEF IInv, WindowOK, UrlsOK
  <1>3. WindowOK(core, containers, shown, url, lastUrl, build, failed)'
    BY <1>1, <1>2 DEF IInv, WindowOK
  <1>4. KeptUrls /\ FlagsTyped'
    BY <1>1 DEF KeptUrls, IInv, FlagsTyped
  <1> QED BY <1>1, <1>3, <1>4, UnsavedOK

(* A handler that only saves.                                              *)
LEMMA SavesOnlyOK ==
  ASSUME IInv, TitleChanged \/ Quit
  PROVE  StepOK
  <1>1. /\ UNCHANGED <<up, core, url, lastUrl, containers, shown, build, restoring, failed>>
        /\ SaveSession
    BY DEF TitleChanged, Quit
  <1>2. FlagsTyped'
    <2>1. quitting' \in BOOLEAN
      BY DEF TitleChanged, Quit, IInv, FlagsTyped
    <2> QED BY <1>1, <2>1 DEF IInv, FlagsTyped
  <1>3. WindowOK(core, containers, shown, url, lastUrl, build, failed)'
    BY <1>1 DEF IInv
  <1>4. KeptUrls
    BY <1>1 DEF KeptUrls
  <1> QED BY <1>1, <1>2, <1>3, <1>4, HandledOK

-----------------------------------------------------------------------------
(* The rest of a handler.                                                  *)

(* The end of add_page for a caller that has pages still to register, c,   *)
(* s, u, l and x being what the handler has made of the window by then.    *)
LEMMA RegisterRestOK ==
  ASSUME IInv, build.kind = "page", NEW c, NEW s, NEW u, NEW l, NEW x \in BOOLEAN,
         WindowOK(c, containers, s, u, l, NoBuild, x),
         SameUrls(core, url, lastUrl, c, u, l), Live(core) \subseteq Live(c),
         c.next_id = core.next_id, RegisterRest(c, l),
         url' = u, shown' = s, failed' = x, build' = NoBuild, up' = up, quitting' = quitting,
         SaveSession
  PROVE  StepOK
  <1>1. PICK r : r = build.rest
    OBVIOUS
  <1>2. PICK new : new = RestIds(c, r)
    OBVIOUS
  <1>3. PICK d : d = RestRegistered(c, r)
    OBVIOUS
  <1>4. PICK m : m = RestOf(l, c, r)
    OBVIOUS
  <1>5. PICK j : j = containers \cup new
    OBVIOUS
  <1>6. /\ WindowOK(d, j, s, u, m, NoBuild, x) /\ SameUrls(c, u, l, d, u, m)
        /\ Live(d) = Live(c) \cup new /\ RestListed(c, r, d, u, m)
    <2>1. RestFits(c, r)
      BY <1>1 DEF IInv, WindowOK, BuildOK, RestFits
    <2> QED BY <1>2, <1>3, <1>4, <1>5, <2>1, RegisteredOK
  <1>7. /\ core' = d /\ containers' = j /\ lastUrl' = m
        /\ restoring' = (restoring /\ build.caller # "restore")
    BY <1>1, <1>2, <1>3, <1>4, <1>5 DEF RegisterRest, RestOf, RestIds, RestRegistered
  <1>8. FileFollows(core, build, disk, restoring)
    BY DEF IInv
  <1>9. restoring' = FALSE
    BY <1>7, <1>8 DEF FileFollows, RestoreOK
  <1>10. /\ WindowOK(core, containers, shown, url, lastUrl, build, failed)'
         /\ SameUrls(core, url, lastUrl, d, u, m)
    BY <1>6, <1>7, SameUrlsTrans
  <1>11. KeptUrls
    BY <1>7, <1>10 DEF KeptUrls
  <1>12. CoreOK(core') /\ UrlsOK(url', lastUrl') /\ FileOK(disk)
    BY <1>8, <1>10 DEF WindowOK, FileFollows
  <1>13. /\ FileOK(disk') /\ Holds(disk', core') /\ Matches(disk', core')
         /\ \A i \in 1..Len(core'.pages) :
              disk'.pages[i].url = UrlOf(core', url', lastUrl', core'.pages[i])
    BY <1>9, <1>12, SavedOK
  <1>14. FileFollows(core, build, disk, restoring)'
    BY <1>9, <1>13 DEF FileFollows
  <1>15. FlagsTyped'
    BY <1>9 DEF IInv, FlagsTyped
  <1>16. restoring => Restored
    <2>1. Len(r) \in Nat /\ Len(c.pages) \in Nat
      <3>1. r \in Seq(MaybeUrls)
        BY <1>1 DEF IInv, WindowOK, BuildOK
      <3> QED BY <3>1, LenProperties, CoreFacts DEF WindowOK
    <2>2. /\ Len(disk'.pages) = Len(c.pages) + Len(r) /\ Len(d.pages) = Len(c.pages) + Len(r)
          /\ \A i \in 1..Len(r) : UrlOf(d, u, m, d.pages[Len(c.pages) + i]) = r[i]
      BY <1>6, <1>7, <1>13 DEF Matches, RestListed
    <2>3. ASSUME NEW i \in 1..Len(r)
          PROVE  disk'.pages[Len(disk'.pages) - Len(r) + i].url = r[i]
      <3>1. Len(disk'.pages) - Len(r) + i = Len(c.pages) + i
        BY <2>1, <2>2
      <3>2. Len(c.pages) + i \in 1..Len(d.pages)
        BY <2>1, <2>2
      <3> QED BY <1>7, <1>13, <2>2, <3>1, <3>2
    <2>4. restoring => (disk.pages = <<>> => r = <<>>)
      BY <1>1, <1>8 DEF FileFollows, RestoreOK, LastOf
    <2>5. Len(r) <= Len(disk'.pages)
      BY <2>1, <2>2
    <2> QED BY <1>1, <1>9, <2>3, <2>4, <2>5 DEF Restored
  <1> QED BY <1>10, <1>11, <1>14, <1>15, <1>16 DEF IInv, StepOK

(* add_page, when the engine was built.                                    *)
LEMMA FinishAddPageOK ==
  ASSUME IInv, FinishAddPage
  PROVE  StepOK
  <1>1. PICK id : id = build.page
    OBVIOUS
  <1>2. PICK c : c = Inserted(core, id)
    OBVIOUS
  <1>3. PICK u : u = UrlSet(url, id, build.url)
    OBVIOUS
  <1>4. PICK s : s = StackShow(containers, shown, id)
    OBVIOUS
  <1>5. PICK e : e = Unload(Enforced(c), Evicted(c))
    OBVIOUS
  <1>6. PICK v : v = Without(u, Evicted(c))
    OBVIOUS
  <1>7. PICK m : m = FrozenOf(lastUrl, c, u, Evicted(c))
    OBVIOUS
  <1>8. PICK d : d = SetActive(e, id)
    OBVIOUS
  <1>9. /\ build.kind = "page" /\ RegisterRest(d, m) /\ url' = v /\ shown' = s
        /\ build' = NoBuild /\ UNCHANGED <<up, quitting, failed>> /\ SaveSession
    <2>1. m = Frozen(c, u, Evicted(c))
      BY <1>7 DEF Frozen, FrozenOf
    <2> QED BY <1>1, <1>2, <1>3, <1>4, <1>5, <1>6, <1>8, <2>1 DEF FinishAddPage, UrlSet
  <1>10. WindowOK(core, containers, shown, url, lastUrl, build, failed) /\ Opening(build)
    BY <1>9 DEF IInv, Opening
  <1>11. /\ WindowOK(c, containers, s, u, lastUrl, NoBuild, failed)
         /\ SameUrls(core, url, lastUrl, c, u, lastUrl)
         /\ Live(c) = Live(core) \cup {id} /\ c.next_id = core.next_id
         /\ c.active = id /\ id \in c.engine
    <2>1. build.url \in MaybeUrls
      BY <1>10 DEF WindowOK, BuildOK, Opening
    <2>2. SetAt(url, u, id)
      BY <1>3, <1>10, <2>1 DEF SetAt, UrlSet, WindowOK, UrlsOK
    <2>3. Grown(core, containers, shown, url, lastUrl, build, failed, c, s, u)
      BY <1>1, <1>2, <1>4, <1>10, <2>2 DEF Grown
    <2> QED BY <1>1, <1>2, <2>3, GrownOK
  <1>12. /\ WindowOK(e, containers, s, v, m, NoBuild, failed)
         /\ SameUrls(c, u, lastUrl, e, v, m) /\ Live(e) = Live(c)
         /\ e.next_id = c.next_id /\ e.active = c.active
         /\ c.active \in c.engine => e.active \in e.engine
    BY <1>5, <1>6, <1>7, <1>11, EvictedOK
  <1>13. id \in e.engine /\ id \in 0 .. e.next_id - 1 /\ ~Opening(NoBuild)
    <2>1. CoreOK(e)
      BY <1>12 DEF WindowOK
    <2> QED BY <1>11, <1>12, <2>1, CoreFacts, IdleOK
  <1>14. s = StackShow(containers, s, id)
    BY <1>4 DEF StackShow
  <1>15. /\ WindowOK(d, containers, s, v, m, NoBuild, failed)
         /\ SameUrls(e, v, m, d, v, m) /\ Live(d) = Live(e) /\ d.next_id = e.next_id
    BY <1>8, <1>12, <1>13, <1>14, ShownOK
  <1>16. SameUrls(core, url, lastUrl, e, v, m)
    BY <1>11, <1>12, SameUrlsTrans
  <1>17. SameUrls(core, url, lastUrl, d, v, m)
    BY <1>11, <1>12, <1>15, <1>16, SameUrlsTrans
  <1>18. failed \in BOOLEAN
    BY DEF IInv, FlagsTyped
  <1> QED BY <1>9, <1>11, <1>12, <1>15, <1>17, <1>18, RegisterRestOK

(* add_page_related, when the engine was built.                            *)
LEMMA FinishAddPageRelatedOK ==
  ASSUME IInv, FinishAddPageRelated
  PROVE  StepOK
  <1>1. PICK id : id = build.page
    OBVIOUS
  <1>2. PICK c : c = InsertedBackground(core, id)
    OBVIOUS
  <1>3. PICK u : u = url
    OBVIOUS
  <1>4. PICK e : e = Unload(Enforced(c), Evicted(c))
    OBVIOUS
  <1>5. PICK v : v = Without(u, Evicted(c))
    OBVIOUS
  <1>6. PICK m : m = FrozenOf(lastUrl, c, u, Evicted(c))
    OBVIOUS
  <1>7. /\ build.kind = "related" /\ core' = e /\ lastUrl' = m /\ url' = v
        /\ build' = NoBuild
        /\ UNCHANGED <<up, containers, shown, restoring, quitting, failed>> /\ SaveSession
    <2>1. m = Frozen(c, u, Evicted(c))
      BY <1>6 DEF Frozen, FrozenOf
    <2> QED BY <1>1, <1>2, <1>3, <1>4, <1>5, <2>1 DEF FinishAddPageRelated
  <1>8. WindowOK(core, containers, shown, url, lastUrl, build, failed) /\ Opening(build)
    BY <1>7 DEF IInv, Opening
  <1>9. /\ WindowOK(c, containers, shown, u, lastUrl, NoBuild, failed)
        /\ SameUrls(core, url, lastUrl, c, u, lastUrl)
        /\ Live(c) = Live(core) \cup {id}
    <2>1. SetAt(url, u, id)
      BY <1>3, <1>8 DEF SetAt, WindowOK, UrlsOK
    <2>2. Grown(core, containers, shown, url, lastUrl, build, failed, c, shown, u)
      BY <1>1, <1>2, <1>8, <2>1 DEF Grown
    <2> QED BY <1>1, <2>2, GrownOK
  <1>10. /\ WindowOK(e, containers, shown, v, m, NoBuild, failed)
         /\ SameUrls(c, u, lastUrl, e, v, m) /\ Live(e) = Live(c)
    BY <1>4, <1>5, <1>6, <1>9, EvictedOK
  <1>11. SameUrls(core, url, lastUrl, e, v, m)
    BY <1>9, <1>10, SameUrlsTrans
  <1>12. WindowOK(core, containers, shown, url, lastUrl, build, failed)' /\ KeptUrls
    BY <1>7, <1>10, <1>11 DEF KeptUrls
  <1>13. ~restoring /\ FlagsTyped'
    BY <1>7 DEF IInv, FileFollows, RestoreOK, FlagsTyped
  <1> QED BY <1>7, <1>12, <1>13, HandledOK

(* set_active, when the engine was rebuilt.                                *)
LEMMA FinishReloadOK ==
  ASSUME IInv, FinishReload
  PROVE  StepOK
  <1>1. PICK d : d = SetActive(InstallEngine(core, build.page), build.page)
    OBVIOUS
  <1>2. PICK v : v = IF build.page \in Live(core) THEN [url EXCEPT ![build.page] = build.url]
                     ELSE url
    OBVIOUS
  <1>3. PICK t : t = StackShow(containers, shown, build.page)
    OBVIOUS
  <1>4. /\ build.kind = "reload" /\ core' = d /\ url' = v /\ shown' = t /\ build' = NoBuild
        /\ UNCHANGED <<up, lastUrl, containers, restoring, quitting, failed>> /\ SaveSession
    BY <1>1, <1>2, <1>3 DEF FinishReload
  <1>5. WindowOK(core, containers, shown, url, lastUrl, build, failed)
    BY DEF IInv
  <1>6. /\ WindowOK(d, containers, t, v, lastUrl, NoBuild, failed)
        /\ SameUrls(core, url, lastUrl, d, v, lastUrl)
    BY <1>1, <1>2, <1>3, <1>4, <1>5, ReloadedOK
  <1>7. WindowOK(core, containers, shown, url, lastUrl, build, failed)' /\ KeptUrls
    BY <1>4, <1>6 DEF KeptUrls
  <1>8. ~restoring /\ FlagsTyped'
    BY <1>4 DEF IInv, FileFollows, RestoreOK, FlagsTyped
  <1> QED BY <1>4, <1>7, <1>8, HandledOK

(* Whatever a build was for, the window can do without it, if it is one of *)
(* those that an engine has failed to build in.                            *)
LEMMA DroppedOK ==
  ASSUME NEW c, NEW k, NEW s, NEW u, NEW l, NEW b, NEW x, WindowOK(c, k, s, u, l, b, x)
  PROVE  /\ WindowOK(c, k, s, u, l, NoBuild, TRUE)
         /\ ~Opening(b) => WindowOK(c, k, s, u, l, NoBuild, x)
  <1>1. CoreOK(c) /\ StackOK(c, k, s) /\ UrlsOK(u, l)
    BY DEF WindowOK
  <1>2. BuildOK(c, k, l, NoBuild) /\ ~Opening(NoBuild)
    BY <1>1, IdleOK
  <1>3. ~Opening(b) => (~x => Whole(c, k, NoBuild))
    BY <1>2 DEF WindowOK, Whole
  <1> QED BY <1>1, <1>2, <1>3 DEF WindowOK

(* A webview of the chrome's own is there.                                 *)
LEMMA FinishChromeOK ==
  ASSUME IInv, FinishChrome
  PROVE  StepOK
  <1>1. /\ build.kind = "chrome" /\ build' = NoBuild
        /\ UNCHANGED <<up, core, url, lastUrl, containers, shown, restoring, quitting, failed, disk>>
    BY DEF FinishChrome
  <1>2. WindowOK(core, containers, shown, url, lastUrl, NoBuild, failed)
    <2>1. ~Opening(build)
      BY <1>1 DEF Opening
    <2> QED BY <2>1, DroppedOK DEF IInv
  <1>3. WindowOK(core, containers, shown, url, lastUrl, build, failed)' /\ KeptUrls
    BY <1>1, <1>2 DEF KeptUrls
  <1>4. ~restoring /\ Settled(build) /\ FlagsTyped'
    BY <1>1 DEF IInv, FileFollows, RestoreOK, FlagsTyped, Settled
  <1> QED BY <1>1, <1>3, <1>4, UnsavedOK

(* add_page, when the engine was not built.                                *)
LEMMA FailAddPageOK ==
  ASSUME IInv, FailAddPage
  PROVE  StepOK
  <1>1. /\ build.kind = "page" /\ build' = NoBuild /\ failed' = TRUE
        /\ up' = up /\ url' = url /\ shown' = shown /\ quitting' = quitting
    BY DEF FailAddPage
  <1>2. WindowOK(core, containers, shown, url, lastUrl, NoBuild, TRUE)
    BY DroppedOK DEF IInv
  <1>3. CASE build.caller = "open" /\ UNCHANGED <<core, lastUrl, containers, restoring, disk>>
    <2>1. WindowOK(core, containers, shown, url, lastUrl, build, failed)' /\ KeptUrls
      BY <1>1, <1>2, <1>3 DEF KeptUrls
    <2>2. ~restoring /\ Settled(build) /\ FlagsTyped'
      BY <1>1, <1>3 DEF IInv, FileFollows, RestoreOK, FlagsTyped, Settled
    <2> QED BY <1>3, <2>1, <2>2, UnsavedOK
  <1>4. CASE RegisterRest(core, lastUrl) /\ SaveSession
    <2>1. SameUrls(core, url, lastUrl, core, url, lastUrl)
      BY DEF SameUrls
    <2> QED BY <1>1, <1>2, <1>4, <2>1, RegisterRestOK
  <1> QED BY <1>3, <1>4 DEF FailAddPage

(* add_page_related or the chrome, when the engine was not built.          *)
LEMMA FailAddPageRelatedOK ==
  ASSUME IInv, FailAddPageRelated
  PROVE  StepOK
  <1>1. /\ build.kind \in {"related", "chrome"} /\ build' = NoBuild /\ failed' = TRUE
        /\ UNCHANGED <<up, core, url, lastUrl, containers, shown, restoring, quitting, disk>>
    BY DEF FailAddPageRelated
  <1>2. WindowOK(core, containers, shown, url, lastUrl, NoBuild, TRUE)
    BY DroppedOK DEF IInv
  <1>3. WindowOK(core, containers, shown, url, lastUrl, build, failed)' /\ KeptUrls
    BY <1>1, <1>2 DEF KeptUrls
  <1>4. ~restoring /\ Settled(build) /\ FlagsTyped'
    BY <1>1 DEF IInv, FileFollows, RestoreOK, FlagsTyped, Settled
  <1> QED BY <1>1, <1>3, <1>4, UnsavedOK

(* set_active, when the engine was not rebuilt.                            *)
LEMMA FailReloadOK ==
  ASSUME IInv, FailReload
  PROVE  StepOK
  <1>1. PICK id : id = build.page
    OBVIOUS
  <1>2. PICK d : d = SetActive(core, id)
    OBVIOUS
  <1>3. PICK t : t = StackShow(containers, shown, id)
    OBVIOUS
  <1>4. /\ build.kind = "reload" /\ core' = d /\ shown' = t /\ build' = NoBuild
        /\ failed' = TRUE
        /\ UNCHANGED <<up, url, lastUrl, containers, restoring, quitting>> /\ SaveSession
    BY <1>1, <1>2, <1>3 DEF FailReload
  <1>5. /\ WindowOK(core, containers, shown, url, lastUrl, NoBuild, TRUE)
        /\ CoreOK(core)
    BY DroppedOK DEF IInv, WindowOK
  <1>6. id \in 0 .. core.next_id - 1 /\ ~Opening(NoBuild)
    BY <1>1, <1>4, <1>5, IdleOK DEF IInv, WindowOK, BuildOK
  <1>7. /\ WindowOK(d, containers, t, url, lastUrl, NoBuild, TRUE)
        /\ SameUrls(core, url, lastUrl, d, url, lastUrl)
    <2>1. PICK x : x = TRUE
      OBVIOUS
    <2>2. WindowOK(core, containers, shown, url, lastUrl, NoBuild, x)
      BY <1>5, <2>1
    <2>3. x \/ (id \in Live(core) => id \in core.engine)
      BY <2>1
    <2>4. /\ WindowOK(d, containers, t, url, lastUrl, NoBuild, x)
          /\ SameUrls(core, url, lastUrl, d, url, lastUrl)
      BY <1>2, <1>3, <1>6, <2>2, <2>3, ShownOK
    <2> QED BY <2>1, <2>4
  <1>8. WindowOK(core, containers, shown, url, lastUrl, build, failed)' /\ KeptUrls
    BY <1>4, <1>7 DEF KeptUrls
  <1>9. ~restoring /\ FlagsTyped'
    BY <1>4 DEF IInv, FileFollows, RestoreOK, FlagsTyped
  <1> QED BY <1>4, <1>8, <1>9, HandledOK

-----------------------------------------------------------------------------
(* The process.                                                            *)

(* With no page of the Vec in front, any container may be the visible one. *)
LEMMA ReshownOK ==
  ASSUME NEW c, NEW k, NEW s, NEW u, NEW l, NEW b, NEW x, WindowOK(c, k, s, u, l, b, x),
         c.active \notin Live(c), NEW t \in k
  PROVE  WindowOK(c, k, t, u, l, b, x)
  BY DEF WindowOK, StackOK

(* The pages before the first real one: their ids, and no engine.          *)
LEMMA RestCore ==
  ASSUME NEW c, CoreOK(c), NEW r, RestFits(c, r), NEW d, d = RestRegistered(c, r),
         NEW new, new = RestIds(c, r)
  PROVE  Live(d) = Live(c) \cup new /\ d.active = c.active /\ d.next_id = c.next_id + Len(r)
  <1>1. PICK n : n = Len(r)
    OBVIOUS
  <1>2. /\ r \in Seq(MaybeUrls) /\ c.next_id + n <= MaxPages
        /\ d = Registered(c, n) /\ new = c.next_id .. c.next_id + n - 1
    BY <1>1 DEF RestFits, RestRegistered, RestIds
  <1>3. n \in Nat /\ c.next_id \in Nat /\ MaxPages \in Nat
    BY <1>1, <1>2, LenProperties, CoreFacts
  <1> HIDE DEF RestFits
  <1>4. CoreOK(c) /\ c.next_id + n <= MaxPages /\ d = Registered(c, n)
        /\ new = c.next_id .. c.next_id + n - 1
    BY <1>2
  <1>5. /\ CoreOK(d) /\ Live(d) = Live(c) \cup new /\ new \cap Live(c) = {}
        /\ d.next_id = c.next_id + n /\ d.active = c.active
        /\ d.loaded = c.loaded /\ d.engine = c.engine
    BY <1>3, <1>4, RegisteredPages
  <1> QED BY <1>1, <1>5

(* The window of a new process: r are the pages before its first real one, *)
(* whose engine is to be built by h.                                       *)
LEMMA NewWindowOK ==
  ASSUME NEW limit \in Limits, NEW c, c = New(limit), NEW u, u = [p \in Ids |-> NoUrl],
         NEW r, RestFits(c, r), NEW m, m = RestOf(u, c, r),
         NEW e, e = AllocateId(RestRegistered(c, r)),
         NEW h \in Handlers, Opening(h), h.page = Len(r), h.url \in MaybeUrls,
         h.rest \in Seq(MaybeUrls), Len(r) + 1 + Len(h.rest) <= MaxPages
  PROVE  WindowOK(e, 0..Len(r), 0, u, m, h, FALSE) /\ Live(e) = 0 .. Len(r) - 1
  <1>1. PICK x : x = FALSE
    OBVIOUS
  <1>2. PICK o : o = {}
    OBVIOUS
  <1>3. PICK s : s = NoPage
    OBVIOUS
  <1>4. WindowOK(c, o, s, u, u, NoBuild, x) /\ Live(c) = {} /\ CoreOK(c)
    BY <1>1, <1>2, <1>3, EmptyOK DEF WindowOK
  <1>5. c.next_id = 0 /\ c.active = NoPage
    BY DEF New
  <1>6. PICK d : d = RestRegistered(c, r)
    OBVIOUS
  <1>7. PICK k : k = RestIds(c, r)
    OBVIOUS
  <1>8. PICK j : j = o \cup k
    OBVIOUS
  <1>9. Len(r) \in Nat /\ MaxPages \in Nat /\ NoPage \notin Nat
    BY <1>4, LenProperties, CoreFacts DEF RestFits
  <1>10. k = 0 .. Len(r) - 1 /\ j = k /\ k \cup {Len(r)} = 0 .. Len(r) /\ NoPage \notin k
    <2>1. k = 0 .. Len(r) - 1
      BY <1>5, <1>7, <1>9 DEF RestIds
    <2>2. j = k
      BY <1>2, <1>8
    <2> QED BY <1>9, <2>1, <2>2
  <1>11. /\ WindowOK(d, j, s, u, m, NoBuild, x)
         /\ Live(d) = Live(c) \cup k /\ d.active = c.active
         /\ d.next_id = c.next_id + Len(r)
    <2>1. WindowOK(c, o, s, u, u, NoBuild, x)
      BY <1>4
    <2>2. WindowOK(d, j, s, u, m, NoBuild, x)
      BY <1>6, <1>7, <1>8, <2>1, RegisteredOK
    <2>3. Live(d) = Live(c) \cup k /\ d.active = c.active /\ d.next_id = c.next_id + Len(r)
      BY ZenonT(60), <1>4, <1>6, <1>7, RestCore
    <2> QED BY <2>2, <2>3
  <1>12. Live(d) = k /\ d.active = NoPage /\ d.next_id = Len(r)
    BY <1>4, <1>5, <1>9, <1>11
  <1>13. PICK t : t = StackAdd(s, d.next_id)
    OBVIOUS
  <1>14. /\ WindowOK(e, j \cup {d.next_id}, t, u, m, h, x)
         /\ Live(e) = Live(d) /\ e.active = d.active
    <2>1. e = AllocateId(d)
      BY <1>6
    <2>2. h.page = d.next_id /\ d.next_id + 1 + Len(h.rest) <= MaxPages
      BY <1>12
    <2>3. WindowOK(e, j \cup {d.next_id}, t, u, m, h, x)
      BY <1>11, <1>13, <2>1, <2>2, StartedOK
    <2>4. Live(e) = Live(d) /\ e.active = d.active
      <3>1. /\ Live(e) = Live(d)
            /\ \A f \in Fields \ {"next_id"} : e[f] = d[f]
        BY <1>11, <2>1, AllocateOK DEF WindowOK, CoreOK
      <3> QED BY <3>1 DEF Fields
    <2> QED BY <2>3, <2>4
  <1>15. WindowOK(e, 0..Len(r), t, u, m, h, x)
    BY <1>10, <1>12, <1>14
  <1>16. e.active \notin Live(e) /\ 0 \in 0..Len(r)
    BY <1>9, <1>10, <1>12, <1>14
  <1>17. PICK z : z = 0
    OBVIOUS
  <1>18. WindowOK(e, 0..Len(r), z, u, m, h, x)
    BY <1>15, <1>16, <1>17, ReshownOK
  <1> QED BY <1>1, <1>10, <1>12, <1>14, <1>17, <1>18

(* A new process, with the pages before its first real one.                *)
LEMMA LaunchOK ==
  ASSUME IInv, NEW before \in Seq(MaybeUrls), NEW first \in MaybeUrls,
         NEW caller \in {"open", "restore"}, NEW rest \in Seq(MaybeUrls),
         Len(before) + 1 + Len(rest) <= MaxPages,
         caller = "open" => before = <<>>,
         caller = "restore" => LastOf(disk, rest),
         Launch(before, first, caller, rest)
  PROVE  StepOK
  <1>1. PICK limit \in Limits : limit = core.limit
    BY DEF IInv, WindowOK, CoreOK
  <1>2. PICK c : c = New(limit)
    OBVIOUS
  <1>3. PICK u : u = [p \in Ids |-> NoUrl]
    OBVIOUS
  <1>4. PICK r : r = before
    OBVIOUS
  <1>5. PICK n : n = Len(before)
    OBVIOUS
  <1>6. PICK m : m = RestOf(u, c, r)
    OBVIOUS
  <1>7. PICK e : e = AllocateId(RestRegistered(c, r))
    OBVIOUS
  <1>8. PICK h : h = [kind |-> "page", page |-> n, url |-> first, origin |-> "ui",
                      caller |-> caller, rest |-> rest]
    OBVIOUS
  <1>9. /\ n \in Nat /\ Len(rest) \in Nat /\ MaxPages \in Nat /\ c.next_id = 0
        /\ n + 1 + Len(rest) <= MaxPages /\ n = Len(r) /\ r \in Seq(MaybeUrls)
    BY <1>2, <1>4, <1>5, LenProperties, GtkBoundAssumption DEF New
  <1>10. /\ h.kind = "page" /\ h.page = n /\ h.url = first /\ h.caller = caller
         /\ h.rest = rest /\ Opening(h)
    BY <1>8 DEF Opening
  <1>11. h \in Handlers
    <2>1. n \in Ids
      BY <1>9 DEF Ids
    <2>2. rest \in Seq(MaybeUrls)
      OBVIOUS
    <2> QED BY <1>8, <2>1, <2>2 DEF Handlers, Origins, MaybeUrls
  <1>12. WindowOK(e, 0..n, 0, u, m, h, FALSE) /\ Live(e) = 0 .. n - 1
    <2>1. RestFits(c, r)
      BY <1>9 DEF RestFits
    <2>2. /\ h.page = Len(r) /\ h.url \in MaybeUrls /\ h.rest \in Seq(MaybeUrls)
          /\ Len(r) + 1 + Len(h.rest) <= MaxPages
      BY <1>9, <1>10
    <2>3. WindowOK(e, 0..Len(r), 0, u, m, h, FALSE) /\ Live(e) = 0 .. Len(r) - 1
      BY <1>2, <1>3, <1>6, <1>7, <1>10, <1>11, <2>1, <2>2, NewWindowOK
    <2> QED BY <1>9, <2>3
  <1>13. /\ up' = TRUE /\ core' = e /\ url' = u /\ lastUrl' = m /\ containers' = 0..n
         /\ shown' = 0 /\ build' = h /\ restoring' = (caller = "restore")
         /\ quitting' = FALSE /\ failed' = FALSE /\ disk' = disk /\ ~up
    <2>1. m = [p \in Ids |-> IF p < n THEN before[p + 1] ELSE NoUrl]
      <3>1. \A p \in Ids : /\ p < n <=> p \in c.next_id .. c.next_id + Len(r) - 1
                           /\ p - c.next_id + 1 = p + 1
        BY <1>9 DEF Ids
      <3> QED BY <1>3, <1>4, <1>6, <3>1 DEF RestOf
    <2>2. e = AllocateId(Registered(New(core.limit), n))
      BY <1>1, <1>2, <1>7, <1>9 DEF RestRegistered
    <2> QED BY <1>3, <1>5, <1>8, <2>1, <2>2 DEF Launch
  <1>14. WindowOK(core, containers, shown, url, lastUrl, build, failed)'
    BY <1>12, <1>13
  <1>15. FlagsTyped' /\ KeptUrls
    BY <1>13 DEF FlagsTyped, KeptUrls
  <1>16. FileOK(disk)
    BY DEF IInv, FileFollows
  <1>17. CASE caller = "open"
    <2>1. Live(e) = {}
      <3>1. n = 0
        BY <1>5, <1>17
      <3> QED BY <1>12, <3>1
    <2>2. e.pages = <<>>
      <3>1. /\ e.pages \in Seq(Nat) /\ Len(e.pages) \in Nat
            /\ \A i \in 1..Len(e.pages) : e.pages[i] \in Live(e)
        BY <1>12, CoreFacts DEF WindowOK
      <3>2. Len(e.pages) # 0 => 1 \in 1..Len(e.pages)
        BY <3>1
      <3> QED BY <2>1, <3>1, <3>2, EmptySeq
    <2>3. FileFollows(core, build, disk, restoring)'
      BY <1>13, <1>16, <1>17, <2>1, <2>2 DEF FileFollows, Holds
    <2> QED BY <1>13, <1>14, <1>15, <2>3 DEF IInv, StepOK
  <1>18. CASE caller = "restore"
    <2>1. RestoreOK(disk, h) /\ ~Settled(h)
      BY <1>10, <1>18 DEF RestoreOK, Settled
    <2>2. FileFollows(core, build, disk, restoring)'
      BY <1>13, <1>16, <1>18, <2>1 DEF FileFollows
    <2> QED BY <1>13, <1>14, <1>15, <2>2 DEF IInv, StepOK
  <1> QED BY <1>17, <1>18


(* What a session file f asks a new window to open, and which of it first. *)
PlanUrls(f) == IF f.pages = <<>> THEN <<StartPage>>
               ELSE [i \in 1..Len(f.pages) |-> f.pages[i].url]
PlanActive(f) == IF f.active = 0 THEN 1 ELSE f.active

(* The plan's URLs are the file's, and the first to open is among them.    *)
LEMMA PlanOK ==
  ASSUME NEW f, FileOK(f), NEW w, w = PlanUrls(f), NEW a, a = PlanActive(f)
  PROVE  /\ w \in Seq(MaybeUrls) /\ Len(w) <= MaxPages /\ a \in 1..Len(w)
         /\ f.pages # <<>> => /\ Len(w) = Len(f.pages)
                              /\ \A i \in 1..Len(w) : w[i] = f.pages[i].url
         /\ f.pages = <<>> => Len(w) = 1 /\ a = 1
  <1>1. /\ f.pages \in Seq(Entries) /\ Len(f.pages) \in Nat /\ Len(f.pages) <= MaxPages
        /\ f.active \in 0 .. Len(f.pages) /\ MaxPages \in Nat \ {0}
    BY LenProperties, GtkBoundAssumption DEF FileOK
  <1>2. CASE f.pages = <<>>
    <2>1. w = <<StartPage>> /\ f.active = 0
      BY <1>1, <1>2 DEF PlanUrls
    <2>2. <<StartPage>> \in Seq(MaybeUrls) /\ Len(<<StartPage>>) = 1
      BY UrlsAssumption DEF MaybeUrls
    <2>3. a = 1
      BY <2>1 DEF PlanActive
    <2> QED BY <1>1, <1>2, <2>1, <2>2, <2>3
  <1>3. CASE f.pages # <<>>
    <2>1. Len(f.pages) # 0
      BY <1>1, <1>3, EmptySeq
    <2>2. w = [i \in 1..Len(f.pages) |-> f.pages[i].url]
      BY <1>3 DEF PlanUrls
    <2>3. \A i \in 1..Len(f.pages) : f.pages[i].url \in MaybeUrls
      <3>1. \A i \in 1..Len(f.pages) : f.pages[i] \in Entries
        BY <1>1
      <3> QED BY <3>1 DEF Entries
    <2>4. w \in Seq(MaybeUrls) /\ Len(w) = Len(f.pages)
      BY <1>1, <2>2, <2>3
    <2>5. a \in 1..Len(f.pages)
      BY <1>1, <2>1 DEF PlanActive
    <2> QED BY <1>1, <1>3, <2>2, <2>4, <2>5
  <1> QED BY <1>2, <1>3

(* A restore: the pages before the active one, that one, and the rest.     *)
LEMMA RestoreLaunchOK ==
  ASSUME IInv, Restore
  PROVE  StepOK
  <1>1. PICK w : w = PlanUrls(disk)
    OBVIOUS
  <1>2. PICK a : a = PlanActive(disk)
    OBVIOUS
  <1>3. PICK n : n = Len(w)
    OBVIOUS
  <1>4. PICK before : before = SubSeq(w, 1, a - 1)
    OBVIOUS
  <1>5. PICK rest : rest = SubSeq(w, a + 1, n)
    OBVIOUS
  <1>6. PICK first : first = w[a]
    OBVIOUS
  <1>7. FileOK(disk)
    BY DEF IInv, FileFollows
  <1>8. /\ w \in Seq(MaybeUrls) /\ n <= MaxPages /\ a \in 1..n
        /\ disk.pages # <<>> => /\ n = Len(disk.pages)
                                /\ \A i \in 1..n : w[i] = disk.pages[i].url
        /\ disk.pages = <<>> => n = 1 /\ a = 1
    BY <1>1, <1>2, <1>3, <1>7, PlanOK
  <1>9. n \in Nat /\ a \in Int /\ MaxPages \in Nat /\ \A i \in 1..n : w[i] \in MaybeUrls
    BY <1>3, <1>8, LenProperties, GtkBoundAssumption
  <1>10. before \in Seq(MaybeUrls) /\ Len(before) = a - 1
    <2>1. 1 \in Int /\ a - 1 \in Int /\ \A i \in 1 .. a - 1 : w[i] \in MaybeUrls
      BY <1>8, <1>9
    <2>2. /\ before \in Seq(MaybeUrls)
          /\ Len(before) = IF 1 <= a - 1 THEN (a - 1) - 1 + 1 ELSE 0
      BY <1>4, <2>1, SubSeqProperties
    <2> QED BY <1>8, <1>9, <2>2
  <1>11. /\ rest \in Seq(MaybeUrls) /\ Len(rest) = n - a
         /\ \A i \in 1 .. n - a : rest[i] = w[a + i]
    <2>1. a + 1 \in Int /\ n \in Int /\ \A i \in (a + 1) .. n : w[i] \in MaybeUrls
      BY <1>8, <1>9
    <2>2. /\ rest \in Seq(MaybeUrls)
          /\ Len(rest) = IF a + 1 <= n THEN n - (a + 1) + 1 ELSE 0
          /\ \A i \in 1 .. n - (a + 1) + 1 : rest[i] = w[(a + 1) + i - 1]
      BY <1>5, <2>1, SubSeqProperties
    <2>3. Len(rest) = n - a
      BY <1>8, <1>9, <2>2
    <2>4. ASSUME NEW i \in 1 .. n - a PROVE rest[i] = w[a + i]
      <3>1. i \in 1 .. n - (a + 1) + 1 /\ (a + 1) + i - 1 = a + i
        BY <1>8, <1>9
      <3> QED BY <2>2, <3>1
    <2> QED BY <2>2, <2>3, <2>4
  <1>12. Len(before) + 1 + Len(rest) <= MaxPages /\ first \in MaybeUrls
    BY <1>6, <1>8, <1>9, <1>10, <1>11
  <1>13. LastOf(disk, rest)
    <2>1. CASE disk.pages = <<>>
      <3>1. Len(rest) = 0
        BY <1>8, <1>9, <1>11, <2>1
      <3>2. rest = <<>> /\ Len(disk.pages) = 0
        BY <1>11, <2>1, <3>1, EmptySeq
      <3> QED BY <3>1, <3>2 DEF LastOf
    <2>2. CASE disk.pages # <<>>
      <3>1. n = Len(disk.pages) /\ \A i \in 1..n : w[i] = disk.pages[i].url
        BY <1>8, <2>2
      <3>2. Len(rest) <= n
        BY <1>8, <1>9, <1>11
      <3>3. ASSUME NEW i \in 1..Len(rest) PROVE rest[i] = disk.pages[n - Len(rest) + i].url
        <4>1. i \in 1 .. n - a /\ a + i \in 1..n /\ n - Len(rest) + i = a + i
          BY <1>8, <1>9, <1>11
        <4> QED BY <1>11, <3>1, <4>1
      <3> QED BY <2>2, <3>1, <3>2, <3>3 DEF LastOf
    <2> QED BY <2>1, <2>2
  <1>14. Launch(before, first, "restore", rest)
    BY <1>1, <1>2, <1>3, <1>4, <1>5, <1>6 DEF Restore, PlanUrls, PlanActive
  <1> QED BY <1>10, <1>11, <1>12, <1>13, <1>14, LaunchOK

(* A window on one link alone.                                             *)
LEMMA OpenLinkOK ==
  ASSUME IInv, NEW u \in Urls, OpenLink(u)
  PROVE  StepOK
  <1>1. PICK r : r = <<>>
    OBVIOUS
  <1>2. r \in Seq(MaybeUrls) /\ Len(r) = 0
    BY <1>1
  <1>3. Len(r) + 1 + Len(r) <= MaxPages
    BY <1>2, GtkBoundAssumption
  <1>4. Launch(r, u, "open", r) /\ u \in MaybeUrls
    BY <1>1 DEF OpenLink, MaybeUrls
  <1> QED BY <1>1, <1>2, <1>3, <1>4, LaunchOK

-----------------------------------------------------------------------------
(* The theorems.                                                           *)

(* Before the first launch there is neither a window nor a session.        *)
LEMMA InitOK == Init => IInv
  <1> SUFFICES ASSUME Init PROVE IInv
    OBVIOUS
  <1>1. PICK limit \in Limits : core = New(limit)
    BY DEF Init
  <1>2. /\ up = FALSE /\ restoring = FALSE /\ quitting = FALSE /\ failed = FALSE
        /\ url = [p \in Ids |-> NoUrl] /\ lastUrl = url /\ containers = {}
        /\ shown = NoPage /\ build = NoBuild /\ disk = NoSession
    BY DEF Init
  <1>3. /\ WindowOK(core, {}, NoPage, url, url, NoBuild, failed)
        /\ Live(core) = {} /\ core.pages = <<>>
    BY <1>1, <1>2, EmptyOK
  <1>4. FileOK(disk)
    <2>1. <<>> \in Seq(Entries) /\ Len(<<>>) = 0 /\ MaxPages \in Nat
      BY GtkBoundAssumption
    <2> QED BY <1>2, <2>1 DEF FileOK, NoSession
  <1>5. FileFollows(core, build, disk, restoring)
    BY <1>2, <1>3, <1>4 DEF FileFollows, Holds
  <1> QED BY <1>2, <1>3, <1>5 DEF IInv, FlagsTyped

(* Every step keeps the invariant, and does what the two action properties *)
(* say.                                                                    *)
LEMMA NextOK ==
  ASSUME IInv, [Next]_vars
  PROVE  StepOK
  <1>1. CASE UNCHANGED vars
    <2>1. /\ UNCHANGED <<up, core, url, lastUrl, containers, shown>>
          /\ UNCHANGED <<build, restoring, quitting, failed, disk>>
      BY <1>1 DEF vars
    <2>2. WindowOK(core, containers, shown, url, lastUrl, build, failed)'
      BY <2>1 DEF IInv
    <2>3. FlagsTyped' /\ FileFollows(core, build, disk, restoring)'
      BY <2>1 DEF IInv, FlagsTyped
    <2> QED BY <2>1, <2>2, <2>3 DEF IInv, StepOK, KeptUrls
  <1>2. CASE \E u \in Urls, origin \in Origins : AddPage(u, origin)
    BY <1>2, AddPageOK
  <1>3. CASE AddPageRelated
    BY <1>3, AddPageRelatedOK
  <1>4. CASE OpenChrome
    BY <1>4, OpenChromeOK
  <1>5. CASE \E id \in Named, origin \in Origins : SwitchTo(id, origin)
    BY <1>5, SwitchToOK
  <1>6. CASE SwitchToNextPage \/ SwitchToPreviousPage
    BY <1>6, CycleOK
  <1>7. CASE \E id \in Named \cup {NoPage}, origin \in Origins : ClosePage(id, origin)
    BY <1>7, ClosePageOK
  <1>8. CASE \E limit \in Limits : SetLimit(limit)
    BY <1>8, SetLimitOK
  <1>9. CASE \E p \in Ids, u \in Urls : Navigate(p, u)
    BY <1>9, NavigateOK
  <1>10. CASE TitleChanged \/ Quit
    BY <1>10, SavesOnlyOK
  <1>11. CASE EndBuild
    BY <1>11, FinishAddPageOK, FinishAddPageRelatedOK, FinishReloadOK, FinishChromeOK,
       FailAddPageOK, FailAddPageRelatedOK, FailReloadOK DEF EndBuild
  <1>12. CASE Restore
    BY <1>12, RestoreLaunchOK
  <1>13. CASE \E u \in Urls : OpenLink(u)
    BY <1>13, OpenLinkOK
  <1>14. CASE Exit \/ Kill
    BY <1>14, GoneOK DEF Exit, Kill
  <1> QED BY <1>1, <1>2, <1>3, <1>4, <1>5, <1>6, <1>7, <1>8, <1>9, <1>10, <1>11, <1>12,
       <1>13, <1>14 DEF Next

(* The invariant is one of the specification.                              *)
LEMMA Invariance == Spec => []IInv
  <1>1. IInv /\ [Next]_vars => IInv'
    BY NextOK DEF StepOK
  <1> QED BY InitOK, <1>1, PTL DEF Spec

(* Ids are given once each, whatever is built, evicted or fails to build,  *)
(* and the page under construction is in the stack but not in the Vec      *)
(* (allocate_page_id, add_page, add_page_related).                         *)
THEOREM GtkTypesCorrect == Spec => []TypeOK
  <1>1. IInv => TypeOK
    <2> SUFFICES ASSUME IInv PROVE TypeOK
      OBVIOUS
    <2>1. /\ FlagsTyped /\ CoreOK(core) /\ StackOK(core, containers, shown)
          /\ UrlsOK(url, lastUrl) /\ BuildOK(core, containers, lastUrl, build)
          /\ FileOK(disk)
      BY DEF IInv, WindowOK, FileFollows
    <2>2. /\ CoreTypeOK(core) /\ IdsUnique(core) /\ AgesTotal(core)
          /\ core.limit \in Limits /\ core.next_id <= MaxPages
          /\ 0 .. core.next_id - 1 \subseteq Ids
      BY <2>1, CoreFacts DEF CoreOK, Consistent
    <2>3. url \in [Ids -> Urls \cup {NoUrl}] /\ lastUrl \in [Ids -> Urls \cup {NoUrl}]
      BY <2>1 DEF UrlsOK, MaybeUrls
    <2>4. containers \subseteq Ids /\ shown \in containers \cup {NoPage}
      BY <2>1, <2>2 DEF StackOK
    <2>5. /\ build \in Handlers
          /\ build.kind \in {"page", "related"} =>
               build.page \in (containers \cap 0 .. core.next_id - 1) \ Live(core)
      BY <2>1 DEF BuildOK, StackOK, Opening
    <2>6. disk.pages \in Seq([page : Ids, url : Urls \cup {NoUrl}])
      <3>1. PICK T : T = [page : Ids, url : Urls \cup {NoUrl}]
        OBVIOUS
      <3>2. PICK w : w = disk.pages
        OBVIOUS
      <3>3. w \in Seq(Entries) /\ \A e \in Entries : e \in T
        BY <2>1, <3>1, <3>2 DEF FileOK, Entries, MaybeUrls
      <3>4. Len(w) \in Nat /\ w = [i \in 1..Len(w) |-> w[i]] /\ \A i \in 1..Len(w) : w[i] \in T
        BY <3>3, LenProperties
      <3>5. w \in Seq(T)
        BY <3>4
      <3> QED BY <3>1, <3>2, <3>5
    <2>7. disk.active \in 0 .. Len(disk.pages)
      BY <2>1 DEF FileOK
    <2> QED BY <2>1, <2>2, <2>3, <2>4, <2>5, <2>6, <2>7 DEF TypeOK, FlagsTyped
  <1> QED BY Invariance, <1>1, PTL

(* Whenever the process dies, in the middle of a build too, every page     *)
(* that is open is in the session file, or the session being restored is   *)
(* (save_session, restoring).                                              *)
THEOREM OpenPagesAreSaved == Spec => []OpenPagesSaved
  <1>1. IInv => OpenPagesSaved
    BY DEF IInv, FileFollows, Holds, OpenPagesSaved, SavedPages
  <1> QED BY Invariance, <1>1, PTL

(* Whatever handlers a build is nested in, and whether it fails: pages     *)
(* keep their containers, engines are of pages that count, and             *)
(* between two handlers the stack shows the active page, which has an      *)
(* engine unless one failed, and the file lists the open pages (set_active,*)
(* close_page, add_page, add_page_related, unload_engines).                *)
THEOREM GtkWindowFollows == Spec => []WindowFollowsPages
  <1>1. IInv => WindowFollowsPages
    <2> SUFFICES ASSUME IInv PROVE WindowFollowsPages
      OBVIOUS
    <2>1. /\ CoreOK(core) /\ StackOK(core, containers, shown)
          /\ UrlsOK(url, lastUrl)
          /\ ~failed => Whole(core, containers, build)
      BY DEF IInv, WindowOK
    <2>2. EngineIsLoaded /\ PagesHaveContainers
      BY <2>1 DEF CoreOK, StackOK, EngineIsLoaded, PagesHaveContainers
    <2>3. NoStrayContainers
      BY <2>1 DEF NoStrayContainers, Whole, Opening
    <2>4. IdleShowsActive
      BY <2>1 DEF IdleShowsActive, StackOK
    <2>5. IdleActiveHasEngine
      BY <2>1 DEF IdleActiveHasEngine, Whole
    <2>6. IdleSessionMatches
      <3> SUFFICES ASSUME Idle, core.pages # <<>>
                   PROVE  /\ [i \in 1..Len(disk.pages) |-> disk.pages[i].page] = core.pages
                          /\ disk.active = Session.active
        BY DEF IdleSessionMatches
      <3>1. Settled(build)
        BY <2>1, IdleOK DEF Idle
      <3>2. Matches(disk, core)
        BY <3>1 DEF IInv, FileFollows
      <3>3. disk.active = Session.active
        BY <3>2 DEF Matches, Session
      <3>4. [i \in 1..Len(disk.pages) |-> disk.pages[i].page] = core.pages
        <4>1. /\ Len(disk.pages) = Len(core.pages) /\ core.pages \in Seq(Nat)
              /\ \A i \in 1..Len(core.pages) : disk.pages[i].page = core.pages[i]
          BY <2>1, <3>2, CoreFacts DEF Matches
        <4>2. core.pages = [i \in 1..Len(core.pages) |-> core.pages[i]]
          BY <4>1
        <4> QED BY <4>1, <4>2
      <3> QED BY <3>3, <3>4
    <2> QED BY <2>2, <2>3, <2>4, <2>5, <2>6 DEF WindowFollowsPages
  <1> QED BY Invariance, <1>1, PTL

(* A page that loses its engine, to the limit or to a session, and a page  *)
(* that gets it back are at the URL they were at (last_url,                *)
(* unload_engines, ensure_engine_loaded).                                  *)
THEOREM GtkUnloadingKeepsUrl == Spec => UnloadingKeepsUrl
  <1> DEFINE A == up /\ up' =>
                    \A p \in Live(core) \cap Live(core') :
                       (p \in core.engine) # (p \in core'.engine) =>
                         CurrentUrl(p)' = CurrentUrl(p)
  <1>1. IInv /\ [Next]_vars => [A]_vars
    <2> SUFFICES ASSUME IInv, [Next]_vars, up, up',
                        NEW p \in Live(core) \cap Live(core'),
                        (p \in core.engine) # (p \in core'.engine)
                 PROVE  CurrentUrl(p)' = CurrentUrl(p)
      OBVIOUS
    <2>1. KeptUrls
      BY NextOK DEF StepOK
    <2>2. SameUrls(core, url, lastUrl, core', url', lastUrl')
      BY <2>1 DEF KeptUrls
    <2> QED BY <2>2 DEF SameUrls, UrlOf, CurrentUrl
  <1> QED BY Invariance, <1>1, PTL DEF Spec, UnloadingKeepsUrl

(* Until a restore is complete the session it reads stays on disk; when it *)
(* is, every tab after the active one is saved under the URL it had,       *)
(* whether or not an engine could be built for the active one              *)
(* (open_start_page_or_restored_session).                                  *)
THEOREM GtkRestoreKeepsTabs == Spec => RestoreKeepsOtherTabs
  <1> DEFINE A == restoring =>
                    \/ disk' = disk
                    \/ LET n == Len(build.rest)
                           old == Len(disk.pages) - n
                           new == Len(disk'.pages) - n
                       IN /\ ~restoring'
                          /\ n > 0 => /\ new >= 0
                                      /\ \A i \in 1..n :
                                           disk'.pages[new + i].url = disk.pages[old + i].url
  <1>1. IInv /\ [Next]_vars => [A]_vars
    <2> SUFFICES ASSUME IInv, [Next]_vars, restoring, disk' # disk
                 PROVE  LET n == Len(build.rest)
                            old == Len(disk.pages) - n
                            new == Len(disk'.pages) - n
                        IN /\ ~restoring'
                           /\ n > 0 => /\ new >= 0
                                       /\ \A i \in 1..n :
                                            disk'.pages[new + i].url = disk.pages[old + i].url
      OBVIOUS
    <2>1. Restored /\ IInv'
      BY NextOK DEF StepOK
    <2>2. LastOf(disk, build.rest)
      BY DEF IInv, FileFollows, RestoreOK
    <2>3. Len(build.rest) \in Nat /\ Len(disk'.pages) \in Nat
      <3>1. build.rest \in Seq(MaybeUrls)
        BY DEF IInv, WindowOK, BuildOK
      <3>2. disk'.pages \in Seq(Entries)
        BY <2>1 DEF IInv, FileFollows, FileOK
      <3> QED BY <3>1, <3>2, LenProperties
    <2>4. PICK r : r = build.rest
      OBVIOUS
    <2>5. PICK w : w = disk.pages
      OBVIOUS
    <2>6. PICK v : v = disk'.pages
      OBVIOUS
    <2>7. PICK n : n = Len(r)
      OBVIOUS
    <2>8. /\ ~restoring' /\ n <= Len(v) /\ n \in Nat /\ Len(v) \in Nat
          /\ \A i \in 1..n : v[Len(v) - n + i].url = r[i]
      BY <2>1, <2>3, <2>4, <2>6, <2>7 DEF Restored
    <2>9. \A i \in 1..n : r[i] = w[Len(w) - n + i].url
      BY <2>2, <2>4, <2>5, <2>7 DEF LastOf
    <2>10. Len(v) - n >= 0
      BY <2>8
    <2>11. \A i \in 1..n : v[Len(v) - n + i].url = w[Len(w) - n + i].url
      BY <2>8, <2>9
    <2> QED BY <2>4, <2>5, <2>6, <2>7, <2>8, <2>10, <2>11
  <1> QED BY Invariance, <1>1, PTL DEF Spec, RestoreKeepsOtherTabs

-----------------------------------------------------------------------------
(* The chrome around the pages (module GtkChrome), with state of its own.  *)

CONSTANTS SettingsPage, PasswordsPage, Blank, SavedLogins, MaxBookmarks

VARIABLES
  runs, pages, active, nextId, urlOf, title, label, star, bookmarks, switcher, panel,
  sensitive, text, built, script, search, query, asking, grid, picker, unlocked, known, busy

Chrome == INSTANCE GtkChrome WITH up <- runs, url <- urlOf

(* What GtkChrome assumes of its constants.                                *)
ChromeAssumed == Chrome!ChromeUrlsAssumption /\ Chrome!ChromeBoundsAssumption

Opens == {"page", "related"}

(* The types of all but what the switcher's page has.                      *)
ChromeTyped ==
  /\ {runs, label, star, switcher, panel, sensitive, built, unlocked, known} \subseteq BOOLEAN
  /\ pages \in Seq(Chrome!Ids) /\ active \in Chrome!Ids /\ nextId \in 1..MaxPages + 1
  /\ urlOf \in [Chrome!Ids -> Urls \cup {Blank}] /\ title \in [Chrome!Ids -> BOOLEAN]
  /\ {text, picker} \subseteq Urls \cup {Blank}
  /\ bookmarks \subseteq Urls \cup {Blank}
  /\ busy \in [kind : {"none", "page", "related", "switcher", "menu"},
               page : {0} \cup Chrome!Ids, url : Urls \cup {Blank},
               origin : Chrome!Origins, dismiss : BOOLEAN]

(* Those of what it has; a script runs in a webview that is there or being *)
(* built, and nothing was typed into a page whose script has not run.      *)
ChromeContent ==
  /\ {script, asking} \subseteq BOOLEAN /\ {search, query} \subseteq Urls \cup {Blank}
  /\ grid \in Seq(Chrome!Ids \X BOOLEAN)
  /\ script => built \/ busy.kind = "switcher"
  /\ ~script => search = Blank

(* Pages have ids that were given; the page being built has an id of its   *)
(* own, and is neither listed nor in front.                                *)
ChromeNumbered ==
  /\ \A p \in Chrome!Range(pages) : p < nextId
  /\ active < nextId /\ busy.page < nextId
  /\ busy.kind \in Opens => /\ busy.page \in Chrome!Ids
                            /\ busy.page \notin Chrome!Range(pages) /\ busy.page # active

(* The pages take no input only under an overlay, or one being built.      *)
ChromeInput == runs /\ ~sensitive => switcher \/ panel \/ busy.kind = "switcher"

(* A switcher that is shown has the pages or asks for them, and lists what *)
(* one of its boxes says, but while a page is opened or it is built.       *)
ChromeGrid ==
  runs /\ switcher /\ script /\ busy.kind \in {"none", "menu"}
    => (asking \/ grid = Chrome!Rows) /\ query \in {text, search}

ChromeLabel == runs /\ Chrome!Open(active) => label = title[active]

ChromeInv ==
  /\ ChromeTyped /\ ChromeContent /\ ChromeNumbered
  /\ ChromeInput /\ ChromeGrid /\ ChromeLabel

(* What the two action properties say of a step.                           *)
AloneStep == Chrome!Idle /\ runs' /\ ~Chrome!Conflict => ~Chrome!Conflict'
StarStep ==
  runs' /\ Chrome!StarTells /\ ~Chrome!StarTells' =>
    /\ active' = active /\ pages' = pages
    /\ urlOf'[active] # urlOf[active] \/ bookmarks' = bookmarks \ {urlOf[active]}

ChromeGood == ChromeInv' /\ AloneStep /\ StarStep

(* A filter of the pages.                                                  *)
LEMMA ChromeFilter ==
  ASSUME NEW s \in Seq(Chrome!Ids), NEW S
  PROVE  LET t == Chrome!Filter(s, S)
         IN /\ t \in Seq(Chrome!Ids) /\ Chrome!Range(t) = Chrome!Range(s) \cap S
            /\ t # <<>> => t[1] \in Chrome!Range(t)
  <1>2. Chrome!Filter(s, S) = Filter(s, S)
    BY DEF Chrome!Filter, Chrome!EntriesAt, Chrome!Places, Chrome!UpTo, Chrome!Cardinality,
           Filter, EntriesAt, Places, UpTo, Cardinality
  <1> DEFINE t == Filter(s, S)
  <1>3. /\ t \in Seq(Chrome!Ids) /\ Len(t) \in Nat
        /\ \A n \in 1..Len(t) : \E i \in 1..Len(s) : t[n] = s[i] /\ s[i] \in S
        /\ \A i \in 1..Len(s) : s[i] \in S => \E n \in 1..Len(t) : t[n] = s[i]
    BY FilterOK
  <1> HIDE DEF t
  <1>4. DOMAIN t = 1..Len(t) /\ DOMAIN s = 1..Len(s) /\ (t # <<>> => Len(t) # 0)
    BY <1>3
  <1>5. \A x : x \in Chrome!Range(t) <=> \E n \in 1..Len(t) : t[n] = x
    BY <1>4 DEF Chrome!Range
  <1>6. \A x : x \in Chrome!Range(s) <=> \E i \in 1..Len(s) : s[i] = x
    BY <1>4 DEF Chrome!Range
  <1>7. Chrome!Range(t) = Chrome!Range(s) \cap S
    <2>1. ASSUME NEW x \in Chrome!Range(t) PROVE x \in Chrome!Range(s) /\ x \in S
      <3>1. PICK n \in 1..Len(t) : t[n] = x
        BY <1>5, <2>1
      <3>2. PICK i \in 1..Len(s) : t[n] = s[i] /\ s[i] \in S
        BY <1>3
      <3> QED BY <1>6, <3>1, <3>2
    <2>2. ASSUME NEW x \in Chrome!Range(s), x \in S PROVE x \in Chrome!Range(t)
      <3>1. PICK i \in 1..Len(s) : s[i] = x
        BY <1>6, <2>2
      <3>2. PICK n \in 1..Len(t) : t[n] = s[i]
        BY <1>3, <2>2, <3>1
      <3> QED BY <1>5, <3>1, <3>2
    <2> QED BY <2>1, <2>2
  <1>8. t # <<>> => t[1] \in Chrome!Range(t)
    <2>1. t # <<>> => 1 \in 1..Len(t)
      BY <1>3, <1>4
    <2> QED BY <1>5, <2>1
  <1> QED BY <1>2, <1>3, <1>7, <1>8 DEF t

(* A refresh comes with the pages, the titles or the text that changed: a  *)
(* switcher that is shown then asks for the pages.                         *)
LEMMA ChromeRefreshes ==
  ASSUME ChromeInv, Chrome!RefreshSwitcher, text' \in Urls \cup {Blank},
         script => built' \/ busy'.kind = "switcher"
  PROVE  ChromeContent' /\ ChromeGrid'
  <1>1. /\ UNCHANGED <<script, search, grid>>
        /\ \/ switcher' /\ built' /\ script /\ query' = text' /\ asking' = TRUE
           \/ ~(switcher' /\ built' /\ script) /\ UNCHANGED <<query, asking>>
    BY DEF Chrome!RefreshSwitcher, Chrome!LoadAll
  <1>2. ChromeContent'
    BY <1>1 DEF ChromeInv, ChromeContent
  <1>3. ChromeGrid'
    BY <1>1 DEF ChromeInv, ChromeGrid
  <1> QED BY <1>2, <1>3

(* Without one, a switcher that is shown has what it had.                  *)
ContentKept == UNCHANGED <<script, search, query, asking, grid>>
LEMMA ChromeKeeps ==
  ASSUME ChromeInv, ContentKept,
         runs' => runs, script => built' \/ busy'.kind = "switcher",
         busy'.kind \in {"none", "menu"} =>
           /\ busy.kind \in {"none", "menu"}
           /\ switcher' => switcher
           /\ UNCHANGED <<pages, title, text>>
  PROVE  ChromeContent' /\ ChromeGrid'
  <1>1. ChromeContent'
    BY DEF ChromeInv, ChromeContent, ContentKept
  <1>2. UNCHANGED <<pages, title>> => Chrome!Rows' = Chrome!Rows
    BY DEF Chrome!Rows
  <1>3. ASSUME runs', switcher', script', busy'.kind \in {"none", "menu"}
        PROVE  (asking' \/ grid' = Chrome!Rows') /\ query' \in {text', search'}
    <2>1. /\ runs /\ switcher /\ script /\ busy.kind \in {"none", "menu"}
          /\ UNCHANGED <<script, search, query, asking, grid, text>>
          /\ Chrome!Rows' = Chrome!Rows
      BY <1>2, <1>3 DEF ContentKept
    <2>2. (asking \/ grid = Chrome!Rows) /\ query \in {text, search}
      BY <2>1 DEF ChromeInv, ChromeGrid
    <2> QED BY <2>1, <2>2
  <1>4. ChromeGrid'
    BY <1>3 DEF ChromeGrid
  <1> QED BY <1>1, <1>4

(* A script that is there has a webview, unless that is being built.       *)
LEMMA ChromeScript ==
  ASSUME ChromeInv, busy.kind # "switcher"
  PROVE  script => built
  BY DEF ChromeInv, ChromeContent

(* What the invariant says of the state's types.                           *)
LEMMA ChromeTypes ==
  ASSUME ChromeAssumed, ChromeInv
  PROVE  /\ MaxPages \in Nat \ {0} /\ Blank \notin Urls /\ StartPage \in Urls
         /\ SettingsPage \in Urls /\ PasswordsPage \in Urls
         /\ Chrome!Ids = 1..MaxPages /\ Chrome!Origins = {"click", "chord", "rpc"}
         /\ Chrome!NoHandler.kind = "none" /\ Chrome!NoHandler.page = 0
         /\ pages \in Seq(Chrome!Ids) /\ Len(pages) \in Nat
         /\ \A p : Chrome!Open(p) <=> p \in Chrome!Range(pages)
         /\ \A p : p \in Chrome!Range(pages) => p \in Chrome!Ids /\ p < nextId
         /\ active \in Chrome!Ids /\ nextId \in 1 .. MaxPages + 1
         /\ urlOf \in [Chrome!Ids -> Urls \cup {Blank}] /\ title \in [Chrome!Ids -> BOOLEAN]
         /\ text \in Urls \cup {Blank} /\ picker \in Urls \cup {Blank}
         /\ Chrome!ActiveUrl = IF active \in Chrome!Range(pages) THEN urlOf[active] ELSE Blank
         /\ Chrome!ActiveUrl \in Urls \cup {Blank} /\ bookmarks \subseteq Urls \cup {Blank}
         /\ busy \in [kind : {"none", "page", "related", "switcher", "menu"},
                     page : {0} \cup Chrome!Ids, url : Urls \cup {Blank},
                     origin : Chrome!Origins, dismiss : BOOLEAN]
  <1>1. /\ pages \in Seq(Chrome!Ids) /\ Len(pages) \in Nat
        /\ \A p : p \in Chrome!Range(pages) => p \in Chrome!Ids
    BY DEF ChromeInv, ChromeTyped, Chrome!Range
  <1>2. /\ Chrome!NoHandler.kind = "none" /\ Chrome!NoHandler.page = 0
    BY DEF Chrome!NoHandler
  <1>3. \A p : p \in Chrome!Range(pages) => p < nextId
    BY DEF ChromeInv, ChromeNumbered
  <1>4. Chrome!ActiveUrl = IF active \in Chrome!Range(pages) THEN urlOf[active] ELSE Blank
    BY DEF Chrome!ActiveUrl, Chrome!Open
  <1> QED BY <1>1, <1>2, <1>3, <1>4
          DEF ChromeInv, ChromeTyped, ChromeAssumed, Chrome!ChromeUrlsAssumption,
              Chrome!ChromeBoundsAssumption, Chrome!Ids, Chrome!Origins, Chrome!Open

(* What a handler that builds a webview leaves in busy.                    *)
LEMMA ChromeHandlerIs ==
  ASSUME ChromeAssumed, ChromeInv,
         NEW kind \in {"page", "related", "switcher", "menu"}, NEW u \in Urls \cup {Blank},
         NEW origin \in Chrome!Origins, NEW dismiss \in BOOLEAN,
         kind \in Opens => nextId <= MaxPages
  PROVE  LET h == Chrome!Handler(kind, u, origin, dismiss)
         IN /\ h \in [kind : {"none", "page", "related", "switcher", "menu"},
                      page : {0} \cup Chrome!Ids, url : Urls \cup {Blank},
                      origin : Chrome!Origins, dismiss : BOOLEAN]
            /\ h.kind = kind /\ h.url = u
            /\ h.page = IF kind \in Opens THEN nextId ELSE 0
  <1> DEFINE n == IF kind \in Opens THEN nextId ELSE 0
  <1>1. n \in {0} \cup Chrome!Ids
    BY DEF ChromeInv, ChromeTyped, Chrome!Ids, ChromeAssumed, Chrome!ChromeBoundsAssumption
  <1>2. Chrome!Handler(kind, u, origin, dismiss)
          = [kind |-> kind, page |-> n, url |-> u, origin |-> origin, dismiss |-> dismiss]
    BY DEF Chrome!Handler, Opens
  <1> HIDE DEF n
  <1>3. [kind |-> kind, page |-> n, url |-> u, origin |-> origin, dismiss |-> dismiss]
          \in [kind : {"none", "page", "related", "switcher", "menu"},
               page : {0} \cup Chrome!Ids, url : Urls \cup {Blank},
               origin : Chrome!Origins, dismiss : BOOLEAN]
    BY <1>1
  <1> QED BY <1>2, <1>3 DEF n

(* One that builds the switcher or the profile menu opens no page.         *)
LEMMA ChromePlainHandler ==
  ASSUME ChromeAssumed, ChromeInv, NEW kind \in {"switcher", "menu"},
         NEW origin \in Chrome!Origins
  PROVE  LET h == Chrome!Handler(kind, Blank, origin, FALSE)
         IN /\ h \in [kind : {"none", "page", "related", "switcher", "menu"},
                      page : {0} \cup Chrome!Ids, url : Urls \cup {Blank},
                      origin : Chrome!Origins, dismiss : BOOLEAN]
            /\ h.kind = kind /\ h.page = 0
  <1>1. ASSUME NEW dismiss \in BOOLEAN
        PROVE  LET h == [kind |-> kind, page |-> 0, url |-> Blank, origin |-> origin,
                         dismiss |-> dismiss]
               IN /\ h \in [kind : {"none", "page", "related", "switcher", "menu"},
                            page : {0} \cup Chrome!Ids, url : Urls \cup {Blank},
                            origin : Chrome!Origins, dismiss : BOOLEAN]
                  /\ h.kind = kind /\ h.page = 0
    OBVIOUS
  <1>2. Chrome!Handler(kind, Blank, origin, FALSE)
          = [kind |-> kind, page |-> 0, url |-> Blank, origin |-> origin, dismiss |-> FALSE]
    BY DEF Chrome!Handler
  <1> QED BY <1>1, <1>2, Zenon

(* A handler that will open a page takes the next id.                      *)
LEMMA ChromeTakesId ==
  ASSUME ChromeAssumed, ChromeInv, Chrome!Idle, nextId <= MaxPages,
         NEW kind \in Opens, NEW u \in Urls \cup {Blank},
         NEW origin \in Chrome!Origins, NEW dismiss \in BOOLEAN,
         busy' = Chrome!Handler(kind, u, origin, dismiss), nextId' = nextId + 1,
         pages' = pages \/ pages' = <<>>,
         UNCHANGED <<runs, active, urlOf, title, label, star, bookmarks, text, built, picker>>,
         switcher' \in BOOLEAN, panel' \in BOOLEAN, sensitive' \in BOOLEAN,
         unlocked' \in BOOLEAN, known' \in BOOLEAN
  PROVE  ChromeTyped' /\ ChromeNumbered' /\ busy'.kind = kind
  <1>1. /\ busy' \in [kind : {"none", "page", "related", "switcher", "menu"},
                      page : {0} \cup Chrome!Ids, url : Urls \cup {Blank},
                      origin : Chrome!Origins, dismiss : BOOLEAN]
        /\ busy'.kind = kind /\ busy'.url = u /\ busy'.page = nextId
    BY ChromeHandlerIs DEF Opens
  <1>2. nextId' \in 1 .. MaxPages + 1 /\ nextId \in Chrome!Ids
    BY DEF ChromeInv, ChromeTyped, Chrome!Ids, ChromeAssumed, Chrome!ChromeBoundsAssumption
  <1>3. pages' \in Seq(Chrome!Ids) /\ Chrome!Range(pages)' \subseteq Chrome!Range(pages)
    <2>1. CASE pages' = pages
      BY <2>1, ChromeTypes DEF Chrome!Range
    <2>2. CASE pages' = <<>>
      BY <2>2 DEF Chrome!Range
    <2> QED BY <2>1, <2>2
  <1>4. ChromeTyped'
    BY <1>1, <1>2, <1>3 DEF ChromeInv, ChromeTyped
  <1>5. ChromeNumbered'
    BY <1>1, <1>2, <1>3, ChromeTypes DEF ChromeInv, ChromeNumbered
  <1> QED BY <1>1, <1>4, <1>5

(* A handler is over: nothing that is listed changes.                      *)
LEMMA ChromeNoHandler ==
  ASSUME ChromeAssumed
  PROVE  /\ Chrome!NoHandler \in [kind : {"none", "page", "related", "switcher", "menu"},
                      page : {0} \cup Chrome!Ids, url : Urls \cup {Blank},
                      origin : Chrome!Origins, dismiss : BOOLEAN]
         /\ Chrome!NoHandler.kind = "none" /\ Chrome!NoHandler.page = 0
  BY DEF Chrome!NoHandler, Chrome!Origins

(* The title chip and the star say yes or no.                              *)
LEMMA ChromeRefreshed ==
  /\ Chrome!RefreshTitle => label' \in BOOLEAN
  /\ Chrome!RefreshStar => star' \in BOOLEAN
  <1>1. Chrome!RefreshTitle => label' \in BOOLEAN
    BY DEF Chrome!RefreshTitle
  <1>2. Chrome!RefreshStar => star' \in BOOLEAN
    BY Zenon DEF Chrome!RefreshStar, Chrome!Starred
  <1> QED BY <1>1, <1>2

(* A handler that will open a page: the pages it leaves are those there    *)
(* were, or none, and it may close the passwords panel.                    *)
LEMMA ChromeOpensPage ==
  ASSUME ChromeAssumed, ChromeInv, Chrome!Idle, nextId <= MaxPages,
         NEW kind \in Opens, NEW u \in Urls \cup {Blank},
         NEW origin \in Chrome!Origins, NEW dismiss \in BOOLEAN,
         busy' = Chrome!Handler(kind, u, origin, dismiss), nextId' = nextId + 1,
         pages' = pages \/ pages' = <<>>, ContentKept,
         UNCHANGED <<runs, active, urlOf, title, label, star, bookmarks, switcher, text, built,
                     picker>>,
         \/ UNCHANGED <<panel, sensitive>>
         \/ panel /\ panel' = FALSE /\ sensitive' = TRUE,
         unlocked' \in BOOLEAN, known' \in BOOLEAN
  PROVE  ChromeGood
  <1>1. ChromeTyped' /\ ChromeNumbered' /\ busy'.kind = kind
    <2>1. /\ switcher' \in BOOLEAN /\ panel' \in BOOLEAN /\ sensitive' \in BOOLEAN
      BY DEF ChromeInv, ChromeTyped
    <2> QED BY <2>1, ChromeTakesId
  <1>2. ChromeInput'
    BY ChromeTypes DEF ChromeInv, ChromeInput, Chrome!Idle
  <1>3. ChromeContent' /\ ChromeGrid'
    <2>1. script => built
      BY ChromeNoHandler, ChromeScript DEF Chrome!Idle
    <2> QED BY <1>1, <2>1, ChromeKeeps DEF Opens
  <1>4. pages' # pages => ~Chrome!Open(active)'
    BY DEF Chrome!Open, Chrome!Range
  <1>5. pages' = pages => (Chrome!Open(active)' <=> Chrome!Open(active))
    BY DEF Chrome!Open, Chrome!Range
  <1>6. ChromeLabel'
    BY <1>4, <1>5 DEF ChromeInv, ChromeLabel
  <1>7. AloneStep
    BY DEF AloneStep, Chrome!Conflict
  <1>8. StarStep
    BY <1>4, <1>5 DEF StarStep, Chrome!StarTells, Chrome!Starred
  <1> QED BY <1>1, <1>2, <1>3, <1>6, <1>7, <1>8 DEF ChromeGood, ChromeInv

(* A handler that shows a page, closing the switcher.                      *)
LEMMA ChromeShowsPage ==
  ASSUME ChromeAssumed, ChromeInv, runs,
         NEW id \in Chrome!Ids, id < nextId, busy.kind \in Opens => busy.page # id,
         Chrome!SetActive(id), Chrome!CloseSwitcher, Chrome!RefreshSwitcher,
         UNCHANGED <<runs, pages, nextId, urlOf, title, bookmarks, built, picker, busy>>,
         panel' = panel \/ panel' = FALSE,
         unlocked' \in BOOLEAN, known' \in BOOLEAN
  PROVE  ChromeGood
  <1>1. /\ active' = id /\ Chrome!RefreshTitle /\ Chrome!RefreshStar
        /\ switcher' = FALSE /\ sensitive' = TRUE /\ text' = Blank
    BY DEF Chrome!SetActive, Chrome!CloseSwitcher
  <1>2. ChromeTyped'
    BY <1>1, ChromeRefreshed DEF ChromeInv, ChromeTyped
  <1>3. ChromeNumbered'
    BY <1>1, ChromeTypes DEF ChromeInv, ChromeNumbered, Chrome!Range
  <1>4. ChromeInput' /\ AloneStep
    BY <1>1 DEF ChromeInput, AloneStep, Chrome!Conflict
  <1>5. ChromeContent' /\ ChromeGrid'
    <2>1. script => built' \/ busy'.kind = "switcher"
      BY DEF ChromeInv, ChromeContent
    <2> QED BY <1>1, <2>1, ChromeRefreshes
  <1>6. ChromeLabel'
    BY <1>1, ChromeTypes DEF ChromeLabel, Chrome!RefreshTitle, Chrome!Open, Chrome!Range
  <1>7. StarStep
    BY <1>1 DEF StarStep, Chrome!StarTells, Chrome!RefreshStar
  <1> QED BY <1>2, <1>3, <1>4, <1>5, <1>6, <1>7 DEF ChromeGood, ChromeInv

(* The process ends: nothing but up changes.                               *)
LEMMA ChromeGoneStep ==
  ASSUME ChromeInv, Chrome!Gone
  PROVE  ChromeGood
  <1>1. /\ ~runs' /\ runs' \in BOOLEAN
        /\ UNCHANGED <<pages, active, nextId, urlOf, title, label, star, bookmarks, switcher,
                      panel, sensitive, text, built, picker, unlocked, known, busy>>
        /\ ContentKept
    BY DEF Chrome!Gone, Chrome!pageVars, Chrome!toolbarVars, Chrome!overlayVars,
           Chrome!vaultVars, Chrome!contentVars, ContentKept
  <1>2. ChromeTyped'
    BY <1>1 DEF ChromeInv, ChromeTyped
  <1>3. ChromeNumbered'
    BY <1>1 DEF ChromeInv, ChromeNumbered, Chrome!Range
  <1>4. ChromeContent' /\ ChromeGrid'
    <2>1. script => built' \/ busy'.kind = "switcher"
      BY <1>1 DEF ChromeInv, ChromeContent
    <2> QED BY <1>1, <2>1, ChromeKeeps
  <1> QED BY <1>1, <1>2, <1>3, <1>4
          DEF ChromeGood, ChromeInv, ChromeInput, ChromeLabel, AloneStep, StarStep


(* switch_to: the page is shown and the switcher closes.                   *)
LEMMA ChromeSwitchStep ==
  ASSUME ChromeAssumed, ChromeInv, runs,
         NEW id \in Chrome!Ids, id < nextId, busy.kind \in Opens => busy.page # id,
         Chrome!SwitchTo(id)
  PROVE  ChromeGood
  <1>1. /\ Chrome!SetActive(id) /\ Chrome!CloseSwitcher /\ Chrome!RefreshSwitcher
        /\ UNCHANGED <<runs, pages, nextId, urlOf, title, bookmarks, built, picker, busy>>
        /\ UNCHANGED <<panel, unlocked, known>>
    BY DEF Chrome!SwitchTo, Chrome!vaultVars
  <1>2. unlocked' \in BOOLEAN /\ known' \in BOOLEAN
    BY <1>1 DEF ChromeInv, ChromeTyped
  <1> QED BY <1>1, <1>2, ChromeShowsPage

(* A page that is listed was numbered and is not the one being built.      *)
LEMMA ChromeListed ==
  ASSUME ChromeAssumed, ChromeInv, NEW id \in Chrome!Range(pages)
  PROVE  id \in Chrome!Ids /\ id < nextId /\ (busy.kind \in Opens => busy.page # id)
  BY ChromeTypes DEF ChromeInv, ChromeNumbered

(* The keys for the page to either side: both overlays stay as they are.   *)
LEMMA ChromeCycleStep ==
  ASSUME ChromeAssumed, ChromeInv, NEW step \in Nat, Chrome!StepThroughPages(step)
  PROVE  ChromeGood
  <1> DEFINE n == Len(pages)
             i == CHOOSE j \in 1..n : pages[j] = active
             k == ((i - 1 + step) % n) + 1
  <1>1. n \in Nat /\ DOMAIN pages = 1..n
    BY ChromeTypes
  <1>2. i \in 1..n
    <2>1. \E j \in 1..n : pages[j] = active
      BY <1>1 DEF Chrome!StepThroughPages, Chrome!Open, Chrome!Range
    <2> QED BY <2>1
  <1>3. /\ Chrome!SetActive(pages[k])
        /\ UNCHANGED <<runs, pages, nextId, urlOf, title, bookmarks, switcher, panel, sensitive,
                      text, built, picker, unlocked, known, busy>>
        /\ ContentKept
    BY DEF Chrome!StepThroughPages, Chrome!overlayVars, Chrome!vaultVars, Chrome!contentVars,
           ContentKept
  <1>4. k \in 1..n
    <2> HIDE DEF i, n
    <2>1. n > 0 /\ i - 1 + step \in Int
      BY <1>1, <1>2
    <2>2. (i - 1 + step) % n \in 0 .. n - 1
      BY <1>1, <2>1
    <2> QED BY <1>1, <2>2
  <1> HIDE DEF k
  <1>5. pages[k] \in Chrome!Range(pages)
    BY <1>1, <1>4 DEF Chrome!Range
  <1>6. /\ active' = pages[k] /\ Chrome!RefreshTitle /\ Chrome!RefreshStar
        /\ active' \in Chrome!Ids /\ active' < nextId
        /\ busy.kind \in Opens => busy.page # active'
    BY <1>3, <1>5, ChromeListed DEF Chrome!SetActive
  <1>7. ChromeTyped'
    BY <1>3, <1>6, ChromeRefreshed DEF ChromeInv, ChromeTyped
  <1>8. ChromeNumbered'
    BY <1>3, <1>6, ChromeTypes DEF ChromeInv, ChromeNumbered, Chrome!Range
  <1>9. ChromeInput' /\ ChromeContent' /\ ChromeGrid' /\ AloneStep
    <2>1. script => built' \/ busy'.kind = "switcher"
      BY <1>3 DEF ChromeInv, ChromeContent
    <2>2. ChromeContent' /\ ChromeGrid'
      BY <1>3, <2>1, ChromeKeeps
    <2>3. ChromeInput' /\ AloneStep
      BY <1>3 DEF ChromeInv, ChromeInput, AloneStep, Chrome!Conflict
    <2> QED BY <2>2, <2>3
  <1>10. ChromeLabel'
    <2>1. label' = (Chrome!Open(active)' /\ title'[active'])
      BY <1>6 DEF Chrome!RefreshTitle, Chrome!Open, Chrome!Range
    <2>2. title'[active'] \in BOOLEAN
      BY <1>3, <1>6, ChromeTypes
    <2> QED BY <2>1, <2>2 DEF ChromeLabel
  <1>11. StarStep
    BY <1>6 DEF StarStep, Chrome!StarTells, Chrome!RefreshStar
  <1> QED BY <1>7, <1>8, <1>9, <1>10, <1>11 DEF ChromeGood, ChromeInv

(* add_page up to its engine.                                              *)
LEMMA ChromeAddPageStep ==
  ASSUME ChromeAssumed, ChromeInv, NEW u \in Urls, NEW origin \in Chrome!Origins,
         NEW dismiss \in BOOLEAN, Chrome!AddPage(u, origin, dismiss)
  PROVE  ChromeGood
  <1>1. CASE Chrome!Gone
    BY <1>1, ChromeGoneStep
  <1>2. CASE ~Chrome!Gone
    <2>1. /\ Chrome!Idle /\ nextId <= MaxPages /\ nextId' = nextId + 1
          /\ busy' = Chrome!Handler("page", u, origin, dismiss)
          /\ UNCHANGED <<runs, pages, active, urlOf, title, label, star, bookmarks, switcher,
                        panel, sensitive, text, built, picker, unlocked, known>>
          /\ ContentKept
      BY <1>2 DEF Chrome!AddPage, Chrome!Build, Chrome!toolbarVars, Chrome!overlayVars,
                  Chrome!vaultVars, Chrome!contentVars, ContentKept
    <2>2. unlocked' \in BOOLEAN /\ known' \in BOOLEAN /\ "page" \in Opens
      BY <2>1 DEF ChromeInv, ChromeTyped, Opens
    <2> QED BY <2>1, <2>2, ChromeOpensPage
  <1> QED BY <1>1, <1>2

(* A page opened by another, up to its engine.                             *)
LEMMA ChromeRelatedStep ==
  ASSUME ChromeAssumed, ChromeInv, Chrome!AddPageRelated
  PROVE  ChromeGood
  <1>1. CASE Chrome!Gone
    BY <1>1, ChromeGoneStep
  <1>2. CASE ~Chrome!Gone
    <2>1. /\ Chrome!Idle /\ nextId <= MaxPages /\ nextId' = nextId + 1
          /\ busy' = Chrome!Handler("related", Blank, "click", FALSE)
          /\ UNCHANGED <<runs, pages, active, urlOf, title, label, star, bookmarks, switcher,
                        panel, sensitive, text, built, picker, unlocked, known>>
          /\ ContentKept
      BY <1>2 DEF Chrome!AddPageRelated, Chrome!Build, Chrome!toolbarVars,
                  Chrome!overlayVars, Chrome!vaultVars, Chrome!contentVars, ContentKept
    <2>2. /\ unlocked' \in BOOLEAN /\ known' \in BOOLEAN
          /\ "related" \in Opens /\ "click" \in Chrome!Origins
      BY <2>1 DEF ChromeInv, ChromeTyped, Opens, Chrome!Origins
    <2> QED BY <2>1, <2>2, ChromeOpensPage
  <1> QED BY <1>1, <1>2

(* open_or_focus_internal_page shows the page there is, or opens one.      *)
LEMMA ChromeInternalPageStep ==
  ASSUME ChromeAssumed, ChromeInv, runs, NEW target \in Urls, NEW origin \in Chrome!Origins,
         Chrome!OpenOrFocusInternalPage(target, origin)
  PROVE  ChromeGood
  <1> DEFINE there == Chrome!Filter(pages, {id \in Chrome!Ids : urlOf[id] = target})
  <1>1. CASE there # <<>>
    <2>1. there[1] \in Chrome!Range(pages)
      BY <1>1, ChromeFilter, ChromeTypes
    <2>2. Chrome!SwitchTo(there[1])
      BY <1>1 DEF Chrome!OpenOrFocusInternalPage
    <2> HIDE DEF there
    <2> QED BY <2>1, <2>2, ChromeListed, ChromeSwitchStep
  <1>2. CASE there = <<>>
    <2>1. Chrome!AddPage(target, origin, FALSE)
      BY <1>2 DEF Chrome!OpenOrFocusInternalPage
    <2> QED BY <2>1, ChromeAddPageStep
  <1> QED BY <1>1, <1>2

(* The vault's panel closes and its page is shown, or a page opens.        *)
LEMMA ChromeUnlockStep ==
  ASSUME ChromeAssumed, ChromeInv, Chrome!UnlockVault
  PROVE  ChromeGood
  <1> DEFINE there == Chrome!Filter(pages, {id \in Chrome!Ids : urlOf[id] = PasswordsPage})
  <1>1. CASE Chrome!Gone
    BY <1>1, ChromeGoneStep
  <1>2. CASE there # <<>>
    <2>1. there[1] \in Chrome!Range(pages)
      BY <1>2, ChromeFilter, ChromeTypes
    <2>2. /\ runs /\ unlocked' = TRUE /\ known' = TRUE /\ panel' = FALSE
          /\ UNCHANGED <<runs, pages, nextId, urlOf, title, bookmarks, built, picker, busy>>
          /\ Chrome!SetActive(there[1]) /\ Chrome!CloseSwitcher /\ Chrome!RefreshSwitcher
      BY <1>2 DEF Chrome!UnlockVault
    <2> HIDE DEF there
    <2> QED BY <2>1, <2>2, ChromeListed, ChromeShowsPage
  <1>3. CASE there = <<>> /\ ~Chrome!Gone
    <2>1. /\ Chrome!Idle /\ nextId <= MaxPages /\ nextId' = nextId + 1
          /\ busy' = Chrome!Handler("page", PasswordsPage, "click", FALSE)
          /\ UNCHANGED <<runs, pages, active, urlOf, title, label, star, bookmarks, switcher,
                        text, built, picker>>
          /\ ContentKept /\ panel /\ panel' = FALSE /\ sensitive' = TRUE
          /\ unlocked' = TRUE /\ known' = TRUE
      BY <1>3 DEF Chrome!UnlockVault, Chrome!ClosePasswords, Chrome!toolbarVars,
                  Chrome!contentVars, ContentKept
    <2>2. "page" \in Opens /\ "click" \in Chrome!Origins /\ PasswordsPage \in Urls
      BY ChromeTypes DEF Opens
    <2> QED BY <2>1, <2>2, ChromeOpensPage
  <1> QED BY <1>1, <1>2, <1>3

(* A page opens after its engine was built, or its engine could not be.    *)
LEMMA ChromeFinishPageStep ==
  ASSUME ChromeAssumed, ChromeInv, NEW ok \in BOOLEAN, Chrome!FinishPage(ok)
  PROVE  ChromeGood
  <1> DEFINE id == busy.page
  <1>1. /\ runs /\ runs' = runs /\ busy.kind \in Opens /\ busy' = Chrome!NoHandler
        /\ UNCHANGED <<nextId, bookmarks, panel, built, picker, unlocked, known>>
        /\ IF busy.dismiss THEN Chrome!CloseSwitcher ELSE UNCHANGED <<switcher, sensitive, text>>
        /\ Chrome!RefreshSwitcher
    BY DEF Chrome!FinishPage, Chrome!vaultVars, Opens
  <1>2. /\ id \in Chrome!Ids /\ busy.url \in Urls \cup {Blank} /\ id < nextId
        /\ id \notin Chrome!Range(pages) /\ id # active
        /\ pages \in Seq(Chrome!Ids)
        /\ urlOf \in [Chrome!Ids -> Urls \cup {Blank}] /\ title \in [Chrome!Ids -> BOOLEAN]
    BY <1>1, ChromeTypes DEF ChromeInv, ChromeNumbered
  <1>3. busy'.kind = "none" /\ busy'.page = 0 /\ busy'.kind \notin Opens
    BY <1>1, ChromeNoHandler DEF Opens
  <1>4. /\ {switcher', sensitive', panel', built', unlocked', known', runs'} \subseteq BOOLEAN
        /\ text' \in Urls \cup {Blank} /\ picker' \in Urls \cup {Blank}
        /\ nextId' \in 1 .. MaxPages + 1 /\ bookmarks' \subseteq Urls \cup {Blank}
        /\ busy' \in [kind : {"none", "page", "related", "switcher", "menu"},
                      page : {0} \cup Chrome!Ids, url : Urls \cup {Blank},
                      origin : Chrome!Origins, dismiss : BOOLEAN]
    BY <1>1, ChromeNoHandler DEF ChromeInv, ChromeTyped, Chrome!CloseSwitcher
  <1>5. ChromeInput' /\ ChromeContent' /\ ChromeGrid' /\ AloneStep
    <2>1. ChromeInput'
      BY <1>1, <1>3
         DEF ChromeInv, ChromeInput, Chrome!CloseSwitcher, Opens
    <2>2. ChromeContent' /\ ChromeGrid'
      <3>1. script => built'
        BY <1>1, ChromeScript DEF Opens
      <3> QED BY <1>1, <1>4, <3>1, ChromeRefreshes
    <2>3. AloneStep
      BY <1>1 DEF AloneStep, Chrome!Conflict, Chrome!CloseSwitcher
    <2> QED BY <2>1, <2>2, <2>3
  <1>6. CASE ok
    <2>1. /\ pages' = Append(pages, id)
          /\ urlOf' = [urlOf EXCEPT ![id] = busy.url]
          /\ title' = [title EXCEPT ![id] = FALSE]
          /\ IF busy.kind = "page" THEN Chrome!SetActive(id)
             ELSE UNCHANGED <<active, label, star>>
      BY <1>6 DEF Chrome!FinishPage
    <2>2. /\ pages' \in Seq(Chrome!Ids)
          /\ Chrome!Range(pages)' = Chrome!Range(pages) \cup {id}
      BY <1>2, <2>1 DEF Chrome!Range
    <2>3. /\ urlOf' \in [Chrome!Ids -> Urls \cup {Blank}] /\ title' \in [Chrome!Ids -> BOOLEAN]
          /\ \A p \in Chrome!Ids : p # id => urlOf'[p] = urlOf[p] /\ title'[p] = title[p]
      BY <1>2, <2>1
    <2> HIDE DEF id
    <2>4. /\ active' \in Chrome!Ids /\ active' < nextId
          /\ label' \in BOOLEAN /\ star' \in BOOLEAN
      BY <1>2, <2>1, ChromeTypes, ChromeRefreshed
         DEF ChromeInv, ChromeNumbered, ChromeTyped, Chrome!SetActive
    <2>5. ChromeTyped'
      BY <1>4, <2>2, <2>3, <2>4 DEF ChromeTyped
    <2>6. ChromeNumbered'
      BY <1>1, <1>2, <1>3, <2>2, <2>3, <2>4, ChromeTypes DEF ChromeInv, ChromeNumbered
    <2>7. CASE busy.kind = "page"
      <3>1. active' = id /\ Chrome!RefreshTitle /\ Chrome!RefreshStar
        BY <2>1, <2>7 DEF Chrome!SetActive
      <3>2. ChromeLabel'
        <4>1. label' = (Chrome!Open(active)' /\ title'[active'])
          BY <3>1 DEF Chrome!RefreshTitle, Chrome!Open, Chrome!Range
        <4>2. title'[active'] \in BOOLEAN
          BY <2>3, <2>4
        <4> QED BY <4>1, <4>2 DEF ChromeLabel
      <3>3. StarStep
        BY <3>1 DEF StarStep, Chrome!StarTells, Chrome!RefreshStar
      <3> QED BY <1>5, <2>5, <2>6, <3>2, <3>3 DEF ChromeGood, ChromeInv
    <2>8. CASE busy.kind # "page"
      <3>1. /\ UNCHANGED <<active, label, star, bookmarks>> /\ active # id
            /\ title'[active] = title[active] /\ urlOf'[active] = urlOf[active]
        BY <1>1, <1>2, <2>1, <2>3, <2>4, <2>8 DEF id
      <3>2. Chrome!Open(active)' <=> Chrome!Open(active)
        BY <2>2, <3>1 DEF Chrome!Open, Chrome!Range
      <3>3. ChromeLabel'
        BY <1>1, <3>1, <3>2 DEF ChromeInv, ChromeLabel
      <3>4. StarStep
        BY <3>1, <3>2 DEF StarStep, Chrome!StarTells, Chrome!Starred
      <3> QED BY <1>5, <2>5, <2>6, <3>3, <3>4 DEF ChromeGood, ChromeInv
    <2> QED BY <2>7, <2>8
  <1>7. CASE ~ok
    <2>1. UNCHANGED <<pages, urlOf, title, active, label, star>>
      BY <1>7 DEF Chrome!FinishPage
    <2>2. ChromeTyped'
      BY <1>4, <2>1 DEF ChromeInv, ChromeTyped
    <2>3. ChromeNumbered'
      BY <1>1, <1>3, <2>1, ChromeTypes DEF ChromeInv, ChromeNumbered, Chrome!Range
    <2>4. Chrome!Open(active)' <=> Chrome!Open(active)
      BY <2>1 DEF Chrome!Open, Chrome!Range
    <2>5. ChromeLabel'
      BY <1>1, <2>1, <2>4 DEF ChromeInv, ChromeLabel
    <2>6. StarStep
      BY <1>1, <2>1, <2>4 DEF StarStep, Chrome!StarTells, Chrome!Starred
    <2> QED BY <1>5, <2>2, <2>3, <2>5, <2>6 DEF ChromeGood, ChromeInv
  <1> QED BY <1>6, <1>7

(* Closing a page, and what becomes of the one in front.                   *)
LEMMA ChromeCloseStep ==
  ASSUME ChromeAssumed, ChromeInv,
         NEW id \in Chrome!Ids, NEW origin \in {"chord", "rpc"}, Chrome!ClosePage(id, origin)
  PROVE  ChromeGood
  <1> DEFINE rest == Chrome!Filter(pages, Chrome!Ids \ {id})
  <1>1. CASE Chrome!Gone
    BY <1>1, ChromeGoneStep
  <1>2. CASE /\ ~Chrome!Gone /\ id = active /\ rest = <<>>
    <2>1. /\ Chrome!Idle /\ nextId <= MaxPages /\ nextId' = nextId + 1
          /\ busy' = Chrome!Handler("page", StartPage, origin, FALSE) /\ pages' = <<>>
          /\ UNCHANGED <<runs, active, urlOf, title, label, star, bookmarks, switcher,
                        panel, sensitive, text, built, picker, unlocked, known>>
          /\ ContentKept
      BY <1>2 DEF Chrome!ClosePage, Chrome!Build, Chrome!toolbarVars, Chrome!overlayVars,
                  Chrome!vaultVars, Chrome!contentVars, ContentKept
    <2>2. /\ unlocked' \in BOOLEAN /\ known' \in BOOLEAN
          /\ "page" \in Opens /\ origin \in Chrome!Origins /\ StartPage \in Urls
      BY <2>1, ChromeTypes DEF ChromeInv, ChromeTyped, Opens
    <2> QED BY <2>1, <2>2, ChromeOpensPage
  <1>3. CASE ~Chrome!Gone /\ (id # active \/ rest # <<>>)
    <2>1. /\ pages' = rest
          /\ UNCHANGED <<runs, nextId, urlOf, title, bookmarks, switcher, panel, sensitive, text,
                        picker, unlocked, known, built, busy>>
          /\ IF id = active THEN Chrome!SetActive(rest[1]) ELSE UNCHANGED <<active, label, star>>
          /\ Chrome!RefreshSwitcher /\ runs
      BY <1>3 DEF Chrome!ClosePage, Chrome!vaultVars, Chrome!MayRun
    <2>2. /\ rest \in Seq(Chrome!Ids)
          /\ Chrome!Range(rest) = Chrome!Range(pages) \cap (Chrome!Ids \ {id})
          /\ rest # <<>> => rest[1] \in Chrome!Range(rest)
      BY ChromeFilter, ChromeTypes
    <2> HIDE DEF rest
    <2>3. /\ pages' \in Seq(Chrome!Ids)
          /\ \A p : p \in Chrome!Range(pages)' <=> p \in Chrome!Range(pages) /\ p # id
      <3>1. Chrome!Range(pages)' = Chrome!Range(rest)
        BY <2>1 DEF Chrome!Range
      <3> QED BY <2>1, <2>2, <3>1, ChromeTypes
    <2>4. ChromeInput' /\ ChromeContent' /\ ChromeGrid' /\ AloneStep
      <3>1. script => built' \/ busy'.kind = "switcher"
        BY <2>1 DEF ChromeInv, ChromeContent
      <3>2. text' \in Urls \cup {Blank}
        BY <2>1, ChromeTypes
      <3>3. ChromeContent' /\ ChromeGrid'
        BY <2>1, <3>1, <3>2, ChromeRefreshes
      <3>4. ChromeInput' /\ AloneStep
        BY <2>1 DEF ChromeInv, ChromeInput, AloneStep, Chrome!Conflict
      <3> QED BY <3>3, <3>4
    <2>5. CASE id = active
      <3>1. /\ active' = rest[1] /\ Chrome!RefreshTitle /\ Chrome!RefreshStar
            /\ active' \in Chrome!Range(pages)
        BY <1>3, <2>1, <2>2, <2>5 DEF Chrome!SetActive
      <3>2. /\ active' \in Chrome!Ids /\ active' < nextId
            /\ busy.kind \in Opens => busy.page # active'
        BY <3>1, ChromeListed
      <3>3. ChromeTyped'
        BY <2>1, <2>3, <3>1, <3>2, ChromeRefreshed DEF ChromeInv, ChromeTyped
      <3>4. ChromeNumbered'
        BY <2>1, <2>3, <3>2, ChromeTypes DEF ChromeInv, ChromeNumbered
      <3>5. ChromeLabel'
        <4>1. label' = (Chrome!Open(active)' /\ title'[active'])
          BY <3>1 DEF Chrome!RefreshTitle, Chrome!Open, Chrome!Range
        <4>2. title'[active'] \in BOOLEAN
          BY <2>1, <3>2, ChromeTypes
        <4> QED BY <4>1, <4>2 DEF ChromeLabel
      <3>6. StarStep
        BY <3>1 DEF StarStep, Chrome!StarTells, Chrome!RefreshStar
      <3> QED BY <2>4, <3>3, <3>4, <3>5, <3>6 DEF ChromeGood, ChromeInv
    <2>6. CASE id # active
      <3>1. UNCHANGED <<active, label, star>>
        BY <2>1, <2>6
      <3>2. ChromeTyped'
        BY <2>1, <2>3, <3>1 DEF ChromeInv, ChromeTyped
      <3>3. ChromeNumbered'
        BY <2>1, <2>3, <3>1, ChromeTypes DEF ChromeInv, ChromeNumbered
      <3>4. Chrome!Open(active)' <=> Chrome!Open(active)
        BY <2>3, <2>6, <3>1 DEF Chrome!Open, Chrome!Range
      <3>5. ChromeLabel' /\ StarStep
        BY <2>1, <3>1, <3>4 DEF ChromeInv, ChromeLabel, StarStep, Chrome!StarTells, Chrome!Starred
      <3> QED BY <2>4, <3>2, <3>3, <3>5 DEF ChromeGood, ChromeInv
    <2> QED BY <2>5, <2>6
  <1> QED BY <1>1, <1>2, <1>3

(* The switcher opens over the pages, at once or once it is built.         *)
LEMMA ChromeOpenSwitcherStep ==
  ASSUME ChromeAssumed, ChromeInv, NEW seed \in Urls \cup {Blank},
         NEW origin \in Chrome!Origins, Chrome!OpenSwitcher(seed, origin)
  PROVE  ChromeGood
  <1>1. /\ UNCHANGED <<runs, pages, active, nextId, urlOf, title, label, star, bookmarks,
                      built, picker, unlocked, known>>
        /\ text' = seed /\ panel' = FALSE /\ sensitive' = FALSE
        /\ \/ built /\ switcher' = TRUE /\ busy' = busy /\ Chrome!RefreshSwitcher
           \/ /\ ~built /\ Chrome!Idle /\ switcher' = switcher /\ ContentKept
              /\ busy' = Chrome!Handler("switcher", Blank, origin, FALSE)
    BY DEF Chrome!OpenSwitcher, Chrome!Build, Chrome!pageVars, Chrome!toolbarVars,
           Chrome!vaultVars, Chrome!contentVars, ContentKept
  <1>2. /\ busy' \in [kind : {"none", "page", "related", "switcher", "menu"},
                      page : {0} \cup Chrome!Ids, url : Urls \cup {Blank},
                      origin : Chrome!Origins, dismiss : BOOLEAN]
        /\ \/ busy' = busy /\ switcher' = TRUE
           \/ busy'.kind = "switcher" /\ busy'.page = 0
    <2>1. CASE built
      BY <1>1, <2>1, ChromeTypes
    <2>2. CASE ~built
      <3>1. busy' = Chrome!Handler("switcher", Blank, origin, FALSE)
        BY <1>1, <2>2
      <3> QED BY <3>1, ChromePlainHandler
    <2> QED BY <2>1, <2>2
  <1>3. ChromeTyped'
    BY <1>1, <1>2 DEF ChromeInv, ChromeTyped
  <1>4. ChromeNumbered'
    BY <1>1, <1>2, ChromeTypes DEF ChromeInv, ChromeNumbered, Opens, Chrome!Range
  <1>5. ChromeInput'
    BY <1>2 DEF ChromeInput
  <1>6. ChromeContent' /\ ChromeGrid'
    <2>1. CASE built
      <3>1. script => built' \/ busy'.kind = "switcher"
        BY <1>1, <2>1
      <3>2. Chrome!RefreshSwitcher /\ text' \in Urls \cup {Blank}
        BY <1>1, <2>1
      <3> QED BY <3>1, <3>2, ChromeRefreshes
    <2>2. CASE ~built
      <3>1. ContentKept /\ runs' = runs
        BY <1>1, <2>2
      <3>2. busy'.kind = "switcher"
        BY <1>1, <2>2, ChromePlainHandler
      <3> QED BY <3>1, <3>2, ChromeKeeps
    <2> QED BY <2>1, <2>2
  <1>7. Chrome!Open(active)' <=> Chrome!Open(active)
    BY <1>1 DEF Chrome!Open, Chrome!Range
  <1>8. ChromeLabel' /\ AloneStep /\ StarStep
    BY <1>1, <1>7
       DEF ChromeInv, ChromeLabel, AloneStep, Chrome!Conflict, StarStep, Chrome!StarTells,
             Chrome!Starred
  <1> QED BY <1>3, <1>4, <1>5, <1>6, <1>8 DEF ChromeGood, ChromeInv

(* The switcher's webview is built, or could not be: its panel shows.       *)
LEMMA ChromeFinishSwitcherStep ==
  ASSUME ChromeAssumed, ChromeInv, NEW ok \in BOOLEAN, Chrome!FinishSwitcher(ok)
  PROVE  ChromeGood
  <1>1. /\ busy.kind = "switcher" /\ busy' = Chrome!NoHandler /\ built' = ok /\ switcher' = TRUE
        /\ UNCHANGED <<runs, pages, active, nextId, urlOf, title, label, star, bookmarks, panel,
                      sensitive, text, picker, unlocked, known>>
        /\ IF ok THEN Chrome!RefreshSwitcher
           ELSE /\ script' = FALSE /\ search' = Blank /\ asking' = FALSE
                /\ UNCHANGED <<query, grid>>
    BY DEF Chrome!FinishSwitcher, Chrome!pageVars, Chrome!toolbarVars, Chrome!vaultVars
  <1>2. ChromeTyped'
    BY <1>1, ChromeNoHandler DEF ChromeInv, ChromeTyped
  <1>3. ChromeNumbered'
    BY <1>1, ChromeTypes, ChromeNoHandler DEF ChromeInv, ChromeNumbered, Opens, Chrome!Range
  <1>4. ChromeInput' /\ ChromeContent' /\ ChromeGrid'
    <2>1. ChromeInput'
      BY <1>1 DEF ChromeInput
    <2>2. CASE ok
      <3>1. text' \in Urls \cup {Blank} /\ built'
        BY <1>1, <2>2, ChromeTypes
      <3>2. Chrome!RefreshSwitcher
        BY <1>1, <2>2
      <3> QED BY <2>1, <3>1, <3>2, ChromeRefreshes
    <2>3. CASE ~ok
      <3>1. ChromeContent'
        BY <1>1, <2>3 DEF ChromeInv, ChromeContent
      <3>2. ChromeGrid'
        BY <1>1, <2>3 DEF ChromeGrid
      <3> QED BY <2>1, <3>1, <3>2
    <2> QED BY <2>2, <2>3
  <1>5. AloneStep
    BY <1>1, ChromeTypes DEF AloneStep, Chrome!Idle
  <1>6. Chrome!Open(active)' <=> Chrome!Open(active)
    BY <1>1 DEF Chrome!Open, Chrome!Range
  <1>7. ChromeLabel' /\ StarStep
    BY <1>1, <1>6 DEF ChromeInv, ChromeLabel, StarStep, Chrome!StarTells, Chrome!Starred
  <1> QED BY <1>2, <1>3, <1>4, <1>5, <1>7 DEF ChromeGood, ChromeInv

(* The profile menu: its webview is all that changes.                      *)
LEMMA ChromeMenuStep ==
  ASSUME ChromeAssumed, ChromeInv,
         \/ \E origin \in Chrome!Origins : Chrome!ShowProfileMenu(origin)
         \/ Chrome!FinishProfileMenu
  PROVE  ChromeGood
  <1>1. CASE Chrome!Gone
    BY <1>1, ChromeGoneStep
  <1>2. CASE ~Chrome!Gone
    <2>1. /\ UNCHANGED <<runs, pages, active, nextId, urlOf, title, label, star, bookmarks,
                        switcher, panel, sensitive, text, built, picker, unlocked, known>>
          /\ ContentKept
      BY <1>2 DEF Chrome!ShowProfileMenu, Chrome!FinishProfileMenu, Chrome!Build,
                  Chrome!pageVars, Chrome!toolbarVars, Chrome!overlayVars, Chrome!vaultVars,
                  Chrome!contentVars, ContentKept
    <2>2. \/ Chrome!Idle /\ \E origin \in Chrome!Origins :
                              busy' = Chrome!Handler("menu", Blank, origin, FALSE)
          \/ busy.kind = "menu" /\ busy' = Chrome!NoHandler
      BY <1>2 DEF Chrome!ShowProfileMenu, Chrome!FinishProfileMenu, Chrome!Build
    <2>3. /\ busy' \in [kind : {"none", "page", "related", "switcher", "menu"},
                        page : {0} \cup Chrome!Ids, url : Urls \cup {Blank},
                        origin : Chrome!Origins, dismiss : BOOLEAN]
          /\ busy'.kind \in {"none", "menu"} /\ busy'.page = 0
          /\ busy.kind \in {"none", "menu"}
      <3>1. ASSUME Chrome!Idle, NEW origin \in Chrome!Origins,
                   busy' = Chrome!Handler("menu", Blank, origin, FALSE)
            PROVE  /\ busy' \in [kind : {"none", "page", "related", "switcher", "menu"},
                                 page : {0} \cup Chrome!Ids, url : Urls \cup {Blank},
                                 origin : Chrome!Origins, dismiss : BOOLEAN]
                   /\ busy'.kind \in {"none", "menu"} /\ busy'.page = 0
                   /\ busy.kind \in {"none", "menu"}
        <4>1. busy.kind = "none"
          BY <3>1, ChromeNoHandler DEF Chrome!Idle
        <4> QED BY <3>1, <4>1, ChromePlainHandler
      <3>2. CASE busy.kind = "menu" /\ busy' = Chrome!NoHandler
        BY <3>2, ChromeNoHandler
      <3> QED BY <2>2, <3>1, <3>2
    <2>4. ChromeTyped'
      BY <2>1, <2>3 DEF ChromeInv, ChromeTyped
    <2>5. ChromeNumbered'
      BY <2>1, <2>3, ChromeTypes DEF ChromeInv, ChromeNumbered, Opens, Chrome!Range
    <2>6. ChromeInput' /\ ChromeContent' /\ ChromeGrid'
      <3>1. script => built'
        BY <2>1, <2>3, ChromeScript
      <3>2. ChromeContent' /\ ChromeGrid'
        BY <2>1, <2>3, <3>1, ChromeKeeps
      <3>3. ChromeInput'
        BY <2>1, <2>3 DEF ChromeInv, ChromeInput
      <3> QED BY <3>2, <3>3
    <2>7. Chrome!Open(active)' <=> Chrome!Open(active)
      BY <2>1 DEF Chrome!Open, Chrome!Range
    <2>8. ChromeLabel' /\ AloneStep /\ StarStep
      BY <2>1, <2>7
         DEF ChromeInv, ChromeLabel, AloneStep, Chrome!Conflict, StarStep, Chrome!StarTells,
             Chrome!Starred
    <2> QED BY <2>4, <2>5, <2>6, <2>8 DEF ChromeGood, ChromeInv
  <1> QED BY <1>1, <1>2

(* A page moves: only its URL changes.                                     *)
LEMMA ChromeNavigateStep ==
  ASSUME ChromeAssumed, ChromeInv,
         NEW p \in Chrome!Ids, NEW u \in Urls, Chrome!Navigate(p, u)
  PROVE  ChromeGood
  <1> USE ChromeTypes DEF Chrome!Navigate, Chrome!pageVars, Chrome!toolbarVars,
          Chrome!overlayVars, Chrome!vaultVars
  <1>1. ChromeTyped'
    BY DEF ChromeTyped, ChromeInv, ChromeNumbered
  <1>2. ChromeNumbered'
    BY DEF ChromeNumbered, ChromeInv
  <1>3. ChromeInput'
    BY DEF ChromeInput, ChromeInv
  <1>4. ChromeContent' /\ ChromeGrid'
    <2>1. script => built' \/ busy'.kind = "switcher"
      BY DEF ChromeInv, ChromeContent
    <2>2. ContentKept /\ UNCHANGED <<runs, pages, title, text, switcher, busy>>
      BY DEF Chrome!contentVars, ContentKept
    <2> QED BY <2>1, <2>2, ChromeKeeps
  <1>5. ChromeLabel'
    BY DEF ChromeLabel, ChromeInv, Chrome!Open, Chrome!Range
  <1>6. AloneStep
    BY DEF AloneStep, Chrome!Conflict, Chrome!Idle
  <1>7. StarStep
    BY DEF StarStep, Chrome!StarTells, Chrome!Starred, ChromeInv, ChromeNumbered,
           Chrome!Open, Chrome!Range
  <1> QED BY <1>1, <1>2, <1>3, <1>4, <1>5, <1>6, <1>7 DEF ChromeGood, ChromeInv

(* A page's title comes or goes.                                           *)
LEMMA ChromeTitleStep ==
  ASSUME ChromeAssumed, ChromeInv,
         NEW p \in Chrome!Ids, Chrome!TitleChanged(p)
  PROVE  ChromeGood
  <1> USE ChromeTypes DEF Chrome!TitleChanged, Chrome!pageVars,
          Chrome!toolbarVars, Chrome!overlayVars, Chrome!vaultVars
  <1>1. ChromeTyped'
    BY DEF ChromeTyped, ChromeInv, ChromeNumbered, Chrome!RefreshTitle
  <1>2. ChromeNumbered'
    BY DEF ChromeNumbered, ChromeInv, Chrome!RefreshTitle
  <1>3. ChromeInput'
    BY DEF ChromeInput, ChromeInv, Chrome!RefreshTitle
  <1>4. ChromeContent' /\ ChromeGrid'
    <2>1. script => built' \/ busy'.kind = "switcher"
      BY DEF ChromeInv, ChromeContent
    <2>2. Chrome!RefreshSwitcher /\ text' \in Urls \cup {Blank}
      OBVIOUS
    <2> QED BY <2>1, <2>2, ChromeRefreshes
  <1>5. ChromeLabel'
    BY DEF ChromeLabel, ChromeInv, Chrome!Open, Chrome!Range, Chrome!RefreshTitle
  <1>6. AloneStep
    BY DEF AloneStep, Chrome!Conflict, Chrome!Idle
  <1>7. StarStep
    BY DEF StarStep, Chrome!StarTells, Chrome!Starred, ChromeInv, ChromeNumbered,
           Chrome!Open, Chrome!Range
  <1> QED BY <1>1, <1>2, <1>3, <1>4, <1>5, <1>6, <1>7 DEF ChromeGood, ChromeInv

(* The switcher is dismissed.                                              *)
LEMMA ChromeDismissStep ==
  ASSUME ChromeAssumed, ChromeInv,
         Chrome!DismissSwitcher
  PROVE  ChromeGood
  <1> USE ChromeTypes DEF Chrome!DismissSwitcher, Chrome!CloseSwitcher,
          Chrome!pageVars, Chrome!toolbarVars, Chrome!overlayVars,
          Chrome!vaultVars
  <1>1. ChromeTyped'
    BY DEF ChromeTyped, ChromeInv, ChromeNumbered
  <1>2. ChromeNumbered'
    BY DEF ChromeNumbered, ChromeInv
  <1>3. ChromeInput'
    BY DEF ChromeInput, ChromeInv
  <1>4. ChromeContent' /\ ChromeGrid'
    <2>1. script => built' \/ busy'.kind = "switcher"
      BY DEF ChromeInv, ChromeContent
    <2>2. Chrome!RefreshSwitcher /\ text' \in Urls \cup {Blank}
      OBVIOUS
    <2> QED BY <2>1, <2>2, ChromeRefreshes
  <1>5. ChromeLabel'
    BY DEF ChromeLabel, ChromeInv, Chrome!Open, Chrome!Range
  <1>6. AloneStep
    BY DEF AloneStep, Chrome!Conflict, Chrome!Idle
  <1>7. StarStep
    BY DEF StarStep, Chrome!StarTells, Chrome!Starred, ChromeInv, ChromeNumbered,
           Chrome!Open, Chrome!Range
  <1> QED BY <1>1, <1>2, <1>3, <1>4, <1>5, <1>6, <1>7 DEF ChromeGood, ChromeInv

(* The text in the address bar.                                            *)
LEMMA ChromeTypeTextStep ==
  ASSUME ChromeAssumed, ChromeInv,
         NEW t \in Urls \cup {Blank}, Chrome!TypeText(t)
  PROVE  ChromeGood
  <1> USE ChromeTypes DEF Chrome!TypeText, Chrome!pageVars,
          Chrome!toolbarVars, Chrome!overlayVars, Chrome!vaultVars
  <1>1. ChromeTyped'
    BY DEF ChromeTyped, ChromeInv, ChromeNumbered
  <1>2. ChromeNumbered'
    BY DEF ChromeNumbered, ChromeInv
  <1>3. ChromeInput'
    BY DEF ChromeInput, ChromeInv
  <1>4. ChromeContent' /\ ChromeGrid'
    <2>1. script => built' \/ busy'.kind = "switcher"
      BY DEF ChromeInv, ChromeContent
    <2>2. Chrome!RefreshSwitcher /\ text' \in Urls \cup {Blank}
      OBVIOUS
    <2> QED BY <2>1, <2>2, ChromeRefreshes
  <1>5. ChromeLabel'
    BY DEF ChromeLabel, ChromeInv, Chrome!Open, Chrome!Range
  <1>6. AloneStep
    BY DEF AloneStep, Chrome!Conflict, Chrome!Idle
  <1>7. StarStep
    BY DEF StarStep, Chrome!StarTells, Chrome!Starred, ChromeInv, ChromeNumbered,
           Chrome!Open, Chrome!Range
  <1> QED BY <1>1, <1>2, <1>3, <1>4, <1>5, <1>6, <1>7 DEF ChromeGood, ChromeInv

(* The switcher's page: its script runs, it is searched, it is answered.   *)
LEMMA ChromeContentStep ==
  ASSUME ChromeAssumed, ChromeInv,
         \/ Chrome!PageLoads
         \/ \E t \in Urls \cup {Blank} : Chrome!PageSearches(t)
         \/ Chrome!SwitcherOpenPages
  PROVE  ChromeGood
  <1>1. /\ UNCHANGED <<runs, pages, active, nextId, urlOf, title, label, star, bookmarks, switcher,
                      panel, sensitive, text, built, picker, unlocked, known, busy>>
        /\ \/ /\ ~script /\ (built \/ busy.kind = "switcher") /\ script' = TRUE
              /\ query' = Blank /\ asking' = TRUE /\ UNCHANGED <<search, grid>>
           \/ /\ script /\ search' \in Urls \cup {Blank} /\ query' = search' /\ asking' = TRUE
              /\ UNCHANGED <<script, grid>>
           \/ /\ asking' = FALSE /\ grid' = Chrome!Rows /\ UNCHANGED <<script, search, query>>
    BY DEF Chrome!PageLoads, Chrome!PageSearches, Chrome!SwitcherOpenPages, Chrome!LoadAll,
           Chrome!pageVars, Chrome!toolbarVars, Chrome!vaultVars
  <1>2. Chrome!Rows \in Seq(Chrome!Ids \X BOOLEAN) /\ Chrome!Rows' = Chrome!Rows
    <2>1. Len(pages) \in Nat /\ \A i \in 1..Len(pages) : pages[i] \in Chrome!Ids
      BY ChromeTypes
    <2>2. title \in [Chrome!Ids -> BOOLEAN]
      BY ChromeTypes
    <2>3. \A i \in 1..Len(pages) : <<pages[i], title[pages[i]]>> \in Chrome!Ids \X BOOLEAN
      BY <2>1, <2>2
    <2>4. Chrome!Rows \in Seq(Chrome!Ids \X BOOLEAN)
      BY <2>1, <2>3 DEF Chrome!Rows
    <2> QED BY <1>1, <2>4 DEF Chrome!Rows
  <1>3. ChromeContent'
    <2>1. /\ script \in BOOLEAN /\ search \in Urls \cup {Blank} /\ query \in Urls \cup {Blank}
          /\ grid \in Seq(Chrome!Ids \X BOOLEAN)
          /\ script => built \/ busy.kind = "switcher"
          /\ ~script => search = Blank
      BY DEF ChromeInv, ChromeContent
    <2>2. asking' \in BOOLEAN /\ script' \in BOOLEAN
      BY <1>1, <2>1
    <2>3. /\ search' \in Urls \cup {Blank} /\ query' \in Urls \cup {Blank}
          /\ grid' \in Seq(Chrome!Ids \X BOOLEAN)
      BY <1>1, <1>2, <2>1
    <2>4. /\ script' => built' \/ busy'.kind = "switcher"
          /\ ~script' => search' = Blank
      BY <1>1, <2>1
    <2> QED BY <2>2, <2>3, <2>4 DEF ChromeContent
  <1>4. ChromeGrid'
    <2>1. ~script => search = Blank
      BY DEF ChromeInv, ChromeContent
    <2> QED BY <1>1, <1>2, <2>1 DEF ChromeInv, ChromeGrid
  <1>5. ChromeTyped' /\ ChromeInput'
    BY <1>1 DEF ChromeInv, ChromeTyped, ChromeInput
  <1>6. ChromeNumbered'
    BY <1>1 DEF ChromeInv, ChromeNumbered, Chrome!Range
  <1>7. Chrome!Open(active)' <=> Chrome!Open(active)
    BY <1>1 DEF Chrome!Open, Chrome!Range
  <1>8. ChromeLabel' /\ AloneStep /\ StarStep
    BY <1>1, <1>7
       DEF ChromeInv, ChromeLabel, AloneStep, Chrome!Conflict, StarStep, Chrome!StarTells,
           Chrome!Starred
  <1> QED BY <1>3, <1>4, <1>5, <1>6, <1>8 DEF ChromeGood, ChromeInv

(* The star is clicked.                                                    *)
LEMMA ChromeBookmarkStep ==
  ASSUME ChromeAssumed, ChromeInv,
         Chrome!ToggleBookmark
  PROVE  ChromeGood
  <1> USE ChromeTypes DEF Chrome!ToggleBookmark, Chrome!pageVars, Chrome!toolbarVars,
          Chrome!overlayVars, Chrome!vaultVars
  <1>1. ChromeTyped'
    <2>1. /\ UNCHANGED <<runs, pages, active, nextId, urlOf, title, label, switcher, panel,
                        sensitive, text, built, picker, unlocked, known, busy>>
          /\ Chrome!RefreshStar
      OBVIOUS
    <2>2. bookmarks' \subseteq Urls \cup {Blank}
      OBVIOUS
    <2>3. star' \in BOOLEAN
      BY <2>1, ChromeRefreshed
    <2> QED BY <2>1, <2>2, <2>3 DEF ChromeTyped, ChromeInv
  <1>2. ChromeNumbered'
    BY DEF ChromeNumbered, ChromeInv, Chrome!RefreshStar
  <1>3. ChromeInput'
    BY DEF ChromeInput, ChromeInv, Chrome!RefreshStar
  <1>4. ChromeContent' /\ ChromeGrid'
    <2>1. script => built' \/ busy'.kind = "switcher"
      BY DEF ChromeInv, ChromeContent
    <2>2. ContentKept /\ UNCHANGED <<runs, pages, title, text, switcher, busy>>
      BY DEF Chrome!contentVars, ContentKept
    <2> QED BY <2>1, <2>2, ChromeKeeps
  <1>5. ChromeLabel'
    BY DEF ChromeLabel, ChromeInv, Chrome!Open, Chrome!Range, Chrome!RefreshStar
  <1>6. AloneStep
    BY DEF AloneStep, Chrome!Conflict, Chrome!Idle
  <1>7. StarStep
    BY DEF StarStep, Chrome!StarTells, Chrome!Starred, ChromeInv, ChromeNumbered,
           Chrome!Open, Chrome!Range, Chrome!RefreshStar
  <1> QED BY <1>1, <1>2, <1>3, <1>4, <1>5, <1>6, <1>7 DEF ChromeGood, ChromeInv

(* The switcher's page removes a bookmark.                                 *)
LEMMA ChromeRemoveBookmarkStep ==
  ASSUME ChromeAssumed, ChromeInv,
         NEW u \in Urls \cup {Blank}, Chrome!RemoveBookmark(u)
  PROVE  ChromeGood
  <1> USE ChromeTypes DEF Chrome!RemoveBookmark, Chrome!MayRun, Chrome!pageVars,
          Chrome!toolbarVars, Chrome!overlayVars, Chrome!vaultVars
  <1>1. ChromeTyped'
    BY DEF ChromeTyped, ChromeInv, ChromeNumbered
  <1>2. ChromeNumbered'
    BY DEF ChromeNumbered, ChromeInv
  <1>3. ChromeInput'
    BY DEF ChromeInput, ChromeInv
  <1>4. ChromeContent' /\ ChromeGrid'
    <2>1. script => built' \/ busy'.kind = "switcher"
      BY DEF ChromeInv, ChromeContent
    <2>2. ContentKept /\ UNCHANGED <<runs, pages, title, text, switcher, busy>>
      BY DEF Chrome!contentVars, ContentKept
    <2> QED BY <2>1, <2>2, ChromeKeeps
  <1>5. ChromeLabel'
    BY DEF ChromeLabel, ChromeInv, Chrome!Open, Chrome!Range
  <1>6. AloneStep
    BY DEF AloneStep, Chrome!Conflict, Chrome!Idle
  <1>7. StarStep
    BY DEF StarStep, Chrome!StarTells, Chrome!Starred, ChromeInv, ChromeNumbered,
           Chrome!Open, Chrome!Range
  <1> QED BY <1>1, <1>2, <1>3, <1>4, <1>5, <1>6, <1>7 DEF ChromeGood, ChromeInv

(* The passwords panel opens, or a login is filled in.                     *)
LEMMA ChromeOpenPasswordsStep ==
  ASSUME ChromeAssumed, ChromeInv,
         Chrome!OpenPasswords
  PROVE  ChromeGood
  <1> USE ChromeTypes DEF Chrome!OpenPasswords, Chrome!FillCredentials,
          Chrome!pageVars, Chrome!toolbarVars, Chrome!overlayVars,
          Chrome!vaultVars
  <1>1. ChromeTyped'
    BY DEF ChromeTyped, ChromeInv, ChromeNumbered
  <1>2. ChromeNumbered'
    BY DEF ChromeNumbered, ChromeInv
  <1>3. ChromeInput'
    BY DEF ChromeInput, ChromeInv
  <1>4. ChromeContent' /\ ChromeGrid'
    <2>1. script => built' \/ busy'.kind = "switcher"
      BY DEF ChromeInv, ChromeContent
    <2>2. Chrome!RefreshSwitcher /\ text' \in Urls \cup {Blank}
      OBVIOUS
    <2> QED BY <2>1, <2>2, ChromeRefreshes
  <1>5. ChromeLabel'
    BY DEF ChromeLabel, ChromeInv, Chrome!Open, Chrome!Range
  <1>6. AloneStep
    BY DEF AloneStep, Chrome!Conflict, Chrome!Idle
  <1>7. StarStep
    BY DEF StarStep, Chrome!StarTells, Chrome!Starred, ChromeInv, ChromeNumbered,
           Chrome!Open, Chrome!Range
  <1> QED BY <1>1, <1>2, <1>3, <1>4, <1>5, <1>6, <1>7 DEF ChromeGood, ChromeInv

(* The passwords panel is dismissed.                                       *)
LEMMA ChromeDismissPasswordsStep ==
  ASSUME ChromeAssumed, ChromeInv,
         Chrome!DismissPasswords
  PROVE  ChromeGood
  <1> USE ChromeTypes DEF Chrome!DismissPasswords, Chrome!ClosePasswords,
          Chrome!pageVars, Chrome!toolbarVars, Chrome!overlayVars, Chrome!vaultVars
  <1>1. ChromeTyped'
    BY DEF ChromeTyped, ChromeInv, ChromeNumbered
  <1>2. ChromeNumbered'
    BY DEF ChromeNumbered, ChromeInv
  <1>3. ChromeInput'
    BY DEF ChromeInput, ChromeInv
  <1>4. ChromeContent' /\ ChromeGrid'
    <2>1. script => built' \/ busy'.kind = "switcher"
      BY DEF ChromeInv, ChromeContent
    <2>2. ContentKept /\ UNCHANGED <<runs, pages, title, text, switcher, busy>>
      BY DEF Chrome!contentVars, ContentKept
    <2> QED BY <2>1, <2>2, ChromeKeeps
  <1>5. ChromeLabel'
    BY DEF ChromeLabel, ChromeInv, Chrome!Open, Chrome!Range
  <1>6. AloneStep
    BY DEF AloneStep, Chrome!Conflict, Chrome!Idle
  <1>7. StarStep
    BY DEF StarStep, Chrome!StarTells, Chrome!Starred, ChromeInv, ChromeNumbered,
           Chrome!Open, Chrome!Range
  <1> QED BY <1>1, <1>2, <1>3, <1>4, <1>5, <1>6, <1>7 DEF ChromeGood, ChromeInv

(* The credential picker is dismissed.                                     *)
LEMMA ChromeDismissPickerStep ==
  ASSUME ChromeAssumed, ChromeInv,
         Chrome!DismissPicker
  PROVE  ChromeGood
  <1> USE ChromeTypes DEF Chrome!DismissPicker, Chrome!pageVars, Chrome!toolbarVars,
          Chrome!overlayVars, Chrome!vaultVars
  <1>1. ChromeTyped'
    BY DEF ChromeTyped, ChromeInv, ChromeNumbered
  <1>2. ChromeNumbered'
    BY DEF ChromeNumbered, ChromeInv
  <1>3. ChromeInput'
    BY DEF ChromeInput, ChromeInv
  <1>4. ChromeContent' /\ ChromeGrid'
    <2>1. script => built' \/ busy'.kind = "switcher"
      BY DEF ChromeInv, ChromeContent
    <2>2. ContentKept /\ UNCHANGED <<runs, pages, title, text, switcher, busy>>
      BY DEF Chrome!contentVars, ContentKept
    <2> QED BY <2>1, <2>2, ChromeKeeps
  <1>5. ChromeLabel'
    BY DEF ChromeLabel, ChromeInv, Chrome!Open, Chrome!Range
  <1>6. AloneStep
    BY DEF AloneStep, Chrome!Conflict, Chrome!Idle
  <1>7. StarStep
    BY DEF StarStep, Chrome!StarTells, Chrome!Starred, ChromeInv, ChromeNumbered,
           Chrome!Open, Chrome!Range
  <1> QED BY <1>1, <1>2, <1>3, <1>4, <1>5, <1>6, <1>7 DEF ChromeGood, ChromeInv

(* Every step, and one that changes nothing.                               *)
LEMMA ChromeStep ==
  ASSUME ChromeAssumed, ChromeInv, [Chrome!Next]_Chrome!vars
  PROVE  ChromeGood
  <1>1. CASE Chrome!PageNext
    <2>1. ASSUME NEW id \in Chrome!Ids, Chrome!SwitchFromPage(id) PROVE ChromeGood
      BY <2>1, ChromeSwitchStep DEF Chrome!SwitchFromPage, Chrome!MayRun
    <2>2. ASSUME NEW id \in Chrome!Ids, NEW origin \in {"chord", "rpc"},
                 Chrome!ClosePage(id, origin)
          PROVE  ChromeGood
      BY <2>2, ChromeCloseStep
    <2>3. CASE Chrome!SwitchToNextPage
      <3>1. 1 \in Nat
        OBVIOUS
      <3> QED BY <2>3, <3>1, ChromeCycleStep DEF Chrome!SwitchToNextPage
    <2>4. CASE Chrome!SwitchToPreviousPage
      <3>1. Len(pages) - 1 \in Nat
        <4>1. active \in Chrome!Range(pages)
          BY <2>4 DEF Chrome!SwitchToPreviousPage, Chrome!StepThroughPages, Chrome!Open
        <4>2. Len(pages) # 0
          BY <4>1, ChromeTypes DEF Chrome!Range
        <4> QED BY <4>2, ChromeTypes
      <3> QED BY <2>4, <3>1, ChromeCycleStep DEF Chrome!SwitchToPreviousPage
    <2>5. CASE \E origin \in {"chord", "rpc"} : Chrome!OpenSettings(origin)
      BY <2>5, ChromeTypes, ChromeInternalPageStep DEF Chrome!OpenSettings, Chrome!MayRun
    <2>6. CASE Chrome!OpenPasswordsPage
      BY <2>6, ChromeTypes, ChromeInternalPageStep DEF Chrome!OpenPasswordsPage, Chrome!MayRun
    <2> QED BY <1>1, <2>1, <2>2, <2>3, <2>4, <2>5, <2>6, ChromeRelatedStep,
               ChromeFinishPageStep, ChromeNavigateStep, ChromeTitleStep DEF Chrome!PageNext
  <1>2. CASE Chrome!SwitcherNext
    <2>1. ASSUME NEW seed, NEW origin, Chrome!OpenSwitcher(seed, origin),
                 seed = Blank \/ seed = Chrome!ActiveUrl, origin \in {"click", "chord"}
          PROVE  ChromeGood
      BY <2>1, ChromeTypes, ChromeOpenSwitcherStep
    <2>2. CASE Chrome!ToggleSwitcher \/ Chrome!TitleChipClicked \/ Chrome!SwitcherKeyPressed
      BY <2>1, <2>2
         DEF Chrome!ToggleSwitcher, Chrome!TitleChipClicked, Chrome!SwitcherKeyPressed
    <2>3. CASE Chrome!OpenSwitcherNested
      BY <2>3, ChromeGoneStep DEF Chrome!OpenSwitcherNested
    <2>4. CASE Chrome!AddressActivated \/ Chrome!AddressKeyPressed
      <3>1. CASE runs /\ text # Blank /\ Chrome!AddPage(text, "click", TRUE)
        BY <3>1, ChromeTypes, ChromeAddPageStep
      <3>2. CASE runs /\ Len(Chrome!Matching) = 1 /\ Chrome!SwitchTo(Chrome!Matching[1])
        <4>1. Chrome!Matching # <<>>
          BY <3>2
        <4>2. Chrome!Matching[1] \in Chrome!Range(pages)
          BY <4>1, ChromeTypes, ChromeFilter DEF Chrome!Matching
        <4> QED BY <3>2, <4>2, ChromeListed, ChromeSwitchStep
      <3> QED BY <2>4, <3>1, <3>2
              DEF Chrome!AddressActivated, Chrome!AddressKeyPressed, Chrome!ForceNewPageFromSearch
    <2> QED BY <1>2, <2>2, <2>3, <2>4, ChromeFinishSwitcherStep, ChromeDismissStep,
               ChromeTypeTextStep, ChromeContentStep DEF Chrome!SwitcherNext
  <1>3. CASE Chrome!ToolbarNext
    <2>1. CASE \E origin \in {"click", "chord"} : Chrome!ShowProfileMenu(origin)
      BY <2>1, ChromeMenuStep DEF Chrome!Origins
    <2>2. CASE Chrome!SetBindings
      BY <2>2, ChromeGoneStep DEF Chrome!SetBindings
    <2> QED BY <1>3, <2>1, <2>2, ChromeBookmarkStep, ChromeRemoveBookmarkStep, ChromeMenuStep
            DEF Chrome!ToolbarNext
  <1>4. CASE Chrome!VaultNext
    BY <1>4, ChromeOpenPasswordsStep, ChromeDismissPasswordsStep, ChromeUnlockStep,
       ChromeDismissPickerStep DEF Chrome!VaultNext, Chrome!PasswordsClicked
  <1>5. CASE Chrome!Quit
    BY <1>5, ChromeGoneStep DEF Chrome!Quit
  <1>6. CASE UNCHANGED Chrome!vars
    <2>1. /\ UNCHANGED <<runs, pages, active, nextId, urlOf, title, label, star, bookmarks,
                        switcher, panel, sensitive, text, built, picker, unlocked, known, busy>>
          /\ ContentKept
      BY <1>6 DEF Chrome!vars, Chrome!pageVars, Chrome!toolbarVars, Chrome!overlayVars,
                  Chrome!vaultVars, Chrome!contentVars, ContentKept
    <2>2. ChromeTyped'
      BY <2>1 DEF ChromeInv, ChromeTyped
    <2>3. ChromeNumbered' /\ ChromeInput' /\ ChromeContent' /\ ChromeGrid'
      <3>1. script => built' \/ busy'.kind = "switcher"
        BY <2>1 DEF ChromeInv, ChromeContent
      <3>2. ChromeContent' /\ ChromeGrid'
        BY <2>1, <3>1, ChromeKeeps
      <3>3. ChromeNumbered' /\ ChromeInput'
        BY <2>1 DEF ChromeInv, ChromeNumbered, ChromeInput, Chrome!Range
      <3> QED BY <3>2, <3>3
    <2>4. Chrome!Open(active)' <=> Chrome!Open(active)
      BY <2>1 DEF Chrome!Open, Chrome!Range
    <2>5. ChromeLabel' /\ AloneStep /\ StarStep
      BY <2>1, <2>4
         DEF ChromeInv, ChromeLabel, AloneStep, Chrome!Conflict, StarStep, Chrome!StarTells,
             Chrome!Starred
    <2> QED BY <2>2, <2>3, <2>5 DEF ChromeGood, ChromeInv
  <1> QED BY <1>1, <1>2, <1>3, <1>4, <1>5, <1>6 DEF Chrome!Next

(* One page, in front, with the start page.                                *)
LEMMA ChromeInitially ==
  ASSUME ChromeAssumed, Chrome!Init
  PROVE  ChromeInv
  <1>1. /\ runs = TRUE /\ pages = <<1>> /\ active = 1 /\ nextId = 2
        /\ urlOf = [p \in Chrome!Ids |-> IF p = 1 THEN StartPage ELSE Blank]
        /\ title = [p \in Chrome!Ids |-> FALSE]
        /\ label = FALSE /\ star = FALSE /\ bookmarks = {}
        /\ switcher = FALSE /\ panel = FALSE /\ sensitive = TRUE
        /\ text = Blank /\ picker = Blank /\ built = FALSE
        /\ unlocked = FALSE /\ known \in BOOLEAN /\ busy = Chrome!NoHandler
        /\ script = FALSE /\ search = Blank /\ query = Blank /\ asking = FALSE /\ grid = <<>>
    BY DEF Chrome!Init
  <1>2. /\ StartPage \in Urls /\ MaxPages \in Nat \ {0} /\ 1 \in Chrome!Ids
        /\ Chrome!Ids = 1..MaxPages
    BY DEF ChromeAssumed, Chrome!ChromeUrlsAssumption, Chrome!ChromeBoundsAssumption, Chrome!Ids
  <1>3. pages \in Seq(Chrome!Ids) /\ Chrome!Range(pages) = {1}
    BY <1>1, <1>2 DEF Chrome!Range
  <1>4. busy \in [kind : {"none", "page", "related", "switcher", "menu"},
                  page : {0} \cup Chrome!Ids, url : Urls \cup {Blank},
                  origin : Chrome!Origins, dismiss : BOOLEAN]
        /\ busy.kind \notin Opens /\ busy.page = 0
    BY <1>1, ChromeNoHandler DEF Opens
  <1>5. ChromeTyped
    <2>1. urlOf \in [Chrome!Ids -> Urls \cup {Blank}] /\ title \in [Chrome!Ids -> BOOLEAN]
      BY <1>1, <1>2
    <2>2. /\ active \in Chrome!Ids /\ nextId \in 1 .. MaxPages + 1
          /\ bookmarks \subseteq Urls \cup {Blank}
      BY <1>1, <1>2
    <2>3. {runs, label, star, switcher, panel, sensitive, built, unlocked, known} \subseteq BOOLEAN
      BY <1>1
    <2>4. {text, picker} \subseteq Urls \cup {Blank}
      BY <1>1
    <2> QED BY <1>3, <1>4, <2>1, <2>2, <2>3, <2>4 DEF ChromeTyped
  <1>6. ChromeNumbered
    BY <1>1, <1>2, <1>3, <1>4 DEF ChromeNumbered
  <1>7. ChromeInput /\ ChromeGrid /\ ChromeLabel /\ ChromeContent
    <2>1. <<>> \in Seq(Chrome!Ids \X BOOLEAN)
      OBVIOUS
    <2> QED BY <1>1, <1>2, <2>1 DEF ChromeInput, ChromeGrid, ChromeLabel, ChromeContent
  <1> QED BY <1>5, <1>6, <1>7 DEF ChromeInv

(* The invariant holds in every state: whatever handlers ran inside which  *)
(* builds, a page being opened has an id of its own, and no suspended      *)
(* handler leaves the stack, the grid or the chip behind.                  *)
THEOREM ChromeInductive ==
  ASSUME ChromeAssumed
  PROVE  Chrome!Spec => []ChromeInv
  <1>1. Chrome!Init => ChromeInv
    BY ChromeInitially
  <1>2. ChromeInv /\ [Chrome!Next]_Chrome!vars => ChromeInv'
    BY ChromeStep DEF ChromeGood
  <1> QED BY <1>1, <1>2, PTL DEF Chrome!Spec

(* Every variable of the chrome has its type.                              *)
THEOREM ChromeTypesCorrect ==
  ASSUME ChromeAssumed
  PROVE  Chrome!Spec => []Chrome!TypeOK
  <1>1. ChromeInv => Chrome!TypeOK
    BY DEF ChromeInv, ChromeTyped, ChromeContent, Chrome!TypeOK
  <1> QED BY <1>1, ChromeInductive, PTL

(* Once no handler is suspended, pages that take no input are under the    *)
(* switcher or the passwords panel, which the user can dismiss.            *)
THEOREM ChromeTakesInput ==
  ASSUME ChromeAssumed
  PROVE  Chrome!Spec => []Chrome!NeverLeftInsensitive
  <1>1. ChromeInv => Chrome!NeverLeftInsensitive
    BY ChromeNoHandler DEF ChromeInv, ChromeInput, Chrome!NeverLeftInsensitive, Chrome!Idle
  <1> QED BY <1>1, ChromeInductive, PTL

(* The title chip and the switcher show the titles that the pages have,    *)
(* however the handlers were nested.                                       *)
THEOREM ChromeTitlesAreLive ==
  ASSUME ChromeAssumed
  PROVE  Chrome!Spec => []Chrome!TitlesAreLive
  <1>1. ChromeInv => Chrome!TitlesAreLive
    BY ChromeNoHandler
       DEF ChromeInv, ChromeGrid, ChromeLabel, Chrome!TitlesAreLive, Chrome!GridIsLive,
           Chrome!Idle
  <1> QED BY <1>1, ChromeInductive, PTL

(* A handler that is not run inside another never leaves the switcher over *)
(* pages that take input, or next to the passwords panel.                  *)
THEOREM ChromeAloneNoConflict ==
  ASSUME ChromeAssumed
  PROVE  Chrome!Spec => Chrome!AloneNoConflict
  <1>1. ChromeInv /\ [Chrome!Next]_Chrome!vars
          => [Chrome!Idle /\ runs' /\ ~Chrome!Conflict => ~Chrome!Conflict']_Chrome!vars
    BY ChromeStep DEF ChromeGood, AloneStep
  <1> QED BY <1>1, ChromeInductive, PTL DEF Chrome!Spec, Chrome!AloneNoConflict

(* The star goes out of date only when the active page navigates or the    *)
(* switcher's page removes its bookmark.                                   *)
THEOREM ChromeStarTells ==
  ASSUME ChromeAssumed
  PROVE  Chrome!Spec => Chrome!StarOutdatedByMoves
  <1>1. ChromeInv /\ [Chrome!Next]_Chrome!vars
          => [runs' /\ Chrome!StarTells /\ ~Chrome!StarTells' =>
                /\ active' = active /\ pages' = pages
                /\ \/ urlOf'[active] # urlOf[active]
                   \/ bookmarks' = bookmarks \ {urlOf[active]}]_Chrome!vars
    BY ChromeStep DEF ChromeGood, StarStep
  <1> QED BY <1>1, ChromeInductive, PTL DEF Chrome!Spec, Chrome!StarOutdatedByMoves
===============================================================================
