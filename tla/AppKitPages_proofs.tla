-------------------------- MODULE AppKitPages_proofs --------------------------
(***************************************************************************)
(* Proofs about AppKitPages, for any URLs and limits and any number of     *)
(* pages: engines, containers and the page in front agree after every      *)
(* handler, whatever fails to build, and the handlers implement Tabs, so   *)
(* that the session file is right at whatever moment the process dies.     *)
(* After them the panels (AppKitOverlays): a click does what they show.    *)
(***************************************************************************)
EXTENDS AppKitPages, PageManagerOps_proofs

-----------------------------------------------------------------------------
(* The inductive invariant, by what it is about.                           *)

(* The core: ids are given once each, and no page without one.             *)
CoreOK(c) ==
  /\ Consistent(c)
  /\ c.limit \in Limits /\ c.next_id <= MaxPages
  /\ Len(c.pages) <= c.next_id

(* Containers k and visible ones v of a core.                              *)
ViewsOK(c, k, v) ==
  /\ v \subseteq k /\ k \subseteq Live(c)
  /\ c.engine \subseteq c.loaded \cap k
  /\ c.active \in c.engine => c.active \in v

MaybeUrls == Urls \cup {NoUrl}
UrlsOK(u) == u \in [Ids -> MaybeUrls]

(* A session file.                                                         *)
FileOK(f) ==
  /\ f.pages \in Seq([page : Ids, url : MaybeUrls])
  /\ Len(f.pages) <= MaxPages
  /\ f.active \in 0 .. Len(f.pages)

ProfileOK ==
  /\ process \in {"none", "chooser", "prompt", "window"}
  /\ history \subseteq MaybeUrls
  /\ sealed \in {"absent", "plain", "encrypted"} /\ marked \in BOOLEAN
  /\ stray \in BOOLEAN /\ restoring \in BOOLEAN /\ failed \in BOOLEAN

(* There are ids left for the pages that a restore has still to open.      *)
PlanOK ==
  /\ plan \in Seq(MaybeUrls)
  /\ restoring => core.next_id + Len(plan) <= MaxPages

(* No page is there before the window.                                     *)
DownOK == ~Up => core.next_id = 0 /\ ~restoring

(* What the tabs of a core, and of a file, are to Tabs.                    *)
TabsOf(c) ==
  [tabs  |-> c.pages,
   front |-> IF \E i \in 1..Len(c.pages) : c.pages[i] = c.active
             THEN CHOOSE i \in 1..Len(c.pages) : c.pages[i] = c.active
             ELSE 0]
FileTabs(f) ==
  [tabs |-> [i \in 1..Len(f.pages) |-> f.pages[i].page], front |-> f.active]

(* But during a restore, the file is up to date after every handler.       *)
Saved == Ready => FileTabs(disk) = TabsOf(core)

IInv ==
  /\ ProfileOK /\ CoreOK(core) /\ UrlsOK(url) /\ ViewsOK(core, containers, visible)
  /\ FileOK(disk) /\ PlanOK /\ DownOK /\ Saved

-----------------------------------------------------------------------------
(* The parts of the handlers.                                              *)

(* The part of a core that has a limit and ids left.                       *)
LEMMA CoreFacts ==
  ASSUME NEW c, CoreOK(c)
  PROVE  /\ Consistent(c) /\ c.pages \in Seq(Nat) /\ Len(c.pages) \in Nat /\ c.next_id \in Nat
         /\ c.active \in Nat \cup {NoPage} /\ c.loaded \subseteq Live(c)
         /\ c.engine \subseteq Live(c) /\ Live(c) \subseteq Ids /\ Live(c) \subseteq Nat
         /\ c.limit \in Nat \cup {Unlimited}
         /\ Live(c) \subseteq 0 .. c.next_id - 1 /\ c.next_id \notin Live(c)
         /\ MaxPages \in Nat \ {0}
  <1>1. /\ c.pages \in Seq(Nat) /\ c.next_id \in Nat /\ Live(c) \subseteq 0 .. c.next_id - 1
        /\ c.active \in Nat \cup {NoPage} /\ c.limit \in Nat \cup {Unlimited}
        /\ c.loaded \subseteq Live(c) /\ c.engine \subseteq Live(c) /\ Consistent(c)
        /\ c.next_id <= MaxPages
    BY DEF CoreOK, Consistent, CoreTypeOK, IdsUnique
  <1>2. Len(c.pages) \in Nat
    BY <1>1, LenProperties
  <1> QED BY <1>1, <1>2, AppKitBoundAssumption DEF Ids

(* enforce_loaded_limit and unload_engines: pages stay, engines that are   *)
(* left have their page loaded, and the page in front keeps its own.       *)
LEMMA UnloadedOK ==
  ASSUME NEW c, CoreOK(c)
  PROVE  LET d == Unload(Enforced(c), Evicted(c))
         IN /\ CoreOK(d) /\ Live(d) = Live(c)
            /\ d.engine = c.engine \ Evicted(c) /\ d.loaded = c.loaded \ Evicted(c)
            /\ d.pages = c.pages /\ d.active = c.active /\ d.next_id = c.next_id
            /\ d.limit = c.limit
            /\ c.active \notin Evicted(c)
  <1> DEFINE e == Enforced(c)
             d == Unload(e, Evicted(c))
  <1>1. /\ Consistent(e) /\ Live(e) = Live(c) /\ e.loaded = c.loaded \ Evicted(c)
        /\ \A f \in Fields \ {"loaded"} : e[f] = c[f]
    BY EnforcedOK DEF CoreOK
  <1> HIDE DEF e
  <1>2. /\ Consistent(d) /\ Live(d) = Live(e) /\ d.engine = e.engine \ Evicted(c)
        /\ \A f \in Fields \ {"engine"} : d[f] = e[f]
    BY <1>1, EnginesDroppedOK DEF Unload
  <1> HIDE DEF d
  <1>3. /\ d.loaded = e.loaded /\ d.pages = c.pages /\ d.active = c.active
        /\ d.next_id = c.next_id /\ d.limit = c.limit /\ d.engine = c.engine \ Evicted(c)
    BY <1>1, <1>2 DEF Fields
  <1>4. c.active \notin Evicted(c)
    BY DEF Evicted, Candidates
  <1> QED BY <1>1, <1>2, <1>3, <1>4 DEF CoreOK, d, e

(* set_active with the page's container shown alone.                       *)
LEMMA ShowOK ==
  ASSUME NEW c, NEW k, NEW id, CoreOK(c), k \subseteq Live(c), id \in Live(c),
         c.engine \subseteq (c.loaded \cup {id}) \cap k, Show(c, k, id)
  PROVE  /\ CoreOK(core') /\ ViewsOK(core', containers', visible')
         /\ core'.pages = c.pages /\ core'.active = id /\ core'.next_id = c.next_id
         /\ core'.limit = c.limit /\ Live(core') = Live(c)
  <1>1. id \in Nat
    BY CoreFacts
  <1>2. /\ Consistent(core') /\ Live(core') = Live(c) /\ core'.active = id
        /\ core'.loaded = c.loaded \cup ({id} \cap Live(c))
        /\ \A f \in {"pages", "engine", "limit", "next_id"} : core'[f] = c[f]
    BY SMTT(30), <1>1, SetActiveOK DEF Show, CoreOK
  <1>3. /\ core'.pages = c.pages /\ core'.engine = c.engine /\ core'.limit = c.limit
        /\ core'.next_id = c.next_id
    BY <1>2
  <1>4. CoreOK(core')
    BY <1>2, <1>3 DEF CoreOK
  <1>5. containers' = k /\ visible' = k \cap {id}
    BY DEF Show
  <1>6. ViewsOK(core', containers', visible')
    BY <1>2, <1>3, <1>5 DEF ViewsOK
  <1> QED BY <1>2, <1>3, <1>4, <1>6

(* allocate_id.                                                            *)
LEMMA AllocatedOK ==
  ASSUME NEW c, CoreOK(c), c.next_id < MaxPages
  PROVE  LET a == AllocateId(c)
         IN /\ CoreOK(a) /\ Live(a) = Live(c) /\ a.next_id = c.next_id + 1
            /\ a.pages = c.pages /\ a.active = c.active /\ a.limit = c.limit
            /\ a.loaded = c.loaded /\ a.engine = c.engine
  <1> DEFINE a == AllocateId(c)
  <1>1. /\ Consistent(a) /\ a.next_id = c.next_id + 1 /\ Live(a) = Live(c)
        /\ \A f \in Fields \ {"next_id"} : a[f] = c[f]
    BY AllocateOK DEF CoreOK
  <1> HIDE DEF a
  <1>2. /\ a.pages = c.pages /\ a.active = c.active /\ a.limit = c.limit
        /\ a.loaded = c.loaded /\ a.engine = c.engine
    BY <1>1 DEF Fields
  <1>3. c.next_id \in Nat /\ Len(c.pages) \in Nat /\ MaxPages \in Nat
    BY CoreFacts
  <1>4. CoreOK(a)
    BY <1>1, <1>2, <1>3 DEF CoreOK
  <1> QED BY <1>1, <1>2, <1>4 DEF a

(* allocate_id, then insert or insert_background up to the enforcement.    *)
LEMMA GrownOK ==
  ASSUME NEW c, CoreOK(c), c.next_id < MaxPages,
         NEW d \in {Inserted(AllocateId(c), c.next_id),
                    InsertedBackground(AllocateId(c), c.next_id)}
  PROVE  /\ CoreOK(d) /\ Live(d) = Live(c) \cup {c.next_id}
         /\ d.loaded = c.loaded \cup {c.next_id} /\ d.engine = c.engine \cup {c.next_id}
         /\ d.pages = Append(c.pages, c.next_id) /\ d.next_id = c.next_id + 1
         /\ d.limit = c.limit
         /\ d.active = IF d = Inserted(AllocateId(c), c.next_id) THEN c.next_id ELSE c.active
  <1> DEFINE a == AllocateId(c)
             id == c.next_id
  <1>1. /\ CoreOK(a) /\ Live(a) = Live(c) /\ a.next_id = id + 1
        /\ a.pages = c.pages /\ a.active = c.active /\ a.limit = c.limit
        /\ a.loaded = c.loaded /\ a.engine = c.engine
    BY AllocatedOK
  <1>2. id \in Nat /\ id \notin Live(c) /\ c.pages \in Seq(Nat) /\ Len(c.pages) <= id
    BY CoreFacts DEF CoreOK
  <1> HIDE DEF a, id
  <1>3. Consistent(a) /\ id \in 0 .. a.next_id - 1 /\ id \notin Live(a)
    BY <1>1, <1>2 DEF CoreOK
  <1>4. Append(c.pages, id) \in Seq(Nat) /\ Len(Append(c.pages, id)) = Len(c.pages) + 1
    BY <1>2, ElementsAppend
  <1>5. /\ Inserted(a, id).pages = Append(c.pages, id)
        /\ InsertedBackground(a, id).pages = Append(c.pages, id)
    BY <1>1, <1>3, InsertedPages
  <1>6. Len(c.pages) + 1 <= id + 1
    BY <1>2, LenProperties
  <1>7. d \in {Inserted(a, id), InsertedBackground(a, id)}
    BY DEF a, id
  <1>8. CASE d = Inserted(a, id)
    <2>1. /\ Consistent(d) /\ Live(d) = Live(c) \cup {id}
          /\ d.loaded = c.loaded \cup {id} /\ d.engine = c.engine \cup {id} /\ d.active = id
          /\ d.limit = a.limit /\ d.next_id = a.next_id
      BY <1>1, <1>3, <1>8, InsertedOK
    <2>2. CoreOK(d)
      BY <1>1, <1>4, <1>5, <1>6, <1>8, <2>1 DEF CoreOK
    <2> QED BY <1>1, <1>5, <1>8, <2>1, <2>2 DEF a, id
  <1>9. CASE d = InsertedBackground(a, id) /\ d # Inserted(a, id)
    <2>1. /\ Consistent(d) /\ Live(d) = Live(c) \cup {id}
          /\ d.loaded = c.loaded \cup {id} /\ d.engine = c.engine \cup {id}
          /\ d.active = a.active /\ d.limit = a.limit /\ d.next_id = a.next_id
      BY <1>1, <1>3, <1>9, InsertedBackgroundOK
    <2>2. CoreOK(d)
      BY <1>1, <1>4, <1>5, <1>6, <1>9, <2>1 DEF CoreOK
    <2> QED BY <1>1, <1>5, <1>9, <2>1, <2>2 DEF a, id
  <1> QED BY <1>7, <1>8, <1>9

(* A URL set and others forgotten.                                         *)
LEMMA UrlsKept ==
  ASSUME NEW u, UrlsOK(u), NEW gone, NEW p \in Ids, NEW w \in MaybeUrls
  PROVE  /\ UrlsOK(Without(u, gone)) /\ UrlsOK([u EXCEPT ![p] = w])
         /\ UrlsOK([Without(u, gone) EXCEPT ![p] = w])
         /\ UrlsOK(Without([u EXCEPT ![p] = w], gone))
  BY DEF UrlsOK, Without, MaybeUrls

(* add_page, when the engine was built: a page more, in front.             *)
LEMMA AddedOK ==
  ASSUME NEW c, NEW k, NEW u \in MaybeUrls, CoreOK(c), c.next_id < MaxPages, UrlsOK(url),
         k \subseteq Live(c), c.engine \subseteq c.loaded \cap k, Added(c, k, u)
  PROVE  /\ CoreOK(core') /\ ViewsOK(core', containers', visible') /\ UrlsOK(url')
         /\ core'.pages = Append(c.pages, c.next_id) /\ core'.active = c.next_id
         /\ core'.next_id = c.next_id + 1 /\ core'.limit = c.limit
         /\ stray' = stray /\ failed' = failed
  <1> DEFINE id == c.next_id
             d == Inserted(AllocateId(c), id)
             gone == Evicted(d)
             e == Unload(Enforced(d), gone)
  <1>1. /\ CoreOK(d) /\ Live(d) = Live(c) \cup {id}
        /\ d.loaded = c.loaded \cup {id} /\ d.engine = c.engine \cup {id}
        /\ d.pages = Append(c.pages, id) /\ d.next_id = id + 1 /\ d.limit = c.limit
        /\ d.active = id
    BY GrownOK
  <1>2. /\ Show(e, (k \ gone) \cup {id}, id)
        /\ \E w \in Reported(u) : url' = [Without(url, gone) EXCEPT ![id] = w]
        /\ stray' = stray /\ failed' = failed
    BY DEF Added
  <1>3. id \in Ids /\ id \notin Live(c)
    BY CoreFacts, AppKitBoundAssumption DEF Ids
  <1> HIDE DEF d, gone, e, id
  <1>4. /\ CoreOK(e) /\ Live(e) = Live(d) /\ e.engine = d.engine \ gone
        /\ e.loaded = d.loaded \ gone /\ e.pages = d.pages /\ e.next_id = d.next_id
        /\ e.limit = d.limit /\ id \notin gone
    BY <1>1, UnloadedOK DEF e, gone
  <1>5. UrlsOK(url')
    <2>1. PICK w \in Reported(u) : url' = [Without(url, gone) EXCEPT ![id] = w]
      BY <1>2
    <2>2. w \in MaybeUrls
      BY DEF Reported, MaybeUrls
    <2> QED BY <1>3, <2>1, <2>2, UrlsKept
  <1>6. /\ (k \ gone) \cup {id} \subseteq Live(e) /\ id \in Live(e)
        /\ e.engine \subseteq e.loaded \cap ((k \ gone) \cup {id})
    BY <1>1, <1>4
  <1>7. /\ CoreOK(core') /\ ViewsOK(core', containers', visible')
        /\ core'.pages = e.pages /\ core'.active = id /\ core'.next_id = e.next_id
        /\ core'.limit = e.limit
    BY <1>2, <1>4, <1>6, ShowOK
  <1> QED BY <1>1, <1>2, <1>4, <1>5, <1>7 DEF id

(* add_page, when it was not: an id has gone.                              *)
LEMMA NotAddedOK ==
  ASSUME NEW c, NEW k, CoreOK(c), c.next_id < MaxPages, UrlsOK(url),
         k \subseteq Live(c), c.engine \subseteq c.loaded \cap k,
         c.active \in c.engine => c.active \in visible \cap k, NotAdded(c, k)
  PROVE  /\ CoreOK(core') /\ ViewsOK(core', containers', visible') /\ UrlsOK(url')
         /\ core'.pages = c.pages /\ core'.active = c.active
         /\ core'.next_id = c.next_id + 1 /\ core'.limit = c.limit
         /\ stray' = TRUE /\ failed' = TRUE
  <1>1. /\ CoreOK(core') /\ Live(core') = Live(c) /\ core'.next_id = c.next_id + 1
        /\ core'.pages = c.pages /\ core'.active = c.active /\ core'.limit = c.limit
        /\ core'.loaded = c.loaded /\ core'.engine = c.engine
    BY AllocatedOK DEF NotAdded
  <1>2. /\ containers' = k /\ visible' = visible \cap k /\ url' = url
        /\ stray' = TRUE /\ failed' = TRUE
    BY DEF NotAdded
  <1> QED BY <1>1, <1>2 DEF ViewsOK

(* remove: the page at its place in the Vec.                               *)
LEMMA RemovedOK ==
  ASSUME NEW c, CoreOK(c), NEW id
  PROVE  LET d == Remove(c, id)
         IN /\ CoreOK(d) /\ Live(d) = Live(c) \ {id}
            /\ d.loaded = c.loaded \ {id} /\ d.engine = c.engine \ {id}
            /\ d.active = c.active /\ d.next_id = c.next_id /\ d.limit = c.limit
            /\ id \notin Live(c) => d.pages = c.pages
            /\ id \in Live(c) => \E i \in 1..Len(c.pages) :
                 c.pages[i] = id /\ d.pages = VecRemove(c.pages, i)
  <1> DEFINE d == Remove(c, id)
  <1>1. /\ Consistent(d) /\ Live(d) = Live(c) \ {id}
        /\ d.loaded = c.loaded \ {id} /\ d.engine = c.engine \ {id}
        /\ d.active = c.active /\ d.next_id = c.next_id /\ d.limit = c.limit
    BY RemoveOK DEF CoreOK
  <1>2. c.pages \in Seq(Nat) /\ c.next_id \in Nat /\ Len(c.pages) <= c.next_id
    BY CoreFacts DEF CoreOK
  <1>3. CASE id \notin Live(c)
    <2>1. d = c
      BY <1>3, RemovePages DEF CoreOK
    <2> QED BY <1>1, <1>3, <2>1
  <1>4. CASE id \in Live(c)
    <2> DEFINE i == Position(c, id)
    <2>1. i \in 1..Len(c.pages) /\ c.pages[i] = id /\ d.pages = VecRemove(c.pages, i)
      BY <1>4, RemovePages, PositionOf DEF CoreOK
    <2> HIDE DEF i, d
    <2>2. Len(d.pages) = Len(c.pages) - 1 /\ Len(c.pages) \in Nat
      BY <1>2, <2>1, VecRemoveAt, LenProperties
    <2>3. CoreOK(d)
      BY <1>1, <1>2, <2>2 DEF CoreOK
    <2> QED BY <1>1, <1>4, <2>1, <2>3 DEF d
  <1> QED BY <1>3, <1>4

-----------------------------------------------------------------------------
(* The session file.                                                       *)

(* build_session, of any core and URLs.                                    *)
SessionOf(c, u) ==
  [pages |-> [i \in 1..Len(c.pages) |->
                [page |-> c.pages[i], url |-> IF c.pages[i] \in c.engine THEN u[c.pages[i]] ELSE NoUrl]],
   active |-> IF c.active \in Live(c) THEN Position(c, c.active) ELSE 0]

(* It names the tabs, in order, and the one in front.                      *)
LEMMA SessionOK ==
  ASSUME NEW c, NEW u, CoreOK(c), UrlsOK(u)
  PROVE  /\ FileOK(SessionOf(c, u)) /\ Len(SessionOf(c, u).pages) = Len(c.pages)
         /\ FileTabs(SessionOf(c, u)) = TabsOf(c)
  <1> DEFINE n == Len(c.pages)
             E(i) == [page |-> c.pages[i],
                      url |-> IF c.pages[i] \in c.engine THEN u[c.pages[i]] ELSE NoUrl]
             ps == [i \in 1..n |-> E(i)]
             f == SessionOf(c, u)
             Entry == [page : Ids, url : MaybeUrls]
  <1>1. /\ c.pages \in Seq(Nat) /\ n \in Nat /\ Live(c) \subseteq Ids
        /\ Len(c.pages) <= MaxPages /\ MaxPages \in Nat
    <2>1. Len(c.pages) <= c.next_id /\ c.next_id <= MaxPages
      BY DEF CoreOK
    <2> QED BY <2>1, CoreFacts
  <1>2. \A i \in 1..n : c.pages[i] \in Ids
    BY <1>1 DEF Live, Elements
  <1>3. \A i \in 1..n : E(i) \in Entry
    BY <1>2 DEF UrlsOK, MaybeUrls
  <1>4. f.pages = ps /\ f.active = IF c.active \in Live(c) THEN Position(c, c.active) ELSE 0
    BY DEF SessionOf
  <1> HIDE DEF E
  <1>5. ps \in Seq(Entry) /\ Len(ps) = n
    BY <1>1, <1>3
  <1>6. f.active \in 0..n
    BY <1>1, <1>4, PositionOf DEF CoreOK
  <1>7. FileOK(f)
    BY <1>1, <1>4, <1>5, <1>6 DEF FileOK
  <1>8. [i \in 1..Len(f.pages) |-> f.pages[i].page] = c.pages
    <2>1. \A i \in 1..n : E(i).page = c.pages[i]
      BY DEF E
    <2>2. \A i \in 1..n : f.pages[i].page = c.pages[i]
      BY <1>4, <2>1
    <2>3. DOMAIN c.pages = 1..n /\ c.pages = [i \in 1..n |-> c.pages[i]]
      BY SMTT(30), <1>1
    <2> HIDE DEF f, ps
    <2>4. Len(f.pages) = n
      BY <1>4, <1>5
    <2>5. [i \in 1..Len(f.pages) |-> f.pages[i].page] = [i \in 1..n |-> c.pages[i]]
      BY <2>2, <2>4
    <2> QED BY <2>3, <2>5
  <1>9. f.active = TabsOf(c).front
    <2>1. c.active \in Live(c) <=> \E i \in 1..n : c.pages[i] = c.active
      BY DEF Live, Elements
    <2> QED BY <1>4, <2>1 DEF TabsOf, Position
  <1> HIDE DEF f, ps
  <1>10. Len(f.pages) = n
    BY <1>4, <1>5
  <1> QED BY <1>7, <1>8, <1>9, <1>10 DEF FileTabs, TabsOf, f

(* Session is that of the state before a step, and of the one after it.    *)
LEMMA SessionIs == Session = SessionOf(core, url) /\ Session' = SessionOf(core', url')
  BY DEF Session, SessionOf, CurrentUrl

(* save_session after a handler.                                           *)
LEMMA SavedOK ==
  ASSUME CoreOK(core'), UrlsOK(url'), FileOK(disk), SaveSession
  PROVE  /\ FileOK(disk')
         /\ restoring' => disk' = disk
         /\ ~restoring' => FileTabs(disk') = TabsOf(core')
  <1>1. disk' = IF restoring' THEN disk ELSE SessionOf(core', url')
    BY SessionIs DEF SaveSession
  <1>2. FileOK(SessionOf(core', url')) /\ FileTabs(SessionOf(core', url')) = TabsOf(core')
    BY SessionOK
  <1> QED BY <1>1, <1>2

-----------------------------------------------------------------------------
(* A handler, as Tabs sees it.                                             *)

(* From core c to core d: nothing, a tab more, another one in front, or    *)
(* one less, after which the first of the rest or a new one is in front.   *)
Same(c, d)  == d.pages = c.pages /\ d.active = c.active
Opens(c, d) == \E t \in Ids \ Live(c) : d.pages = Append(c.pages, t) /\ d.active \in {c.active, t}
Shows(c, d) == d.pages = c.pages /\ d.active \in Live(c)
Closes(c, d) ==
  \E i \in 1..Len(c.pages) :
    LET rest == VecRemove(c.pages, i)
    IN \/ /\ d.pages = rest
          /\ d.active = IF c.pages[i] = c.active /\ rest # <<>> THEN rest[1] ELSE c.active
       \/ rest = <<>> /\ \E t \in Ids : d.pages = <<t>> /\ d.active = t

TabsChange(c, d) == Same(c, d) \/ Opens(c, d) \/ Shows(c, d) \/ Closes(c, d)

TabStep == [T!TabsNext]_(T!tabsVars)

(* The mapping, in terms of the operators of this module.                  *)
LEMMA Mapping ==
  /\ T!Listed = TabsOf(core) /\ T!Listed' = TabsOf(core')
  /\ \A s : T!Elements(s) = Elements(s)
  /\ \A s, i : T!VecRemove(s, i) = VecRemove(s, i)
  BY DEF T!Listed, TabsOf, T!Elements, Elements, T!VecRemove, VecRemove

(* A step of Tabs while the window is up, not restoring.                   *)
LEMMA ReadySteps ==
  ASSUME Ready, CoreOK(core), UNCHANGED <<process, restoring>>, TabsChange(core, core'),
         FileTabs(disk) = TabsOf(core), FileTabs(disk') = TabsOf(core')
  PROVE  TabStep
  <1>0. UNCHANGED Up /\ UNCHANGED restoring
    BY DEF Up
  <1>1. CASE Same(core, core')
    <2>1. TabsOf(core') = TabsOf(core)
      BY <1>1 DEF Same, TabsOf
    <2>2. FileTabs(disk') = FileTabs(disk)
      BY <2>1
    <2>3. UNCHANGED T!tabsVars
      BY <1>0, <1>1, <2>2 DEF Same, T!tabsVars, FileTabs
    <2> QED BY <2>3 DEF TabStep
  <1>2. CASE Opens(core, core')
    <2>1. T!OpenTab
      BY <1>0, <1>2, Mapping DEF Opens, T!OpenTab, Live
    <2>2. FileTabs(disk') = T!Listed'
      BY Mapping
    <2> QED BY <2>1, <2>2 DEF TabStep, T!TabsNext, Ready, FileTabs
  <1>3. CASE Shows(core, core')
    <2>1. T!ShowTab
      BY <1>0, <1>3, CoreFacts DEF Shows, T!ShowTab
    <2>2. FileTabs(disk') = T!Listed'
      BY Mapping
    <2> QED BY <2>1, <2>2 DEF TabStep, T!TabsNext, Ready, FileTabs
  <1>4. CASE Closes(core, core')
    <2>1. T!CloseTab
      BY <1>0, <1>4, Mapping DEF Closes, T!CloseTab
    <2>2. FileTabs(disk') = T!Listed'
      BY Mapping
    <2> QED BY <2>1, <2>2 DEF TabStep, T!TabsNext, Ready, FileTabs
  <1> QED BY <1>1, <1>2, <1>3, <1>4 DEF TabsChange

(* A handler that saves.                                                   *)
LEMMA HandlerOK ==
  ASSUME IInv, Ready, UNCHANGED <<process, restoring, plan>>, ProfileOK',
         CoreOK(core'), UrlsOK(url'), ViewsOK(core', containers', visible'),
         SaveSession, TabsChange(core, core')
  PROVE  IInv' /\ TabStep
  <1>1. Ready' /\ Up'
    BY DEF Ready, Up
  <1>2. FileOK(disk') /\ FileTabs(disk') = TabsOf(core')
    BY <1>1, SavedOK DEF IInv, Ready
  <1>3. PlanOK' /\ DownOK' /\ Saved'
    BY <1>1, <1>2 DEF PlanOK, DownOK, Saved, IInv, Ready
  <1>4. TabStep
    BY <1>1, <1>2, ReadySteps DEF IInv, Saved, Ready
  <1> QED BY <1>2, <1>3, <1>4 DEF IInv

-----------------------------------------------------------------------------
(* The handlers.                                                           *)

(* What the invariant says of the core and its views.                      *)
LEMMA ViewFacts ==
  ASSUME IInv
  PROVE  /\ CoreOK(core) /\ UrlsOK(url) /\ containers \subseteq Live(core)
         /\ core.engine \subseteq core.loaded \cap containers
         /\ visible \subseteq containers
         /\ core.active \in core.engine => core.active \in visible \cap containers
  BY DEF IInv, ViewsOK

(* add_page, by key.                                                       *)
LEMMA AddPageStep ==
  ASSUME IInv, NEW u \in Urls, AddPage(u)
  PROVE  IInv' /\ TabStep
  <1>1. /\ Ready /\ core.next_id < MaxPages /\ SaveSession
        /\ UNCHANGED <<process, profileVars, restoring, plan>>
        /\ Added(core, containers, u) \/ NotAdded(core, containers)
    BY DEF AddPage
  <1>2. u \in MaybeUrls /\ core.next_id \in Ids /\ core.next_id \notin Live(core)
    BY <1>1, ViewFacts, CoreFacts DEF MaybeUrls, Ids
  <1>3. /\ CoreOK(core') /\ ViewsOK(core', containers', visible') /\ UrlsOK(url')
        /\ stray' \in {stray, TRUE} /\ failed' \in {failed, TRUE}
        /\ Opens(core, core') \/ Same(core, core')
    <2>1. CASE Added(core, containers, u)
      BY <1>1, <1>2, <2>1, ViewFacts, AddedOK DEF Opens
    <2>2. CASE NotAdded(core, containers)
      BY <1>1, <1>2, <2>2, ViewFacts, NotAddedOK DEF Same
    <2> QED BY <1>1, <2>1, <2>2
  <1>4. ProfileOK'
    BY <1>1, <1>3 DEF IInv, ProfileOK, profileVars
  <1> QED BY <1>1, <1>3, <1>4, HandlerOK DEF TabsChange

(* add_page_related: a page more behind, which may have lost its engine    *)
(* again at once.                                                          *)
LEMMA AddPageRelatedStep ==
  ASSUME IInv, AddPageRelated
  PROVE  IInv' /\ TabStep
  <1> DEFINE id == core.next_id
             d == InsertedBackground(AllocateId(core), id)
             gone == Evicted(d)
             e == Unload(Enforced(d), gone)
             Built == /\ core' = e
                      /\ url' = Without(url, gone)
                      /\ containers' = (containers \ gone) \cup {id}
                      /\ visible' = (visible \ gone) \cup {id}
                      /\ UNCHANGED <<stray, failed>>
  <1>1. /\ Ready /\ core.next_id < MaxPages /\ SaveSession
        /\ UNCHANGED <<process, profileVars, restoring, plan>>
        /\ Built \/ NotAdded(core, containers)
    BY DEF AddPageRelated
  <1>2. /\ NoUrl \in MaybeUrls /\ id \in Ids /\ id \notin Live(core)
        /\ CoreOK(core) /\ UrlsOK(url) /\ containers \subseteq Live(core)
    BY <1>1, ViewFacts, CoreFacts DEF MaybeUrls, Ids
  <1>3. /\ CoreOK(d) /\ Live(d) = Live(core) \cup {id}
        /\ d.loaded = core.loaded \cup {id} /\ d.engine = core.engine \cup {id}
        /\ d.pages = Append(core.pages, id)
        /\ d.active \in {core.active, id}
    BY <1>1, <1>2, GrownOK
  <1>4. /\ CoreOK(e) /\ Live(e) = Live(d) /\ e.engine = d.engine \ gone
        /\ e.loaded = d.loaded \ gone /\ e.pages = d.pages /\ e.active = d.active
        /\ d.active \notin gone
    BY <1>3, UnloadedOK
  <1> HIDE DEF d, e, gone
  <1>5. CASE Built
    <2>1. UrlsOK(url')
      BY <1>2, <1>5, UrlsKept
    <2>2. ViewsOK(core', containers', visible')
      BY <1>3, <1>4, <1>5, ViewFacts DEF ViewsOK
    <2>3. Opens(core, core')
      BY <1>2, <1>3, <1>4, <1>5 DEF Opens
    <2>4. ProfileOK'
      BY <1>1, <1>5 DEF IInv, ProfileOK, profileVars
    <2> QED BY <1>1, <1>4, <1>5, <2>1, <2>2, <2>3, <2>4, HandlerOK DEF TabsChange
  <1>6. CASE NotAdded(core, containers)
    <2>1. /\ CoreOK(core') /\ ViewsOK(core', containers', visible') /\ UrlsOK(url')
          /\ stray' = TRUE /\ failed' = TRUE /\ Same(core, core')
      BY <1>1, <1>6, ViewFacts, NotAddedOK DEF Same
    <2>2. ProfileOK'
      BY <1>1, <2>1 DEF IInv, ProfileOK, profileVars
    <2> QED BY <1>1, <2>1, <2>2, HandlerOK DEF TabsChange
  <1> QED BY <1>1, <1>5, <1>6

(* switch_to, by row or key: an engine if it can be had, and in front.     *)
LEMMA SwitchToStep ==
  ASSUME IInv, NEW id, SwitchTo(id)
  PROVE  IInv' /\ TabStep
  <1>1. /\ Ready /\ id \in Live(core) /\ ShowReloaded(id) /\ SaveSession
        /\ UNCHANGED <<process, profileVars, restoring, plan>>
    BY DEF SwitchTo
  <1>2. id \in Ids /\ HomeUrl \in MaybeUrls
    BY <1>1, ViewFacts, CoreFacts, AppKitUrlsAssumption DEF MaybeUrls
  <1>3. /\ CoreOK(core') /\ ViewsOK(core', containers', visible') /\ Shows(core, core')
        /\ UrlsOK(url') /\ stray' \in {stray, TRUE, (stray \/ id \in containers)}
        /\ failed' \in {failed, TRUE}
    <2>1. CASE /\ Show(core, containers, id) /\ UNCHANGED url
               /\ \/ UNCHANGED <<stray, failed>>
                  \/ stray' = TRUE /\ failed' = TRUE
      BY <1>1, <2>1, ViewFacts, ShowOK DEF Shows
    <2>2. CASE /\ id \notin core.engine
               /\ Show(InstallEngine(core, id), containers \cup {id}, id)
               /\ \E w \in Reported(HomeUrl) : url' = [url EXCEPT ![id] = w]
               /\ stray' = (stray \/ id \in containers) /\ UNCHANGED failed
      <3> DEFINE c == InstallEngine(core, id)
      <3>1. /\ Consistent(c) /\ Live(c) = Live(core)
            /\ c.engine = core.engine \cup ({id} \cap Live(core))
            /\ c.pages = core.pages /\ c.loaded = core.loaded /\ c.limit = core.limit
            /\ c.next_id = core.next_id
        BY ViewFacts, InstallEngineOK DEF CoreOK, Fields
      <3> HIDE DEF c
      <3>2. CoreOK(c)
        BY <3>1, ViewFacts DEF CoreOK
      <3>3. UrlsOK(url')
        <4>1. PICK w \in Reported(HomeUrl) : url' = [url EXCEPT ![id] = w]
          BY <2>2
        <4>2. w \in MaybeUrls
          BY <1>2 DEF Reported, MaybeUrls
        <4> QED BY <1>2, <4>1, <4>2, ViewFacts, UrlsKept
      <3>4. /\ containers \cup {id} \subseteq Live(c) /\ id \in Live(c)
            /\ c.engine \subseteq (c.loaded \cup {id}) \cap (containers \cup {id})
        BY <1>1, <3>1, ViewFacts
      <3>5. Show(c, containers \cup {id}, id)
        BY <2>2 DEF c
      <3>6. /\ CoreOK(core') /\ ViewsOK(core', containers', visible')
            /\ core'.pages = c.pages /\ core'.active = id
        BY <3>2, <3>4, <3>5, ShowOK
      <3> QED BY <1>1, <2>2, <3>1, <3>3, <3>6 DEF Shows
    <2> QED BY <1>1, <2>1, <2>2 DEF ShowReloaded
  <1>4. ProfileOK'
    BY <1>1, <1>3 DEF IInv, ProfileOK, profileVars
  <1> QED BY <1>1, <1>3, <1>4, HandlerOK DEF TabsChange

(* close_page: the page goes with its engine and its container; the page   *)
(* that comes to the front is shown as it is.                              *)
LEMMA ClosePageStep ==
  ASSUME IInv, NEW id, ClosePage(id)
  PROVE  IInv' /\ TabStep
  <1> DEFINE c == Remove(core, id)
             k == containers \ {id}
             Behind == /\ id # core.active
                       /\ core' = c /\ containers' = k /\ visible' = visible \ {id}
                       /\ url' = Without(url, {id})
             Next1 == /\ id = core.active /\ c.pages # <<>>
                      /\ Show(c, k, c.pages[1])
                      /\ url' = Without(url, {id})
             Last == /\ id = core.active /\ c.pages = <<>> /\ core.next_id < MaxPages
                     /\ Added(c, k, StartPage) \/ NotAdded(c, k)
  <1>1. /\ Ready /\ id \in Live(core) \cup {core.active} /\ SaveSession
        /\ UNCHANGED <<process, profileVars, restoring, plan>>
        /\ \/ Behind /\ UNCHANGED <<stray, failed>>
           \/ Next1 /\ UNCHANGED <<stray, failed>>
           \/ Last
    BY DEF ClosePage
  <1>2. /\ CoreOK(core) /\ UrlsOK(url) /\ containers \subseteq Live(core)
        /\ core.engine \subseteq core.loaded \cap containers
        /\ visible \subseteq containers
        /\ core.active \in core.engine => core.active \in visible \cap containers
    BY ViewFacts
  <1>3. /\ CoreOK(c) /\ Live(c) = Live(core) \ {id}
        /\ c.loaded = core.loaded \ {id} /\ c.engine = core.engine \ {id}
        /\ c.active = core.active /\ c.next_id = core.next_id /\ c.limit = core.limit
        /\ id \notin Live(core) => c.pages = core.pages
        /\ id \in Live(core) => \E i \in 1..Len(core.pages) :
             core.pages[i] = id /\ c.pages = VecRemove(core.pages, i)
    BY <1>2, RemovedOK
  <1>4. k \subseteq Live(c) /\ c.engine \subseteq c.loaded \cap k
    BY <1>2, <1>3
  <1>5. UrlsOK(Without(url, {id}))
    BY <1>2 DEF UrlsOK, Without, MaybeUrls
  <1> HIDE DEF c
  <1>6. CASE Behind /\ UNCHANGED <<stray, failed>>
    <2>1. ViewsOK(core', containers', visible')
      BY <1>2, <1>3, <1>4, <1>6 DEF ViewsOK
    <2>2. Closes(core, core')
      BY <1>1, <1>3, <1>6 DEF Closes
    <2>3. ProfileOK'
      BY <1>1, <1>6 DEF IInv, ProfileOK, profileVars
    <2> QED BY <1>1, <1>3, <1>5, <1>6, <2>1, <2>2, <2>3, HandlerOK DEF TabsChange
  <1>7. CASE Next1 /\ UNCHANGED <<stray, failed>>
    <2>1. c.pages[1] \in Live(c)
      <3>1. c.pages \in Seq(Nat) /\ c.pages # <<>>
        BY <1>3, <1>7, CoreFacts
      <3>2. 1 \in 1..Len(c.pages)
        BY <3>1, EmptySeq
      <3> QED BY <3>2 DEF Live, Elements
    <2>2. /\ CoreOK(core') /\ ViewsOK(core', containers', visible')
          /\ core'.pages = c.pages /\ core'.active = c.pages[1]
      BY <1>3, <1>4, <1>7, <2>1, ShowOK
    <2>3. Closes(core, core') \/ Shows(core, core')
      BY <1>3, <1>7, <2>1, <2>2 DEF Closes, Shows
    <2>4. ProfileOK'
      BY <1>1, <1>7 DEF IInv, ProfileOK, profileVars
    <2> QED BY <1>1, <1>5, <1>7, <2>2, <2>3, <2>4, HandlerOK DEF TabsChange
  <1>8. CASE Last
    <2>1. c.active \notin c.engine /\ c.next_id < MaxPages
      BY <1>3, <1>8
    <2>2. CASE Added(c, k, StartPage)
      <3>1. /\ CoreOK(core') /\ ViewsOK(core', containers', visible') /\ UrlsOK(url')
            /\ core'.pages = Append(c.pages, c.next_id) /\ core'.active = c.next_id
            /\ stray' = stray /\ failed' = failed
        BY <1>2, <1>3, <1>4, <2>1, <2>2, AddedOK, AppKitUrlsAssumption DEF MaybeUrls
      <3>2. core.next_id \in Ids \ Live(core)
        BY <1>2, <1>8, CoreFacts DEF Ids
      <3>3. Append(<<>>, c.next_id) = <<c.next_id>>
        OBVIOUS
      <3>4. core'.pages = <<core.next_id>> /\ core'.active = core.next_id
        BY <1>3, <1>8, <3>1, <3>3
      <3>5. Closes(core, core') \/ Opens(core, core')
        <4>1. CASE id \in Live(core)
          BY <1>3, <1>8, <3>2, <3>4, <4>1 DEF Closes
        <4>2. CASE id \notin Live(core)
          BY <1>3, <1>8, <3>1, <3>2, <4>2 DEF Opens
        <4> QED BY <4>1, <4>2
      <3>6. ProfileOK'
        BY <1>1, <3>1 DEF IInv, ProfileOK, profileVars
      <3> QED BY <1>1, <3>1, <3>5, <3>6, HandlerOK DEF TabsChange
    <2>3. CASE NotAdded(c, k)
      <3>1. /\ CoreOK(core') /\ ViewsOK(core', containers', visible') /\ UrlsOK(url')
            /\ core'.pages = c.pages /\ core'.active = c.active
            /\ stray' = TRUE /\ failed' = TRUE
        BY <1>2, <1>3, <1>4, <2>1, <2>3, NotAddedOK
      <3>2. Closes(core, core') \/ Same(core, core')
        BY <1>3, <1>8, <3>1 DEF Closes, Same
      <3>3. ProfileOK'
        BY <1>1, <3>1 DEF IInv, ProfileOK, profileVars
      <3> QED BY <1>1, <3>1, <3>2, <3>3, HandlerOK DEF TabsChange
    <2> QED BY <1>8, <2>2, <2>3
  <1> QED BY <1>1, <1>6, <1>7, <1>8

(* A handler that changes no tab and does not save.                        *)
LEMMA QuietOK ==
  ASSUME IInv, Ready, UNCHANGED <<process, restoring, plan, disk>>, ProfileOK',
         CoreOK(core'), UrlsOK(url'), ViewsOK(core', containers', visible'),
         Same(core, core')
  PROVE  IInv' /\ TabStep
  <1>1. Ready' /\ Up'
    BY DEF Ready, Up
  <1>2. TabsOf(core') = TabsOf(core)
    BY DEF Same, TabsOf
  <1>3. PlanOK' /\ DownOK' /\ Saved' /\ FileOK(disk')
    BY <1>1, <1>2 DEF PlanOK, DownOK, Saved, IInv, Ready, FileTabs
  <1>4. TabStep
    BY <1>1, <1>2, ReadySteps DEF IInv, Saved, Ready, TabsChange
  <1> QED BY <1>3, <1>4 DEF IInv

(* A new limit: engines and containers of what it evicts go.               *)
LEMMA SetLimitStep ==
  ASSUME IInv, NEW limit \in Limits, SetLimit(limit)
  PROVE  IInv' /\ TabStep
  <1> DEFINE c == Relimited(core, limit)
             gone == Evicted(c)
             e == Unload(Enforced(c), gone)
  <1>1. /\ Ready /\ core' = e /\ url' = Without(url, gone)
        /\ containers' = containers \ gone /\ visible' = visible \ gone
        /\ UNCHANGED <<process, profileVars, stray, restoring, plan, failed, disk>>
    BY DEF SetLimit
  <1>2. /\ Consistent(c) /\ Live(c) = Live(core) /\ c.limit = limit
        /\ \A f \in Fields \ {"limit"} : c[f] = core[f]
    BY ViewFacts, RelimitedOK, AppKitLimitsAssumption DEF CoreOK
  <1> HIDE DEF c
  <1>3. /\ c.pages = core.pages /\ c.active = core.active /\ c.next_id = core.next_id
        /\ c.loaded = core.loaded /\ c.engine = core.engine
    BY <1>2 DEF Fields
  <1>4. CoreOK(c)
    BY <1>2, <1>3, ViewFacts DEF CoreOK
  <1>5. /\ CoreOK(e) /\ Live(e) = Live(c) /\ e.engine = c.engine \ gone
        /\ e.loaded = c.loaded \ gone /\ e.pages = c.pages /\ e.active = c.active
        /\ c.active \notin gone
    BY <1>4, UnloadedOK
  <1> HIDE DEF gone, e
  <1>6. ViewsOK(core', containers', visible')
    BY <1>1, <1>2, <1>3, <1>5, ViewFacts DEF ViewsOK
  <1>7. UrlsOK(url')
    BY <1>1, ViewFacts DEF UrlsOK, Without, MaybeUrls
  <1>8. Same(core, core') /\ ProfileOK'
    BY <1>1, <1>3, <1>5 DEF Same, IInv, ProfileOK, profileVars
  <1> QED BY <1>1, <1>5, <1>6, <1>7, <1>8, QuietOK

(* A navigation.                                                           *)
LEMMA NavigateStep ==
  ASSUME IInv, NEW p \in Ids, NEW u \in Urls, Navigate(p, u)
  PROVE  IInv' /\ TabStep
  <1>1. /\ Ready /\ url' = [url EXCEPT ![p] = u]
        /\ UNCHANGED <<process, profileVars, core, containers, visible, stray, restoring,
                       plan, failed, disk>>
    BY DEF Navigate
  <1>2. UrlsOK(url') /\ Same(core, core') /\ ProfileOK'
    BY <1>1, UrlsKept DEF MaybeUrls, IInv, Same, ProfileOK, profileVars
  <1> QED BY <1>1, <1>2, ViewFacts, QuietOK DEF IInv

(* A title.                                                                *)
LEMMA TitleChangedStep ==
  ASSUME IInv, NEW p \in Ids, TitleChanged(p)
  PROVE  IInv' /\ TabStep
  <1>1. /\ Ready /\ SaveSession /\ UNCHANGED <<process, sealed, marked, pageVars>>
        /\ history' = history \cup {url[p]} \/ history' = history
    BY DEF TitleChanged, RecordVisit
  <1>2. url[p] \in MaybeUrls
    BY ViewFacts DEF UrlsOK
  <1>3. ProfileOK' /\ Same(core, core')
    BY <1>1, <1>2 DEF IInv, ProfileOK, Same, pageVars
  <1> QED BY <1>1, <1>3, HandlerOK DEF pageVars, TabsChange, IInv

(* A step of the process before its window: only what it shows changes.    *)
LEMMA BeforeStep ==
  ASSUME IInv, ~Up, process' \in {"none", "chooser", "prompt"},
         UNCHANGED <<profileVars, pageVars, disk>>
  PROVE  IInv' /\ TabStep
  <1>1. ~Up' /\ UNCHANGED Up
    BY DEF Up
  <1>2. ProfileOK' /\ PlanOK' /\ DownOK' /\ Saved'
    BY <1>1 DEF IInv, ProfileOK, PlanOK, DownOK, Saved, Ready, profileVars, pageVars
  <1>3. UNCHANGED T!tabsVars
    BY <1>1 DEF T!tabsVars, pageVars
  <1> QED BY <1>2, <1>3 DEF IInv, TabStep, pageVars

(* The plan of a restore is what the file lists, or the start page.        *)
LEMMA PlannedOK ==
  ASSUME FileOK(disk)
  PROVE  Planned \in Seq(MaybeUrls) /\ Len(Planned) <= MaxPages
  <1>0. FileOK(disk) /\ MaxPages \in Nat \ {0}
    BY AppKitBoundAssumption
  <1>1. CASE disk.pages = <<>>
    <2>1. Planned = <<StartPage>> /\ StartPage \in MaybeUrls
      BY <1>1, AppKitUrlsAssumption DEF Planned, MaybeUrls
    <2>2. <<StartPage>> \in Seq(MaybeUrls) /\ Len(<<StartPage>>) = 1
      BY <2>1
    <2> QED BY <1>0, <2>1, <2>2
  <1>2. CASE disk.pages # <<>>
    <2> DEFINE ps == disk.pages
               us == [i \in 1..Len(ps) |-> ps[i].url]
    <2>1. Planned = us
      BY <1>2 DEF Planned
    <2>2. /\ ps \in Seq([page : Ids, url : MaybeUrls]) /\ Len(ps) <= MaxPages
          /\ Len(ps) \in Nat
      BY <1>0, LenProperties DEF FileOK
    <2>3. \A i \in 1..Len(ps) : ps[i].url \in MaybeUrls
      <3> HIDE DEF ps
      <3>1. \A i \in 1..Len(ps) : ps[i] \in [page : Ids, url : MaybeUrls]
        BY <2>2, ElementOfSeq
      <3> QED BY <3>1
    <2>4. us \in Seq(MaybeUrls) /\ Len(us) = Len(ps)
      BY <2>2, <2>3
    <2> QED BY <2>1, <2>2, <2>4
  <1> QED BY <1>1, <1>2

(* open_start_page_or_restored_session: there are ids for all of the plan. *)
LEMMA StartWindowStep ==
  ASSUME IInv, ~Up, StartWindow, UNCHANGED history,
         sealed' \in {"plain", "encrypted"}, marked' \in BOOLEAN
  PROVE  IInv' /\ TabStep
  <1>1. /\ process' = "window" /\ restoring' = TRUE /\ plan' = Planned
        /\ UNCHANGED <<core, url, containers, visible, stray, failed, disk>>
    BY DEF StartWindow
  <1>2. core.next_id = 0 /\ FileOK(disk) /\ MaxPages \in Nat \ {0}
    BY AppKitBoundAssumption DEF IInv, DownOK
  <1>3. Planned \in Seq(MaybeUrls) /\ Len(Planned) <= MaxPages
    BY <1>2, PlannedOK
  <1>4. Up' /\ ~Ready'
    BY <1>1 DEF Up, Ready
  <1>5. PlanOK'
    <2>1. Len(Planned) \in Nat
      BY <1>3, LenProperties
    <2> QED BY <1>1, <1>2, <1>3, <2>1 DEF PlanOK
  <1>6. ProfileOK' /\ DownOK' /\ Saved'
    BY <1>1, <1>4 DEF IInv, ProfileOK, DownOK, Saved
  <1>7. T!Start
    BY <1>1, <1>4 DEF T!Start
  <1> QED BY <1>1, <1>5, <1>6, <1>7 DEF IInv, TabStep, T!TabsNext

(* A process gone: nothing is left but its files.                          *)
LEMMA GoneStep ==
  ASSUME IInv, Up, Gone, FileOK(disk'), FileTabs(disk') = FileTabs(disk)
  PROVE  IInv' /\ TabStep
  <1>1. /\ process' = "none" /\ UNCHANGED profileVars /\ restoring' = FALSE /\ plan' = <<>>
        /\ core' = New(core.limit) /\ url' = [p \in Ids |-> NoUrl]
        /\ containers' = {} /\ visible' = {} /\ stray' = FALSE /\ failed' = FALSE
    BY DEF Gone
  <1>2. core.limit \in Nat \cup {Unlimited} /\ core.limit \in Limits /\ MaxPages \in Nat
    BY AppKitLimitsAssumption, AppKitBoundAssumption DEF IInv, CoreOK
  <1>3. /\ Consistent(core') /\ core'.limit = core.limit /\ core'.next_id = 0
        /\ core'.pages = <<>> /\ Len(core'.pages) = 0 /\ core'.active = NoPage
        /\ Live(core') = {} /\ core'.engine = {}
    BY <1>1, <1>2, NewOK
  <1>4. ~Up' /\ ~Ready'
    BY <1>1 DEF Up, Ready
  <1>5. CoreOK(core')
    BY <1>2, <1>3 DEF CoreOK
  <1>6. ViewsOK(core', containers', visible')
    BY <1>1, <1>3 DEF ViewsOK
  <1>7. UrlsOK(url')
    BY <1>1 DEF UrlsOK, MaybeUrls
  <1>8. PlanOK'
    <2>1. <<>> \in Seq(MaybeUrls)
      OBVIOUS
    <2> QED BY <1>1, <2>1 DEF PlanOK
  <1>9. ProfileOK' /\ DownOK' /\ Saved'
    BY <1>1, <1>3, <1>4 DEF IInv, ProfileOK, DownOK, Saved, profileVars
  <1>10. T!Die
    BY <1>1, <1>3, <1>4 DEF T!Die, FileTabs
  <1> QED BY <1>5, <1>6, <1>7, <1>8, <1>9, <1>10 DEF IInv, TabStep, T!TabsNext

(* windowWillClose: what it saves is in the file already.                  *)
LEMMA WindowWillCloseStep ==
  ASSUME IInv, WindowWillClose
  PROVE  IInv' /\ TabStep
  <1>1. Ready /\ Up /\ Gone /\ disk' = SessionOf(core, url)
    BY SessionIs DEF WindowWillClose, Ready
  <1>2. FileOK(disk') /\ FileTabs(disk') = TabsOf(core)
    BY <1>1, ViewFacts, SessionOK
  <1> QED BY <1>1, <1>2, GoneStep DEF IInv, Saved

(* The system kills it.                                                    *)
LEMMA KillStep ==
  ASSUME IInv, Kill
  PROVE  IInv' /\ TabStep
  <1>1. FileOK(disk') /\ FileTabs(disk') = FileTabs(disk)
    BY DEF Kill, IInv
  <1> QED BY <1>1, GoneStep DEF Kill

(* A page of a restore: a tab more in front, or the same ones.             *)
LEMMA RestorePageStep ==
  ASSUME IInv, RestorePage
  PROVE  IInv' /\ TabStep
  <1>1. /\ Up /\ restoring /\ plan # <<>> /\ plan' = Tail(plan) /\ SaveSession
        /\ Added(core, containers, Head(plan)) \/ NotAdded(core, containers)
        /\ UNCHANGED <<process, profileVars, restoring>>
    BY DEF RestorePage
  <1>2. /\ plan \in Seq(MaybeUrls) /\ Head(plan) \in MaybeUrls
        /\ Tail(plan) \in Seq(MaybeUrls) /\ Len(Tail(plan)) = Len(plan) - 1
        /\ Len(plan) \in Nat \ {0}
    BY <1>1, HeadTailProperties, EmptySeq, LenProperties DEF IInv, PlanOK
  <1>3. core.next_id + Len(plan) <= MaxPages /\ core.next_id \in Nat /\ MaxPages \in Nat
    BY <1>1, ViewFacts, CoreFacts DEF IInv, PlanOK
  <1>4. core.next_id < MaxPages /\ core.next_id \in Ids /\ core.next_id \notin Live(core)
    BY <1>2, <1>3, ViewFacts, CoreFacts DEF Ids
  <1>5. /\ CoreOK(core') /\ ViewsOK(core', containers', visible') /\ UrlsOK(url')
        /\ stray' \in {stray, TRUE} /\ failed' \in {failed, TRUE}
        /\ core'.next_id = core.next_id + 1
        /\ \/ core'.pages = Append(core.pages, core.next_id) /\ core'.active = core.next_id
           \/ Same(core, core')
    <2>1. CASE Added(core, containers, Head(plan))
      BY <1>2, <1>4, <2>1, ViewFacts, AddedOK
    <2>2. CASE NotAdded(core, containers)
      BY <1>4, <2>2, ViewFacts, NotAddedOK DEF Same
    <2> QED BY <1>1, <2>1, <2>2
  <1>6. disk' = disk
    BY <1>1, <1>5, SavedOK DEF IInv
  <1>7. Up' /\ ~Ready' /\ UNCHANGED Up
    BY <1>1 DEF Up, Ready
  <1>8. PlanOK'
    BY <1>1, <1>2, <1>3, <1>5 DEF PlanOK
  <1>9. ProfileOK' /\ DownOK' /\ Saved'
    BY <1>1, <1>5, <1>7 DEF IInv, ProfileOK, DownOK, Saved, profileVars
  <1>10. TabStep
    <2>1. CASE core'.pages = Append(core.pages, core.next_id) /\ core'.active = core.next_id
      <3>1. T!OpenTab
        BY <1>1, <1>4, <1>7, <2>1, Mapping DEF T!OpenTab, Live
      <3> QED BY <1>1, <1>6, <3>1 DEF TabStep, T!TabsNext
    <2>2. CASE Same(core, core')
      BY <1>1, <1>6, <1>7, <2>2 DEF Same, TabStep, T!tabsVars
    <2> QED BY <1>5, <2>1, <2>2
  <1> QED BY <1>5, <1>6, <1>8, <1>9, <1>10 DEF IInv

(* The end of a restore: the page at the active index comes to the front,  *)
(* if there is one, and the file is written.                               *)
LEMMA EndRestoreStep ==
  ASSUME IInv, EndRestore
  PROVE  IInv' /\ TabStep
  <1>1. /\ Up /\ restoring /\ plan = <<>> /\ restoring' = FALSE /\ SaveSession
        /\ UNCHANGED <<process, profileVars, url, stray, plan, failed>>
        /\ \/ /\ PlannedActive \in 1..Len(core.pages)
              /\ Show(core, containers, core.pages[PlannedActive])
           \/ UNCHANGED <<core, containers, visible>>
    BY DEF EndRestore
  <1>2. /\ CoreOK(core') /\ ViewsOK(core', containers', visible')
        /\ core'.pages = core.pages /\ core'.active \in Live(core) \cup {core.active}
    <2>1. CASE /\ PlannedActive \in 1..Len(core.pages)
               /\ Show(core, containers, core.pages[PlannedActive])
      <3>1. core.pages[PlannedActive] \in Live(core)
        BY <2>1 DEF Live, Elements
      <3> QED BY <2>1, <3>1, ViewFacts, ShowOK
    <2>2. CASE UNCHANGED <<core, containers, visible>>
      BY <2>2 DEF IInv
    <2> QED BY <1>1, <2>1, <2>2
  <1>3. UrlsOK(url') /\ Up' /\ Ready' /\ UNCHANGED Up
    BY <1>1, ViewFacts DEF Up, Ready
  <1>4. FileOK(disk') /\ FileTabs(disk') = TabsOf(core')
    BY <1>1, <1>2, <1>3, SavedOK DEF IInv
  <1>5. ProfileOK' /\ PlanOK' /\ DownOK' /\ Saved'
    BY <1>1, <1>3, <1>4 DEF IInv, ProfileOK, PlanOK, DownOK, Saved, profileVars
  <1>6. T!Finish
    BY <1>1, <1>2, <1>3, Mapping DEF T!Finish, Live
  <1>7. FileTabs(disk') = T!Listed'
    BY <1>4, Mapping
  <1> QED BY <1>1, <1>2, <1>3, <1>4, <1>5, <1>6, <1>7 DEF IInv, TabStep, T!TabsNext, FileTabs

(* The state before the first launch.                                      *)
LEMMA InitOK ==
  ASSUME Init
  PROVE  IInv /\ T!TabsInit
  <1>1. PICK limit \in Limits : core = New(limit)
    BY DEF Init
  <1>2. limit \in Nat \cup {Unlimited} /\ MaxPages \in Nat
    BY AppKitLimitsAssumption, AppKitBoundAssumption
  <1>3. /\ Consistent(core) /\ core.limit = limit /\ core.next_id = 0
        /\ core.pages = <<>> /\ Len(core.pages) = 0 /\ core.active = NoPage
        /\ Live(core) = {} /\ core.engine = {}
    BY <1>1, <1>2, NewOK
  <1>4. <<>> \in Seq(MaybeUrls) /\ <<>> \in Seq([page : Ids, url : MaybeUrls]) /\ Len(<<>>) = 0
    OBVIOUS
  <1>5. disk.pages = <<>> /\ disk.active = 0
    BY DEF Init
  <1>6. FileOK(disk)
    BY <1>2, <1>4, <1>5 DEF FileOK
  <1>7. CoreOK(core) /\ ViewsOK(core, containers, visible) /\ UrlsOK(url)
    BY <1>2, <1>3 DEF Init, CoreOK, ViewsOK, UrlsOK, MaybeUrls
  <1>8. ~Up /\ ~Ready /\ ~restoring
    BY DEF Init, Up, Ready
  <1>9. ProfileOK /\ PlanOK /\ DownOK /\ Saved
    BY <1>3, <1>4, <1>8 DEF Init, ProfileOK, PlanOK, DownOK, Saved
  <1>10. FileTabs(disk) = [tabs |-> <<>>, front |-> 0]
    <2>1. [i \in 1..Len(disk.pages) |-> disk.pages[i].page] = <<>>
      BY <1>4, <1>5
    <2> QED BY <1>5, <2>1 DEF FileTabs
  <1>11. T!TabsInit
    BY <1>3, <1>8, <1>10 DEF T!TabsInit, FileTabs
  <1> QED BY <1>6, <1>7, <1>9, <1>11 DEF IInv

(* Every step keeps the invariant, and is a step of Tabs or none.          *)
LEMMA StepOK ==
  ASSUME IInv, [Next]_vars
  PROVE  IInv' /\ TabStep
  <1>1. CASE AddPageRelated \/ \E u \in Urls : AddPage(u)
    BY <1>1, AddPageStep, AddPageRelatedStep
  <1>2. CASE (\E id \in Ids : SwitchTo(id)) \/ SwitchToNextPage \/ SwitchToPreviousPage
    BY <1>2, SwitchToStep DEF SwitchToNextPage, SwitchToPreviousPage
  <1>3. CASE \E id \in Ids \cup {NoPage} : ClosePage(id)
    BY <1>3, ClosePageStep
  <1>4. CASE \E limit \in Limits : SetLimit(limit)
    BY <1>4, SetLimitStep
  <1>5. CASE \E p \in Ids, u \in Urls : Navigate(p, u)
    BY <1>5, NavigateStep
  <1>6. CASE \E p \in Ids : TitleChanged(p)
    BY <1>6, TitleChangedStep
  <1>7. CASE \/ LaunchWithLink \/ CancelChooser \/ CancelPrompt
             \/ \E setup \in BOOLEAN : LaunchAsking(setup)
    BY <1>7, BeforeStep DEF LaunchWithLink, CancelChooser, CancelPrompt, LaunchAsking, Up
  <1>8. CASE Confirm \/ Launch
    BY <1>8, StartWindowStep DEF Confirm, Launch, Up, IInv, ProfileOK
  <1>9. CASE RestorePage \/ EndRestore
    BY <1>9, RestorePageStep, EndRestoreStep
  <1>10. CASE WindowWillClose \/ Kill
    BY <1>10, WindowWillCloseStep, KillStep
  <1>11. CASE UNCHANGED vars
    <2>1. UNCHANGED T!tabsVars
      BY <1>11 DEF vars, pageVars, Up, T!tabsVars
    <2>2. UNCHANGED <<process, history, sealed, marked, core, url, containers, visible, stray,
                      restoring, plan, failed, disk>>
      BY <1>11 DEF vars, profileVars, pageVars
    <2>3. IInv'
      BY <2>2 DEF IInv, ProfileOK, PlanOK, DownOK, Saved, Ready, Up
    <2> QED BY <2>1, <2>3 DEF TabStep
  <1> QED BY <1>1, <1>2, <1>3, <1>4, <1>5, <1>6, <1>7, <1>8, <1>9, <1>10, <1>11 DEF Next

-----------------------------------------------------------------------------
(* A restore that has opened every page so far.                            *)

(* Of n pages opened one after the other, those that keep their engine.    *)
Kept(c, n) == {p \in 0 .. n - 1 : c.limit = Unlimited \/ p + 1 + Allowance(c) > n}

(* The core and the URLs when the first n of the URLs w are open: the ages *)
(* are those of the ids, and so the pages that were evicted the first ids. *)
RestoredPages(c, u, w, n) ==
  /\ Len(c.pages) = n /\ c.next_id = n
  /\ \A i \in 1..n : c.pages[i] = i - 1
  /\ \A p \in 0 .. n - 1 : c.accessed[p] = p + 1
  /\ c.loaded = Kept(c, n) /\ c.engine = Kept(c, n)
  /\ \A p \in Kept(c, n) : u[p] \in Reported(w[p + 1])

(* What is open and what is left of the plan make up the session.          *)
RestoreSoFar ==
  restoring /\ ~failed =>
    LET n == Len(core.pages)
    IN /\ n + Len(plan) = Len(Planned)
       /\ \A i \in 1..Len(plan) : plan[i] = Planned[n + i]
       /\ RestoredPages(core, url, Planned, n)

RInv == IInv /\ RestoreSoFar

(* The pages that keep their engine are the last ones, as many as allowed. *)
Oldest(c, n) == IF Allowance(c) < n THEN n - Allowance(c) ELSE 0

LEMMA IntervalCount ==
  ASSUME NEW lo \in Nat, NEW hi \in Nat, lo <= hi
  PROVE  IsFiniteSet(lo .. hi - 1) /\ Cardinality(lo .. hi - 1) = hi - lo
  <1>1. lo \in Int /\ hi - 1 \in Int
    OBVIOUS
  <1>2. /\ IsFiniteSet(lo .. hi - 1)
        /\ Cardinality(lo .. hi - 1) = IF lo > hi - 1 THEN 0 ELSE hi - 1 - lo + 1
    <2> DEFINE h == hi - 1
    <2>1. h \in Int
      BY <1>1
    <2> HIDE DEF h
    <2>2. IsFiniteSet(lo .. h) /\ Cardinality(lo .. h) = IF lo > h THEN 0 ELSE h - lo + 1
      BY <1>1, <2>1, FS_Interval
    <2> QED BY <2>2 DEF h
  <1> QED BY <1>2

LEMMA KeptInterval ==
  ASSUME NEW c, c.limit \in Nat, NEW n \in Nat
  PROVE  /\ Oldest(c, n) \in 0 .. n /\ Kept(c, n) = Oldest(c, n) .. n - 1
         /\ IsFiniteSet(Kept(c, n)) /\ Cardinality(Kept(c, n)) = n - Oldest(c, n)
         /\ \A p \in Kept(c, n) :
              Cardinality({q \in Kept(c, n) : q < p}) = p - Oldest(c, n)
  <1> DEFINE a == Allowance(c)
             lo == Oldest(c, n)
  <1>1. a \in Nat /\ c.limit # Unlimited
    BY UnlimitedAssumption DEF Allowance
  <1> HIDE DEF a
  <1>2. lo = IF a < n THEN n - a ELSE 0
    BY DEF Oldest, a
  <1>3. lo \in 0 .. n /\ lo \in Nat /\ lo <= n
    BY <1>1, <1>2
  <1> HIDE DEF lo
  <1>4. Kept(c, n) = lo .. n - 1
    BY <1>1, <1>2, <1>3 DEF Kept, a
  <1>5. IsFiniteSet(lo .. n - 1) /\ Cardinality(lo .. n - 1) = n - lo
    BY <1>3, IntervalCount
  <1>6. ASSUME NEW p \in Kept(c, n)
        PROVE  Cardinality({q \in Kept(c, n) : q < p}) = p - lo
    <2>1. p \in Nat /\ lo <= p
      BY <1>3, <1>4
    <2>2. {q \in Kept(c, n) : q < p} = lo .. p - 1
      BY <1>3, <1>4, <2>1
    <2>3. Cardinality(lo .. p - 1) = p - lo
      BY <1>3, <2>1, IntervalCount
    <2> QED BY <2>2, <2>3
  <1> QED BY <1>3, <1>4, <1>5, <1>6 DEF lo

(* The page that joins them pushes the oldest one out, if any.             *)
LEMMA NextEvicted ==
  ASSUME NEW d, Consistent(d), NEW n \in Nat, d.active = n, d.loaded = Kept(d, n) \cup {n},
         \A p \in 0 .. n : d.accessed[p] = p + 1
  PROVE  d.loaded \ Evicted(d) = Kept(d, n + 1)
  <1>1. n \notin Kept(d, n) /\ \A p \in Kept(d, n) : p \in 0 .. n - 1
    BY DEF Kept
  <1>2. Candidates(d) = Kept(d, n)
    BY <1>1 DEF Candidates
  <1>3. CASE d.limit = Unlimited
    <2>1. Evicted(d) = {} /\ Kept(d, n) = 0 .. n - 1 /\ Kept(d, n + 1) = 0 .. n
      BY <1>3 DEF Evicted, Kept
    <2> QED BY <2>1
  <1>4. CASE d.limit # Unlimited
    <2> DEFINE lo == Oldest(d, n)
               up == Oldest(d, n + 1)
               K == Kept(d, n)
    <2>1. d.limit \in Nat /\ n + 1 \in Nat
      BY <1>4 DEF Consistent, CoreTypeOK
    <2>2. /\ lo \in 0 .. n /\ K = lo .. n - 1 /\ IsFiniteSet(K) /\ Cardinality(K) = n - lo
          /\ \A p \in K : Cardinality({q \in K : q < p}) = p - lo
      BY <2>1, KeptInterval
    <2>3. up \in 0 .. n + 1 /\ Kept(d, n + 1) = up .. (n + 1) - 1
      BY <2>1, KeptInterval
    <2>4. /\ lo = IF d.limit = 0 THEN IF 1 < n THEN n - 1 ELSE 0
                  ELSE IF d.limit < n THEN n - d.limit ELSE 0
          /\ up = IF d.limit = 0 THEN n
                  ELSE IF d.limit < n + 1 THEN n + 1 - d.limit ELSE 0
      BY <2>1 DEF Oldest, Allowance
    <2> HIDE DEF lo, up, K
    <2>5. n \notin K /\ d.loaded = K \cup {n} /\ Candidates(d) = K
      BY <1>1, <1>2 DEF K
    <2>6. Cardinality(d.loaded) = n - lo + 1
      <3>1. Cardinality(K \cup {n}) = Cardinality(K) + 1
        BY <2>2, <2>5, FS_AddElement
      <3> QED BY <2>2, <2>5, <3>1
    <2>7. ASSUME NEW p \in K
          PROVE  Cardinality(Older(d, p)) = p - lo
      <3>1. Older(d, p) = {q \in K : q < p}
        BY <2>2, <2>5 DEF Older
      <3> QED BY <2>2, <3>1
    <2>8. ASSUME NEW p \in K
          PROVE  p \in Evicted(d) <=> n + 1 - p > d.limit
      <3>1. Cardinality(d.loaded) - Cardinality(Older(d, p)) = n + 1 - p
        <4>1. p \in Nat /\ lo \in Nat
          BY <2>2
        <4> QED BY <2>6, <2>7, <4>1
      <3> QED BY <1>4, <2>5, <3>1 DEF Evicted
    <2>9. n \notin Evicted(d)
      BY <2>5 DEF Evicted
    <2>10. ASSUME NEW p
           PROVE  p \in d.loaded \ Evicted(d) <=> p \in up .. n
      <3>1. CASE p = n
        BY <2>1, <2>3, <2>4, <2>5, <2>9, <3>1
      <3>2. CASE p # n
        <4>1. p \in d.loaded \ Evicted(d) <=> p \in lo .. n - 1 /\ ~(n + 1 - p > d.limit)
          BY <2>2, <2>5, <2>8, <3>2
        <4>2. p \in lo .. n - 1 /\ ~(n + 1 - p > d.limit) <=> p \in up .. n
          <5>1. n \in Nat /\ lo \in 0 .. n /\ up \in 0 .. n + 1 /\ d.limit \in Nat
            BY <2>1, <2>2, <2>3
          <5>2. CASE d.limit = 0
            BY <2>4, <3>2, <5>1, <5>2
          <5>3. CASE d.limit # 0 /\ d.limit < n + 1
            <6>1. up = n + 1 - d.limit /\ lo <= up
              BY <2>4, <5>1, <5>3
            <6> QED BY <3>2, <5>1, <5>3, <6>1
          <5>4. CASE d.limit # 0 /\ ~(d.limit < n + 1)
            <6>1. up = 0 /\ lo = 0
              BY <2>4, <5>1, <5>4
            <6> QED BY <3>2, <5>1, <5>4, <6>1
          <5> QED BY <5>2, <5>3, <5>4
        <4> QED BY <4>1, <4>2
      <3> QED BY <3>1, <3>2
    <2> QED BY <2>3, <2>10
  <1> QED BY <1>3, <1>4

(* The pages that are open.                                                *)
LEMMA RestoredLive ==
  ASSUME NEW c, NEW u, NEW w, NEW n \in Nat, RestoredPages(c, u, w, n)
  PROVE  Live(c) = 0 .. n - 1
  <1>1. Len(c.pages) = n /\ \A i \in 1..n : c.pages[i] = i - 1
    BY DEF RestoredPages
  <1>2. ASSUME NEW p \in 0 .. n - 1 PROVE p \in Live(c)
    <2>1. p + 1 \in 1..n /\ c.pages[p + 1] = p
      BY <1>1
    <2> QED BY <1>1, <2>1 DEF Live, Elements
  <1>3. ASSUME NEW p \in Live(c) PROVE p \in 0 .. n - 1
    <2>1. PICK i \in 1..n : p = c.pages[i]
      BY <1>1 DEF Live, Elements
    <2> QED BY <1>1, <2>1
  <1> QED BY <1>2, <1>3

(* add_page, for the next URL of the plan.                                 *)
LEMMA AddedRestores ==
  ASSUME NEW c, NEW k, NEW w, NEW n \in Nat, CoreOK(c), UrlsOK(url), n < MaxPages,
         RestoredPages(c, url, w, n), Added(c, k, w[n + 1])
  PROVE  RestoredPages(core', url', w, n + 1)
  <1> DEFINE a == AllocateId(c)
             d == Inserted(a, n)
             gone == Evicted(d)
             f == Enforced(d)
             e == Unload(f, gone)
  <1>1. /\ c.next_id = n /\ Len(c.pages) = n /\ c.loaded = Kept(c, n) /\ c.engine = Kept(c, n)
        /\ \A i \in 1..n : c.pages[i] = i - 1
        /\ \A p \in 0 .. n - 1 : c.accessed[p] = p + 1
        /\ \A p \in Kept(c, n) : url[p] \in Reported(w[p + 1])
        /\ Live(c) = 0 .. n - 1
    BY RestoredLive DEF RestoredPages
  <1>2. /\ core' = SetActive(e, n)
        /\ \E r \in Reported(w[n + 1]) : url' = [Without(url, gone) EXCEPT ![n] = r]
    BY <1>1 DEF Added, Show
  <1>3. /\ Consistent(a) /\ a.next_id = n + 1 /\ Live(a) = Live(c)
        /\ a.pages = c.pages /\ a.accessed = c.accessed
    BY <1>1, AllocateOK DEF CoreOK, Fields
  <1>4. /\ CoreOK(d) /\ Live(d) = Live(c) \cup {n} /\ d.loaded = Kept(c, n) \cup {n}
        /\ d.engine = Kept(c, n) \cup {n} /\ d.pages = Append(c.pages, n)
        /\ d.next_id = n + 1 /\ d.limit = c.limit /\ d.active = n
    <2>1. /\ CoreOK(d) /\ Live(d) = Live(c) \cup {c.next_id}
          /\ d.loaded = c.loaded \cup {c.next_id} /\ d.engine = c.engine \cup {c.next_id}
          /\ d.pages = Append(c.pages, c.next_id) /\ d.next_id = c.next_id + 1
          /\ d.limit = c.limit /\ d.active = c.next_id
      <3>1. d = Inserted(AllocateId(c), c.next_id) /\ c.next_id < MaxPages
        BY <1>1
      <3> HIDE DEF d
      <3> QED BY <3>1, GrownOK
    <2> HIDE DEF d
    <2> QED BY <1>1, <2>1
  <1>5. \A p \in 0 .. n : d.accessed[p] = p + 1
    <2>1. n \in 0 .. a.next_id - 1 /\ n \notin Live(a)
      BY <1>1, <1>3
    <2>2. d.accessed[n] = Len(a.pages) + 1 /\ \A q \in Live(a) : d.accessed[q] = a.accessed[q]
      BY <1>3, <2>1, InsertedAges
    <2> HIDE DEF a, d
    <2>3. ASSUME NEW p \in 0 .. n PROVE d.accessed[p] = p + 1
      <3>1. p = n \/ p \in 0 .. n - 1
        OBVIOUS
      <3> QED BY <1>1, <1>3, <2>2, <3>1
    <2> QED BY <2>3
  <1> HIDE DEF a, d
  <1>6. Kept(d, n) = Kept(c, n) /\ Kept(d, n + 1) \subseteq 0 .. n
    BY <1>4 DEF Kept, Allowance
  <1>7. d.loaded \ gone = Kept(d, n + 1) /\ d.engine \ gone = Kept(d, n + 1)
    <2>1. d.loaded \ gone = Kept(d, n + 1)
      BY <1>4, <1>5, <1>6, NextEvicted DEF CoreOK
    <2> QED BY <1>4, <2>1
  <1>8. /\ Consistent(e) /\ Live(e) = Live(d) /\ e.pages = d.pages /\ e.accessed = d.accessed
        /\ e.loaded = Kept(d, n + 1) /\ e.engine = Kept(d, n + 1)
        /\ e.next_id = n + 1 /\ e.limit = c.limit
    <2>1. /\ Consistent(f) /\ Live(f) = Live(d) /\ f.loaded = d.loaded \ gone
          /\ \A g \in Fields \ {"loaded"} : f[g] = d[g]
      BY <1>4, EnforcedOK DEF CoreOK
    <2> HIDE DEF f, gone
    <2>2. /\ Consistent(e) /\ Live(e) = Live(f) /\ e.engine = f.engine \ gone
          /\ \A g \in Fields \ {"engine"} : e[g] = f[g]
      BY <2>1, EnginesDroppedOK DEF Unload
    <2> HIDE DEF e
    <2>3. /\ f.pages = d.pages /\ f.accessed = d.accessed /\ f.engine = d.engine
          /\ f.next_id = d.next_id /\ f.limit = d.limit
      BY <2>1 DEF Fields
    <2>4. /\ e.pages = f.pages /\ e.accessed = f.accessed /\ e.loaded = f.loaded
          /\ e.next_id = f.next_id /\ e.limit = f.limit
      BY <2>2 DEF Fields
    <2> QED BY <1>4, <1>7, <2>1, <2>2, <2>3, <2>4
  <1> HIDE DEF e, f
  <1>9. /\ Len(d.pages) = n + 1 /\ \A i \in 1 .. n + 1 : d.pages[i] = i - 1
    <2>1. c.pages \in Seq(Nat)
      BY CoreFacts
    <2>2. /\ Len(Append(c.pages, n)) = n + 1 /\ Append(c.pages, n)[n + 1] = n
          /\ \A i \in 1..n : Append(c.pages, n)[i] = c.pages[i]
      BY <1>1, <2>1, ElementsAppend
    <2> QED BY <1>1, <1>4, <2>2
  <1>10. n \in Live(e) /\ n \in Nat /\ n \in Kept(d, n + 1) /\ Live(e) = 0 .. n
    <2>1. d.limit \in Nat \cup {Unlimited}
      BY <1>4, CoreFacts
    <2>2. n \in Kept(d, n + 1)
      <3>1. d.limit = Unlimited \/ (Allowance(d) > 0 /\ Allowance(d) \in Nat)
        BY <2>1 DEF Allowance
      <3> QED BY <3>1 DEF Kept
    <2> QED BY <1>1, <1>4, <1>8, <2>2
  <1>11. /\ core'.pages = e.pages /\ core'.engine = e.engine /\ core'.next_id = e.next_id
         /\ core'.limit = e.limit /\ core'.loaded = e.loaded
         /\ \A q \in Live(e) : core'.accessed[q] = e.accessed[q]
    <2>1. /\ core'.loaded = e.loaded \cup ({n} \cap Live(e))
          /\ \A g \in {"pages", "engine", "limit", "next_id"} : core'[g] = e[g]
      BY <1>2, <1>8, SetActiveOK
    <2>2. e.accessed[n] = Len(e.pages)
      BY <1>5, <1>8, <1>9
    <2>3. \A q \in Live(e) : core'.accessed[q] = e.accessed[q]
      BY <1>2, <1>8, <1>10, <2>2, YoungestActivated
    <2> QED BY <1>8, <1>10, <2>1, <2>3
  <1>12. Kept(core', n + 1) = Kept(d, n + 1)
    BY <1>4, <1>8, <1>11 DEF Kept, Allowance
  <1>13. \A p \in Kept(d, n + 1) : url'[p] \in Reported(w[p + 1])
    <2> PICK r \in Reported(w[n + 1]) : url' = [Without(url, gone) EXCEPT ![n] = r]
      BY <1>2
    <2>1. n < MaxPages /\ n \in Ids
      BY AppKitBoundAssumption DEF Ids
    <2>2. ASSUME NEW p \in Kept(d, n + 1), p # n
          PROVE  url'[p] \in Reported(w[p + 1])
      <3>1. p \in Kept(c, n) /\ p \notin gone /\ p \in 0 .. n - 1
        BY <1>1, <1>4, <1>6, <1>7, <2>2
      <3>2. p \in Ids
        BY <2>1, <3>1, AppKitBoundAssumption DEF Ids
      <3>3. url'[p] = url[p]
        BY <2>2, <3>1, <3>2 DEF Without
      <3> QED BY <1>1, <3>1, <3>3
    <2>3. url'[n] \in Reported(w[n + 1])
      BY <2>1 DEF Without
    <2> QED BY <2>2, <2>3
  <1> QED BY <1>5, <1>8, <1>9, <1>10, <1>11, <1>12, <1>13 DEF RestoredPages

(* A restore starts with nothing open, ...                                 *)
LEMMA RestoreStarts ==
  ASSUME IInv, ~Up, StartWindow
  PROVE  RestoreSoFar'
  <1>1. plan' = Planned /\ core' = core /\ Planned' = Planned
    BY DEF StartWindow, Planned
  <1>2. core.next_id = 0 /\ Len(core.pages) = 0 /\ Live(core) = {}
    <2>1. core.next_id = 0 /\ Len(core.pages) <= core.next_id /\ Len(core.pages) \in Nat
      BY ViewFacts, CoreFacts DEF IInv, DownOK, CoreOK
    <2>2. Len(core.pages) = 0
      BY <2>1
    <2> QED BY <2>1, <2>2 DEF Live, Elements
  <1>3. core.loaded = {} /\ core.engine = {} /\ Kept(core, 0) = {}
    BY <1>2, ViewFacts, CoreFacts DEF Kept
  <1>4. Len(Planned) \in Nat
    BY PlannedOK, LenProperties DEF IInv
  <1>5. RestoredPages(core', url', Planned', 0)
    BY <1>1, <1>2, <1>3 DEF RestoredPages
  <1> QED BY <1>1, <1>2, <1>4, <1>5 DEF RestoreSoFar

(* ... goes on with the pages that open, ...                               *)
LEMMA RestoreGoesOn ==
  ASSUME RInv, RestorePage
  PROVE  RestoreSoFar'
  <1> DEFINE n == Len(core.pages)
  <1>1. /\ restoring /\ plan # <<>> /\ plan' = Tail(plan) /\ SaveSession
        /\ Added(core, containers, Head(plan)) \/ NotAdded(core, containers)
        /\ restoring' = restoring
    BY DEF RestorePage
  <1> SUFFICES ASSUME ~failed'
               PROVE  LET m == Len(core'.pages)
                      IN /\ m + Len(plan') = Len(Planned')
                         /\ \A i \in 1..Len(plan') : plan'[i] = Planned'[m + i]
                         /\ RestoredPages(core', url', Planned', m)
    BY DEF RestoreSoFar
  <1>2. Added(core, containers, Head(plan)) /\ failed' = failed /\ ~failed
    BY <1>1 DEF NotAdded, Added
  <1>3. disk' = disk /\ Planned' = Planned
    BY <1>1 DEF SaveSession, Planned
  <1>4. /\ n + Len(plan) = Len(Planned) /\ RestoredPages(core, url, Planned, n)
        /\ \A i \in 1..Len(plan) : plan[i] = Planned[n + i]
    BY <1>1, <1>2 DEF RInv, RestoreSoFar
  <1>5. IInv /\ CoreOK(core) /\ UrlsOK(url) /\ n \in Nat /\ core.next_id = n
    BY <1>4, ViewFacts, CoreFacts DEF RInv, RestoredPages
  <1>6. /\ plan \in Seq(MaybeUrls) /\ n + Len(plan) <= MaxPages
    BY <1>1, <1>5 DEF IInv, PlanOK
  <1>7. /\ Head(plan) = plan[1] /\ Len(plan) \in Nat \ {0} /\ Len(Tail(plan)) = Len(plan) - 1
        /\ \A i \in 1..Len(Tail(plan)) : Tail(plan)[i] = plan[i + 1]
    BY <1>1, <1>6, HeadTailProperties, EmptySeq, LenProperties
  <1>8. Head(plan) = Planned[n + 1] /\ n < MaxPages
    BY <1>4, <1>5, <1>6, <1>7, AppKitBoundAssumption
  <1> HIDE DEF n
  <1>9. RestoredPages(core', url', Planned, n + 1)
    BY <1>2, <1>4, <1>5, <1>8, AddedRestores
  <1>10. Len(core'.pages) = n + 1
    BY <1>9 DEF RestoredPages
  <1>11. \A i \in 1..Len(plan') : plan'[i] = Planned[(n + 1) + i]
    <2>1. ASSUME NEW i \in 1..Len(Tail(plan)) PROVE Tail(plan)[i] = Planned[(n + 1) + i]
      <3>1. i + 1 \in 1..Len(plan) /\ n + (i + 1) = (n + 1) + i
        BY <1>5, <1>7
      <3> QED BY <1>4, <1>7, <3>1
    <2> QED BY <1>1, <2>1
  <1>12. (n + 1) + Len(plan') = Len(Planned)
    BY <1>1, <1>4, <1>5, <1>7
  <1> QED BY <1>3, <1>9, <1>10, <1>11, <1>12

(* ... and is then of no concern.  Nothing else happens in a restore.      *)
LEMMA RestoreStep ==
  ASSUME RInv, [Next]_vars
  PROVE  RestoreSoFar'
  <1>1. CASE Confirm \/ Launch
    BY <1>1, RestoreStarts DEF Confirm, Launch, Up, RInv
  <1>2. CASE RestorePage
    BY <1>2, RestoreGoesOn
  <1>3. CASE ~restoring'
    BY <1>3 DEF RestoreSoFar
  <1>4. CASE EndRestore \/ WindowWillClose \/ Kill
    BY <1>3, <1>4 DEF EndRestore, WindowWillClose, Kill, Gone
  <1>5. CASE Ready /\ UNCHANGED restoring
    BY <1>3, <1>5 DEF Ready
  <1>6. CASE UNCHANGED pageVars /\ UNCHANGED disk
    <2>1. Planned' = Planned /\ RestoreSoFar
      BY <1>6 DEF Planned, RInv
    <2> QED BY <1>6, <2>1 DEF RestoreSoFar, pageVars
  <1>8. CASE \/ AddPageRelated \/ \E u \in Urls : AddPage(u)
             \/ \E id \in Ids \cup {NoPage} : ClosePage(id)
             \/ \E limit \in Limits : SetLimit(limit)
             \/ \E p \in Ids, u \in Urls : Navigate(p, u)
             \/ \E p \in Ids : TitleChanged(p)
    BY <1>5, <1>8 DEF AddPage, AddPageRelated, ClosePage, SetLimit, Navigate, TitleChanged, pageVars
  <1>9. CASE (\E id \in Ids : SwitchTo(id)) \/ SwitchToNextPage \/ SwitchToPreviousPage
    BY <1>5, <1>9 DEF SwitchTo, SwitchToNextPage, SwitchToPreviousPage
  <1>10. CASE \/ LaunchWithLink \/ CancelChooser \/ CancelPrompt
              \/ \E setup \in BOOLEAN : LaunchAsking(setup)
    BY <1>6, <1>10 DEF LaunchWithLink, CancelChooser, CancelPrompt, LaunchAsking
  <1>11. CASE UNCHANGED vars
    BY <1>6, <1>11 DEF vars
  <1> QED BY <1>1, <1>2, <1>4, <1>8, <1>9, <1>10, <1>11 DEF Next

(* The end of a restore in which every page opened.                        *)
LEMMA RestoreEnds ==
  ASSUME RInv, EndRestore, ~failed
  PROVE  /\ Len(disk'.pages) = Len(Planned)
         /\ PlannedActive # 0 => disk'.active = PlannedActive
         /\ \A i \in 1..Len(Planned) :
              disk'.pages[i].url \in
                IF core.limit # Unlimited /\ i + Allowance(core) <= Len(Planned)
                THEN {NoUrl} ELSE Reported(Planned[i])
  <1> DEFINE n == Len(Planned)
             w == Planned
             a == PlannedActive
  <1>1. /\ restoring /\ plan = <<>> /\ restoring' = FALSE /\ SaveSession /\ url' = url
        /\ \/ a \in 1..Len(core.pages) /\ core' = SetActive(core, core.pages[a])
           \/ a \notin 1..Len(core.pages) /\ core' = core
    BY DEF EndRestore, Show
  <1>2. /\ IInv /\ CoreOK(core) /\ Consistent(core) /\ UrlsOK(url)
        /\ core.limit \in Nat \cup {Unlimited}
    BY ViewFacts, CoreFacts DEF RInv
  <1>3. w \in Seq(MaybeUrls) /\ n \in Nat /\ a \in 0 .. n
    <2>1. w \in Seq(MaybeUrls) /\ n \in Nat
      BY <1>2, PlannedOK, LenProperties DEF IInv
    <2>2. a \in 0 .. n
      <3>1. CASE disk.pages = <<>>
        <4>1. a = 1 /\ w = <<StartPage>>
          BY <3>1 DEF PlannedActive, Planned
        <4>2. Len(<<StartPage>>) = 1
          OBVIOUS
        <4> QED BY <4>1, <4>2
      <3>2. CASE disk.pages # <<>>
        <4> DEFINE ps == disk.pages
        <4>1. a = disk.active /\ w = [i \in 1..Len(ps) |-> ps[i].url]
          BY <3>2 DEF PlannedActive, Planned
        <4>2. Len(ps) \in Nat /\ disk.active \in 0 .. Len(ps)
          BY <1>2, LenProperties DEF IInv, FileOK
        <4> HIDE DEF ps
        <4>3. Len([i \in 1..Len(ps) |-> ps[i].url]) = Len(ps)
          BY <4>2
        <4> QED BY <4>1, <4>2, <4>3
      <3> QED BY <3>1, <3>2
    <2> QED BY <2>1, <2>2
  <1>4. RestoredPages(core, url, w, n) /\ Len(core.pages) = n
    <2>1. /\ Len(core.pages) + Len(plan) = Len(Planned)
          /\ RestoredPages(core, url, Planned, Len(core.pages))
      BY <1>1 DEF RInv, RestoreSoFar
    <2>2. Len(plan) = 0 /\ Len(core.pages) \in Nat
      BY <1>1, <1>2, CoreFacts
    <2> QED BY <1>3, <2>1, <2>2
  <1> HIDE DEF n, w, a
  <1>5. /\ core.engine = Kept(core, n) /\ Live(core) = 0 .. n - 1
        /\ \A i \in 1..n : core.pages[i] = i - 1
        /\ \A p \in Kept(core, n) : url[p] \in Reported(w[p + 1])
    BY <1>3, <1>4, RestoredLive DEF RestoredPages
  <1>6. /\ Consistent(core') /\ Live(core') = Live(core)
        /\ core'.pages = core.pages /\ core'.engine = core.engine
        /\ a \in 1..n => core'.active = a - 1
    <2>1. CASE a \in 1..n
      <3>1. core' = SetActive(core, a - 1) /\ a - 1 \in Nat
        BY <1>1, <1>3, <1>4, <1>5, <2>1
      <3> QED BY <1>2, <3>1, SetActiveOK
    <2>2. CASE a \notin 1..n
      BY <1>1, <1>2, <1>4, <2>2
    <2> QED BY <2>1, <2>2
  <1>7. disk' = SessionOf(core', url)
    BY <1>1, SessionIs DEF SaveSession
  <1> DEFINE E(i) == [page |-> core.pages[i],
                      url |-> IF core.pages[i] \in core.engine THEN url[core.pages[i]] ELSE NoUrl]
  <1>8. disk'.pages = [i \in 1..n |-> E(i)]
    BY <1>4, <1>6, <1>7 DEF SessionOf
  <1>9. Len(disk'.pages) = n
    <2> HIDE DEF E
    <2> QED BY <1>3, <1>8
  <1>10. ASSUME a # 0 PROVE disk'.active = a
    <2>1. a \in 1..n /\ core'.active = a - 1 /\ a - 1 \in Live(core')
      BY <1>3, <1>5, <1>6, <1>10
    <2>2. disk'.active = Position(core', a - 1)
      BY <1>7, <2>1 DEF SessionOf
    <2>3. /\ Position(core', a - 1) \in 1..n
          /\ core.pages[Position(core', a - 1)] = a - 1
      BY <1>4, <1>6, <2>1, PositionOf
    <2> QED BY <1>5, <2>1, <2>2, <2>3
  <1>11. ASSUME NEW i \in 1..n
         PROVE  disk'.pages[i].url \in
                  IF core.limit # Unlimited /\ i + Allowance(core) <= n
                  THEN {NoUrl} ELSE Reported(w[i])
    <2>1. disk'.pages[i].url = IF i - 1 \in Kept(core, n) THEN url[i - 1] ELSE NoUrl
      BY <1>5, <1>8
    <2>2. i - 1 \in 0 .. n - 1 /\ i - 1 + 1 = i
      BY <1>3
    <2>3. i - 1 \in Kept(core, n) => url[i - 1] \in Reported(w[i])
      BY <1>5, <2>2
    <2>4. i - 1 \in Kept(core, n) <=> ~(core.limit # Unlimited /\ i + Allowance(core) <= n)
      <3>1. core.limit # Unlimited => Allowance(core) \in Nat
        BY <1>2 DEF Allowance
      <3> QED BY <1>3, <2>2, <3>1 DEF Kept
    <2> QED BY <2>1, <2>3, <2>4
  <1> QED BY <1>9, <1>10, <1>11 DEF n, w, a

-----------------------------------------------------------------------------
(* The invariant holds in every behaviour.                                 *)
LEMMA AppKitInvariant == Spec => []IInv
  <1>1. Init => IInv
    BY InitOK
  <1>2. IInv /\ [Next]_vars => IInv'
    BY StepOK
  <1> QED BY <1>1, <1>2, PTL DEF Spec

(* Every variable of the front end and of its session file has its type,   *)
(* in every behaviour: a page is in the Vec once and under an id of its    *)
(* own, and only pages have containers.                                    *)
THEOREM AppKitTypesCorrect == Spec => []TypeOK
  <1>1. IInv => TypeOK
    <2> SUFFICES ASSUME IInv PROVE TypeOK
      OBVIOUS
    <2>1. CoreTypeOK(core) /\ IdsUnique(core) /\ AgesTotal(core)
      BY DEF IInv, CoreOK, Consistent
    <2> QED BY <2>1 DEF IInv, TypeOK, CoreOK, ProfileOK, UrlsOK, ViewsOK, FileOK, PlanOK, MaybeUrls
  <1> QED BY <1>1, AppKitInvariant, PTL

(* However pages are opened, shown, evicted and closed, and whichever      *)
(* engine cannot be built: every engine has its container and counts       *)
(* against the limit, and a page in front that has an engine is visible.   *)
THEOREM AppKitViewsFollow == Spec => []WebviewsFollowPages
  <1>1. IInv => WebviewsFollowPages
    BY DEF IInv, ViewsOK, WebviewsFollowPages
  <1> QED BY <1>1, AppKitInvariant, PTL

(* The handlers implement Tabs: at whatever moment the process dies, the   *)
(* session file names the open tabs in order with the one in front, or     *)
(* those a restore was at work on; and closing the tab in front brings the *)
(* first of the others there (save_session, close_page, restoring).        *)
THEOREM AppKitImplementsTabs == Spec => RefinesTabs
  <1>1. Init => T!TabsInit
    BY InitOK
  <1>2. IInv /\ [Next]_vars => [T!TabsNext]_(T!tabsVars)
    BY StepOK DEF TabStep
  <1> QED BY <1>1, <1>2, AppKitInvariant, PTL DEF Spec, RefinesTabs, T!TabsSpec

(* However many pages a session has and however few may be loaded: if all  *)
(* of them opened, the file written when the restore ends lists them all   *)
(* in their order, with the same one in front; the last ones, as many as   *)
(* the limit leaves loaded, have their own URLs or, not yet navigated,     *)
(* none, and the others have lost them                                     *)
(* (open_start_page_or_restored_session, insert, unload_engines).          *)
THEOREM AppKitRestores == Spec => RestoreIsFaithful
  <1>1. Init => RInv
    BY InitOK DEF Init, RInv, RestoreSoFar
  <1>2. RInv /\ [Next]_vars => RInv'
    BY StepOK, RestoreStep DEF RInv
  <1>3. Spec => []RInv
    BY <1>1, <1>2, PTL DEF Spec
  <1> DEFINE Ends ==
        restoring /\ ~restoring' /\ Up' /\ ~failed =>
          /\ Len(disk'.pages) = Len(Planned)
          /\ PlannedActive # 0 => disk'.active = PlannedActive
          /\ \A i \in 1..Len(Planned) :
               disk'.pages[i].url \in
                 IF core.limit # Unlimited /\ i + Allowance(core) <= Len(Planned)
                 THEN {NoUrl} ELSE Reported(Planned[i])
  <1>4. RInv /\ [Next]_vars => [Ends]_vars
    <2> SUFFICES ASSUME RInv, Next, restoring, ~restoring', Up', ~failed
                 PROVE  EndRestore
      BY RestoreEnds
    <2>1. ~Ready /\ restoring' # restoring
      BY DEF Ready
    <2>2. ~Up' \/ ~Gone
      BY DEF Gone, Up
    <2> QED BY <2>1, <2>2 DEF Next, AddPage, AddPageRelated, SwitchTo, SwitchToNextPage,
               SwitchToPreviousPage, ClosePage, SetLimit, Navigate, TitleChanged, LaunchWithLink,
               CancelChooser, LaunchAsking, Confirm, CancelPrompt, Launch, StartWindow,
               RestorePage, WindowWillClose, Kill, pageVars
  <1> QED BY <1>3, <1>4, PTL DEF RestoreIsFaithful, Spec

-----------------------------------------------------------------------------
(* The panels of the AppKit front end (module AppKitOverlays), with state  *)
(* of their own.                                                           *)

CONSTANTS
  NoText, Visited, Actions, Chords, NoAction, NoChord, KeyEquivalent, Contents, Site, MaxLogins

VARIABLES
  pages, active, nextId, urlOf, overlay, panels, text, rows, selected,
  bookmarks, bookmarkRows, star, starOf, unlocked, known, logins, nextLogin, born,
  loginRows, editing, editingBorn, bindings, bindingRows, menu, listening, aborted

Panels == INSTANCE AppKitOverlays WITH url <- urlOf

PanelsAssumed ==
  /\ Panels!OverlayUrlsAssumption /\ Panels!OverlayKeysAssumption
  /\ Panels!OverlaySitesAssumption /\ Panels!OverlayBoundsAssumption

(* No entry twice.                                                         *)
Distinct(s) == \A i, j \in 1..Len(s) : s[i] = s[j] => i = j

(* The inductive invariant, by what it is about.                           *)
PanelPagesOK ==
  /\ pages \in Seq(Panels!Ids) /\ Panels!Open \subseteq 1 .. nextId - 1 /\ Distinct(pages)
  /\ nextId \in 1 .. MaxPages + 1 /\ active \in 1 .. nextId - 1
  /\ urlOf \in [Panels!Ids -> Panels!Texts]

PanelViewOK ==
  /\ overlay \in Panels!Overlays /\ panels = {overlay} \ {"none"}
  /\ text \in Panels!Texts

(* Of an open switcher: the rows are of open pages and of URLs.            *)
PanelRowsOK ==
  /\ selected \in Nat
  /\ overlay = "switcher" =>
       /\ rows \in Seq(RowsOf(Panels!Open, Panels!Texts))
       /\ Apart(Panels!Ids, Panels!Texts) => \E k : Tiled(rows, Panels!Open, Panels!Texts, {k})

PanelMarksOK ==
  /\ bookmarks \in Seq(Panels!Texts) /\ bookmarkRows \in Seq(Panels!Texts)
  /\ starOf \in Panels!Texts \cup {NoRow} /\ star = (starOf \in Panels!InOrder(bookmarks))

(* Ids are given once: a row or a form has the id of the login it shows or *)
(* of none.                                                                *)
LoginsOK(store, next, b) ==
  \A id \in DOMAIN store :
    /\ id \in Nat \ {0} /\ id < next
    /\ store[id] \in [born : Nat, content : Contents] /\ store[id].born \in 1..b
LoginRowsOK(s, store, next, b) ==
  /\ s \in Seq([id : Nat, born : Nat, site : Urls])
  /\ \A i \in 1..Len(s) : /\ s[i].id < next /\ s[i].born <= b
                          /\ s[i].id \in DOMAIN store => store[s[i].id].born = s[i].born

PanelVaultOK ==
  /\ unlocked \in BOOLEAN /\ known \in BOOLEAN /\ (unlocked => known)
  /\ nextLogin \in Nat \ {0} /\ born \in Nat
  /\ LoginsOK(logins, nextLogin, born) /\ LoginRowsOK(loginRows, logins, nextLogin, born)
  /\ editing \in Nat /\ editing < nextLogin /\ editingBorn \in 0..born
  /\ editing \in DOMAIN logins => logins[editing].born = editingBorn

PanelKeysOK ==
  /\ bindings \in [Actions -> Seq(Chords)] /\ bindingRows \in [Actions -> Seq(Chords)]
  /\ menu = Panels!Equivalents(bindings) /\ listening \in Actions \cup {NoAction}
  /\ overlay = "settings" => bindingRows = bindings

PanelsInv ==
  PanelPagesOK /\ PanelViewOK /\ PanelRowsOK /\ PanelMarksOK /\ PanelVaultOK /\ PanelKeysOK

(* What VaultChangesAreShown asks of a step.                               *)
VaultStep ==
  loginRows' # loginRows \/ editing' # editing =>
    \A id \in DOMAIN logins :
       id \notin DOMAIN logins' \/ logins'[id] # logins[id] =>
         \/ id \in DOMAIN logins' /\ logins[id].born = editingBorn
         \/ id \notin DOMAIN logins' /\ \E i \in 1..Len(loginRows) : loginRows[i].born = logins[id].born

(* What TilesAreNew asks of one.                                           *)
TilesFresh ==
  \A i \in 1..Len(rows) :
    rows[i].kind \in {"history", "bookmark"} => \A p \in Panels!Open : urlOf[p] # rows[i].of
TilesStep ==
  rows' # rows => TilesFresh'

LEMMA PanelsConstants ==
  ASSUME PanelsAssumed
  PROVE  /\ StartPage \in Urls /\ Visited \in Seq(Urls) /\ Visited \in Seq(Panels!Texts)
         /\ Urls \subseteq Panels!Texts /\ NoText \in Panels!Texts /\ NoRow \notin Panels!Texts
         /\ \A t \in Panels!Texts : t # NoText => t \in Urls
         /\ KeyEquivalent \in [Chords -> Chords \cup {NoChord}]
         /\ Site \in [Contents -> Urls] /\ MaxPages \in Nat \ {0}
         /\ Panels!Ids = 1..MaxPages
  <1>1. Urls \subseteq Panels!Texts /\ Visited \in Seq(Urls)
    BY DEF PanelsAssumed, Panels!OverlayUrlsAssumption, Panels!Texts
  <1>2. \A n \in 1..Len(Visited) : Visited[n] \in Panels!Texts
    BY <1>1, ElementOfSeq
  <1>3. Visited \in Seq(Panels!Texts)
    BY <1>1, <1>2, EntriesIn
  <1> QED BY <1>1, <1>3
          DEF PanelsAssumed, Panels!OverlayUrlsAssumption, Panels!OverlayKeysAssumption,
              Panels!OverlaySitesAssumption, Panels!OverlayBoundsAssumption, Panels!Ids, Panels!Texts

(* The elements of a Vec, of one filtered and of one that is added to.     *)
LEMMA InOrderIs ==
  ASSUME NEW X, NEW s \in Seq(X)
  PROVE  /\ Len(s) \in Nat /\ \A i \in 1..Len(s) : s[i] \in X /\ s[i] \in Panels!InOrder(s)
         /\ \A x : x \in Panels!InOrder(s) <=> \E i \in 1..Len(s) : s[i] = x
         /\ Panels!InOrder(s) \subseteq X
  <1>1. Len(s) \in Nat /\ \A i \in 1..Len(s) : s[i] \in X
    BY LenProperties, ElementOfSeq
  <1>2. \A x : x \in Panels!InOrder(s) <=> \E i \in 1..Len(s) : s[i] = x
    BY DEF Panels!InOrder
  <1> QED BY <1>1, <1>2

LEMMA PanelsFilter ==
  ASSUME NEW X, NEW s \in Seq(X), NEW S
  PROVE  LET t == Panels!Filter(s, S)
         IN /\ t \in Seq(X) /\ Panels!InOrder(t) = Panels!InOrder(s) \cap S
            /\ t # <<>> => t[1] \in Panels!InOrder(t)
            /\ Distinct(s) => Distinct(t)
  <1> DEFINE t == Filter(s, S)
  <1>1. Panels!Filter(s, S) = t
    BY DEF Panels!Filter, Panels!EntriesAt, Panels!Places, Panels!UpTo, Panels!Cardinality,
           Filter, EntriesAt, Places, UpTo, Cardinality
  <1>2. /\ t \in Seq(X) /\ Len(t) \in Nat
        /\ \A n \in 1..Len(t) : \E i \in 1..Len(s) : t[n] = s[i] /\ s[i] \in S
        /\ \A i \in 1..Len(s) : s[i] \in S => \E n \in 1..Len(t) : t[n] = s[i]
        /\ (\A i, j \in 1..Len(s) : s[i] = s[j] => i = j) =>
             \A m, n \in 1..Len(t) : t[m] = t[n] => m = n
    BY FilterOK
  <1> HIDE DEF t
  <1>3. \A x : x \in Panels!InOrder(s) <=> \E i \in 1..Len(s) : s[i] = x
    BY InOrderIs
  <1>4. \A x : x \in Panels!InOrder(t) <=> \E n \in 1..Len(t) : t[n] = x
    BY <1>2, InOrderIs
  <1>5. ASSUME NEW x \in Panels!InOrder(t) PROVE x \in Panels!InOrder(s) /\ x \in S
    <2>1. PICK n \in 1..Len(t) : t[n] = x
      BY <1>4
    <2>2. PICK i \in 1..Len(s) : t[n] = s[i] /\ s[i] \in S
      BY <1>2
    <2> QED BY <1>3, <2>1, <2>2
  <1>6. ASSUME NEW x \in Panels!InOrder(s), x \in S PROVE x \in Panels!InOrder(t)
    <2>1. PICK i \in 1..Len(s) : s[i] = x
      BY <1>3
    <2>2. PICK n \in 1..Len(t) : t[n] = s[i]
      BY <1>2, <1>6, <2>1
    <2> QED BY <1>4, <2>1, <2>2
  <1>7. t # <<>> => t[1] \in Panels!InOrder(t)
    <2>1. t # <<>> => 1 \in 1..Len(t)
      BY <1>2
    <2> QED BY <1>4, <2>1
  <1>8. Panels!InOrder(t) = Panels!InOrder(s) \cap S
    BY <1>5, <1>6
  <1>9. Distinct(s) => Distinct(t)
    BY <1>2 DEF Distinct
  <1> QED BY <1>1, <1>2, <1>7, <1>8, <1>9

LEMMA PanelsAppend ==
  ASSUME NEW X, NEW s \in Seq(X), NEW e \in X
  PROVE  LET t == Append(s, e)
         IN /\ t \in Seq(X) /\ Panels!InOrder(t) = Panels!InOrder(s) \cup {e}
            /\ Distinct(s) /\ e \notin Panels!InOrder(s) => Distinct(t)
  <1> DEFINE t == Append(s, e)
  <1>1. /\ t \in Seq(X) /\ Len(t) = Len(s) + 1 /\ Len(s) \in Nat
        /\ \A i \in 1..Len(s) : t[i] = s[i]
        /\ t[Len(s) + 1] = e
    BY AppendProperties, LenProperties
  <1> HIDE DEF t
  <1>2. \A x : x \in Panels!InOrder(s) <=> \E i \in 1..Len(s) : s[i] = x
    BY InOrderIs
  <1>3. \A x : x \in Panels!InOrder(t) <=> \E n \in 1..Len(t) : t[n] = x
    BY <1>1, InOrderIs
  <1>4. \A n \in 1..Len(t) : n \in 1..Len(s) \/ n = Len(s) + 1
    BY <1>1
  <1>5. (\A n \in 1..Len(s) : n \in 1..Len(t)) /\ Len(s) + 1 \in 1..Len(t)
    BY <1>1
  <1>6. Panels!InOrder(t) = Panels!InOrder(s) \cup {e}
    BY <1>1, <1>2, <1>3, <1>4, <1>5
  <1>7. ASSUME Distinct(s), e \notin Panels!InOrder(s) PROVE Distinct(t)
    <2>1. \A i \in 1..Len(s) : s[i] # e
      BY <1>2, <1>7
    <2> QED BY <1>1, <1>4, <1>7, <2>1 DEF Distinct
  <1> QED BY <1>1, <1>6, <1>7 DEF t

-----------------------------------------------------------------------------
(* The parts of the invariant, by what a handler does to them.             *)

LEMMA ActiveUrlIn ==
  ASSUME PanelsAssumed
  PROVE  /\ PanelPagesOK => Panels!ActiveUrl \in Panels!Texts
         /\ PanelPagesOK' => Panels!ActiveUrl' \in Panels!Texts
  <1> USE PanelsConstants
  <1>1. ASSUME PanelPagesOK PROVE Panels!ActiveUrl \in Panels!Texts
    <2>1. active \in Panels!Open => active \in Panels!Ids
      BY <1>1, InOrderIs DEF PanelPagesOK, Panels!Open
    <2> QED BY <1>1, <2>1 DEF PanelPagesOK, Panels!ActiveUrl
  <1>2. ASSUME PanelPagesOK' PROVE Panels!ActiveUrl' \in Panels!Texts
    <2>1. active' \in Panels!Open' => active' \in Panels!Ids
      BY <1>2, InOrderIs DEF PanelPagesOK, Panels!Open
    <2> QED BY <1>2, <2>1 DEF PanelPagesOK, Panels!ActiveUrl
  <1> QED BY <1>1, <1>2

LEMMA PanelPagesKept ==
  ASSUME PanelPagesOK, UNCHANGED <<pages, active, nextId, urlOf>>
  PROVE  PanelPagesOK' /\ Panels!Open' = Panels!Open /\ Panels!ActiveUrl' = Panels!ActiveUrl
  BY DEF PanelPagesOK, Panels!Open, Panels!ActiveUrl

LEMMA PanelMarksKept ==
  ASSUME PanelMarksOK, UNCHANGED <<bookmarks, bookmarkRows, star, starOf>>
  PROVE  PanelMarksOK'
  BY DEF PanelMarksOK

LEMMA PanelVaultKept ==
  ASSUME PanelVaultOK,
         UNCHANGED <<unlocked, known, logins, nextLogin, born, loginRows, editing, editingBorn>>
  PROVE  PanelVaultOK'
  BY DEF PanelVaultOK

LEMMA PanelKeysKept ==
  ASSUME PanelKeysOK, UNCHANGED <<bindings, bindingRows, menu, listening>>,
         overlay' = overlay \/ overlay' # "settings"
  PROVE  PanelKeysOK'
  BY DEF PanelKeysOK

(* The rows of a switcher that is left open, or closed.                    *)
LEMMA PanelRowsKept ==
  ASSUME PanelRowsOK, UNCHANGED rows, selected' \in Nat,
         overlay' # "switcher" \/ (overlay = "switcher" /\ Panels!Open \subseteq Panels!Open')
  PROVE  PanelRowsOK'
  <1> SUFFICES ASSUME overlay' = "switcher"
               PROVE  /\ rows' \in Seq(RowsOf(Panels!Open', Panels!Texts))
                      /\ Apart(Panels!Ids, Panels!Texts) => \E k : Tiled(rows', Panels!Open', Panels!Texts, {k})
    BY DEF PanelRowsOK, Panels!Ids
  <1> DEFINE P == Panels!Open
             Q == Panels!Open'
  <1>1. P \subseteq Q /\ rows \in Seq(RowsOf(P, Panels!Texts))
    BY DEF PanelRowsOK
  <1>2. Apart(Panels!Ids, Panels!Texts) => \E k : Tiled(rows, P, Panels!Texts, {k})
    BY DEF PanelRowsOK
  <1> HIDE DEF P, Q
  <1>3. RowsOf(P, Panels!Texts) \subseteq RowsOf(Q, Panels!Texts)
    BY <1>1 DEF RowsOf
  <1>4. \A n \in 1..Len(rows) : rows[n] \in RowsOf(Q, Panels!Texts)
    BY <1>1, <1>3, ElementOfSeq
  <1>5. rows \in Seq(RowsOf(Q, Panels!Texts))
    BY <1>1, <1>4, EntriesIn
  <1>6. \A k : Tiled(rows, P, Panels!Texts, {k}) => Tiled(rows, Q, Panels!Texts, {k})
    BY <1>5 DEF Tiled
  <1> QED BY <1>2, <1>5, <1>6 DEF Q

(* The rows are those of SwitcherRows.                                     *)
LEMMA PanelRowsAre ==
  ASSUME NEW matching, NEW openUrls, NEW anyQuery, NEW visits, NEW marks, NEW similar
  PROVE  Panels!BuildSwitcherRows(matching, openUrls, anyQuery, visits, marks, similar)
           = Switcher!BuildSwitcherRows(matching, openUrls, anyQuery, visits, marks, similar)
  <1>1. \A f, seen : Panels!Unseen(f, seen) = Switcher!Unseen(f, seen)
    BY DEF Panels!Unseen, Panels!FirstPlaces, Panels!EntriesAt, Panels!UpTo, Panels!Cardinality,
           Switcher!Unseen, Switcher!FirstPlaces, Switcher!EntriesAt, Switcher!UpTo, Switcher!Cardinality
  <1>2. \A l, k, of : Panels!Group(l, k, of) = Switcher!Group(l, k, of)
    BY DEF Panels!Group, Panels!Header, Panels!Row, Switcher!Group, Switcher!Header, Switcher!Row
  <1>3. \A f : Panels!Range(f) = Switcher!Range(f)
    BY DEF Panels!Range, Switcher!Range
  <1>4. Panels!Row("add", NoRow) = Switcher!Row("add", NoRow)
    BY DEF Panels!Row, Switcher!Row
  <1> QED BY <1>1, <1>2, <1>3, <1>4
          DEF Panels!BuildSwitcherRows, Switcher!BuildSwitcherRows

(* rebuild_switcher_rows, whatever it was called after.                    *)
LEMMA PanelRowsRebuilt ==
  ASSUME PanelsAssumed, PanelPagesOK', bookmarks' \in Seq(Panels!Texts), selected' \in Nat,
         Panels!RebuildSwitcherRows
  PROVE  PanelRowsOK' /\ (Apart(Panels!Ids, Panels!Texts) => TilesStep)
  <1> USE PanelsConstants
  <1>1. PICK P : P = Panels!Open'
    OBVIOUS
  <1>2. pages' \in Seq(Panels!Ids) /\ P = Panels!InOrder(pages') /\ Distinct(pages')
    BY <1>1 DEF PanelPagesOK, Panels!Open, Distinct
  <1>3. PICK m : m = Panels!Filter(pages', {p \in Panels!Ids : text' = NoText \/ urlOf'[p] = text'})
    OBVIOUS
  <1>4. m \in Seq(P) /\ Distinct(m)
    <2>1. m \in Seq(Panels!Ids) /\ Panels!InOrder(m) \subseteq P /\ Distinct(m)
      BY <1>2, <1>3, PanelsFilter
    <2>2. \A n \in 1..Len(m) : m[n] \in P
      BY <2>1, InOrderIs
    <2> QED BY <2>1, <2>2, EntriesIn
  <1>5. \A s \in Seq(Panels!Texts) : Panels!Only(s, text') \in Seq(Panels!Texts)
    BY PanelsFilter DEF Panels!Only
  <1>6. PICK h : h = Panels!Only(Visited, text')
    OBVIOUS
  <1>7. PICK b : b = Panels!Only(bookmarks', text')
    OBVIOUS
  <1>8. PICK o : o = {urlOf'[p] : p \in P}
    OBVIOUS
  <1>9. rows' = Switcher!BuildSwitcherRows(m, o, text' # NoText, h, b, <<>>)
    <2>1. rows' = Panels!BuildSwitcherRows(m, o, text' # NoText, h, b, <<>>)
      BY <1>1, <1>3, <1>6, <1>7, <1>8 DEF Panels!RebuildSwitcherRows, Panels!CurrentRows
    <2> QED BY <2>1, PanelRowsAre
  <1>10. h \in Seq(Panels!Texts) /\ b \in Seq(Panels!Texts) /\ <<>> \in Seq(Panels!Texts)
    BY <1>5, <1>6, <1>7
  <1>11. rows' \in Seq(RowsOf(P, Panels!Texts))
    BY <1>4, <1>9, <1>10, BuiltRows
  <1>12. ASSUME Apart(Panels!Ids, Panels!Texts)
         PROVE  \E k : Tiled(rows', P, Panels!Texts \ o, {k})
    <2>1. P \subseteq Panels!Ids
      BY <1>2, InOrderIs
    <2>2. Apart(P, Panels!Texts)
      BY <1>12, <2>1 DEF Apart
    <2>3. \A i, j \in 1..Len(m) : m[i] = m[j] => i = j
      BY <1>4 DEF Distinct
    <2> QED BY Zenon, <1>4, <1>9, <1>10, <2>2, <2>3, BuiltTiled
  <1>13. ASSUME NEW k, Tiled(rows', P, Panels!Texts \ o, {k}) PROVE Tiled(rows', P, Panels!Texts, {k})
    <2>1. Panels!Texts \ o \subseteq Panels!Texts
      OBVIOUS
    <2> QED BY Zenon, <1>13, <2>1, TiledWider
  <1>14. ASSUME NEW k, Tiled(rows', P, Panels!Texts \ o, {k}) PROVE TilesFresh'
    <2>1. \A i \in 1..Len(rows') : rows'[i] \in RowsOf(P, Panels!Texts \ o)
      BY <1>14, ElementOfSeq DEF Tiled
    <2>2. \A i \in 1..Len(rows') : rows'[i].kind \in {"history", "bookmark"} => rows'[i].of \notin o
      BY <2>1, RowFields DEF Finds
    <2> QED BY <1>1, <1>8, <2>2 DEF TilesFresh
  <1>15. PanelRowsOK'
    BY <1>1, <1>11, <1>12, <1>13 DEF PanelRowsOK, Panels!Ids, Panels!Texts
  <1> QED BY <1>12, <1>14, <1>15 DEF TilesStep

(* The rows do not matter to a switcher that is closed.                    *)
LEMMA PanelRowsHidden ==
  ASSUME overlay' # "switcher", selected' \in Nat
  PROVE  PanelRowsOK'
  BY DEF PanelRowsOK

LEMMA PanelViewOpened ==
  ASSUME PanelsAssumed, NEW o \in Panels!Overlays \ {"none"}, Panels!OpenOverlay(o),
         text' \in Panels!Texts
  PROVE  PanelViewOK' /\ overlay' = o
  BY DEF Panels!OpenOverlay, PanelViewOK, Panels!Overlays

LEMMA PanelViewClosed ==
  ASSUME PanelsAssumed, PanelViewOK, PanelPagesOK', Panels!CloseAllOverlays
  PROVE  PanelViewOK' /\ overlay' = "none"
  <1>1. Panels!ActiveUrl' \in Panels!Texts
    BY ActiveUrlIn
  <1> QED BY <1>1 DEF Panels!CloseAllOverlays, PanelViewOK, Panels!Overlays

LEMMA PanelStarDrawn ==
  ASSUME PanelsAssumed, PanelPagesOK', bookmarks' \in Seq(Panels!Texts), bookmarkRows' \in Seq(Panels!Texts),
         Panels!RefreshStar
  PROVE  PanelMarksOK'
  BY ActiveUrlIn DEF Panels!RefreshStar, PanelMarksOK

(* add_page, in pages without some of those there were.                    *)
LEMMA PanelPageAdded ==
  ASSUME PanelsAssumed, PanelPagesOK, PanelMarksOK, UNCHANGED bookmarkRows,
         NEW ps \in Seq(Panels!Ids), Panels!InOrder(ps) \subseteq Panels!Open, Distinct(ps),
         NEW u \in Panels!Texts, Panels!PageAdded(ps, u)
  PROVE  PanelPagesOK' /\ PanelMarksOK' /\ Panels!InOrder(ps) \subseteq Panels!Open' /\ UNCHANGED bookmarks
  <1> USE PanelsConstants
  <1>1. UNCHANGED bookmarks
    BY DEF Panels!PageAdded
  <1>2. CASE /\ nextId <= MaxPages
             /\ pages' = Append(ps, nextId) /\ active' = nextId
             /\ \E w \in {u, NoText} : urlOf' = [urlOf EXCEPT ![nextId] = w]
             /\ nextId' = nextId + 1
             /\ Panels!RefreshStar
    <2>1. nextId \in Panels!Ids /\ nextId \in Nat
      BY <1>2 DEF PanelPagesOK
    <2>3. Panels!Open \subseteq 1 .. nextId - 1 /\ nextId \notin Panels!InOrder(ps)
      BY <2>1 DEF PanelPagesOK
    <2>2. /\ pages' \in Seq(Panels!Ids) /\ Panels!Open' = Panels!InOrder(ps) \cup {nextId}
          /\ Distinct(pages')
      BY <1>2, <2>1, <2>3, PanelsAppend DEF Panels!Open
    <2>4. Panels!Open' \subseteq 1 .. nextId' - 1 /\ nextId' \in 1 .. MaxPages + 1
      <3>1. nextId' = nextId + 1 /\ nextId \in 1..MaxPages
        BY <1>2, <2>1
      <3>2. nextId' - 1 = nextId /\ nextId' \in 1 .. MaxPages + 1
        BY <3>1
      <3>3. \A p \in Panels!Open' : p \in 1 .. nextId - 1 \/ p = nextId
        BY <2>2, <2>3
      <3>4. Panels!Open' \subseteq 1..nextId
        BY <3>1, <3>3
      <3> QED BY <3>2, <3>4
    <2>5. urlOf' \in [Panels!Ids -> Panels!Texts] /\ active' \in 1 .. nextId' - 1
      BY <1>2, <2>1 DEF PanelPagesOK
    <2>6. PanelPagesOK'
      BY <2>2, <2>4, <2>5 DEF PanelPagesOK, Panels!Ids, Panels!Texts, Distinct
    <2>7. PanelMarksOK'
      BY <1>1, <1>2, <2>6, PanelStarDrawn DEF PanelMarksOK
    <2> QED BY <1>1, <2>2, <2>6, <2>7
  <1>3. CASE pages' = ps /\ UNCHANGED <<active, nextId, urlOf, bookmarks, star, starOf>>
    <2>1. PanelMarksOK'
      BY <1>3, PanelMarksKept
    <2>2. Panels!Open' = Panels!InOrder(ps) /\ Panels!Open \subseteq 1 .. nextId - 1
      BY <1>3 DEF Panels!Open, PanelPagesOK
    <2>3. PanelPagesOK'
      BY <1>3, <2>2 DEF PanelPagesOK, Panels!Ids
    <2> QED BY <1>1, <2>1, <2>2, <2>3
  <1> QED BY <1>2, <1>3 DEF Panels!PageAdded

(* switch_to, of an open page.                                             *)
LEMMA PanelPageShown ==
  ASSUME PanelsAssumed, PanelPagesOK, PanelMarksOK, UNCHANGED bookmarkRows,
         NEW id \in Panels!Open, Panels!PageShown(id)
  PROVE  PanelPagesOK' /\ PanelMarksOK' /\ Panels!Open' = Panels!Open /\ UNCHANGED bookmarks
  <1>1. active' = id /\ UNCHANGED <<pages, nextId, urlOf, bookmarks>> /\ Panels!RefreshStar
    BY DEF Panels!PageShown
  <1>2. PanelPagesOK' /\ Panels!Open' = Panels!Open
    BY <1>1 DEF PanelPagesOK, Panels!Open
  <1> QED BY <1>1, <1>2, PanelStarDrawn DEF PanelMarksOK

(* The arrow keys lead to a row, or nowhere.                               *)
LEMMA NavigatesToRow ==
  ASSUME NEW X, NEW s \in Seq(X), NEW from \in Nat, NEW direction \in {"up", "down"},
         ~Panels!UpFromBeyond(s, from, direction)
  PROVE  Panels!NextActivatableRow(s, from, direction) \in Nat
  <1>1. Len(s) \in Nat
    BY LenProperties
  <1>2. ASSUME NEW at \in SUBSET (1..Len(s)), at # {}
        PROVE  /\ \E i \in at : \A j \in at : i <= j
               /\ \E i \in at : \A j \in at : i >= j
    <2>1. /\ IsFiniteSet(at) /\ Cardinality(at) \in 0..Len(s)
          /\ \A i \in at : UpTo(at, i) \in 1..Cardinality(at)
          /\ \A i, j \in at : i < j => UpTo(at, i) < UpTo(at, j)
          /\ \A n \in 1..Cardinality(at) : \E i \in at : UpTo(at, i) = n
      BY <1>1, PlacesCounted
    <2>2. \A i \in at : i \in Nat /\ UpTo(at, i) \in Nat
      BY <2>1
    <2>3. 1 \in 1..Cardinality(at) /\ Cardinality(at) \in 1..Cardinality(at)
      <3>1. Cardinality(at) # 0 /\ Cardinality(at) \in Nat
        BY <1>1, <1>2, <2>1, FS_EmptySet
      <3> QED BY <3>1
    <2>4. PICK i \in at : UpTo(at, i) = 1
      BY <2>1, <2>3
    <2>5. PICK k \in at : UpTo(at, k) = Cardinality(at)
      BY <2>1, <2>3
    <2>6. \A j \in at : i <= j
      BY <2>1, <2>2, <2>4
    <2>7. \A j \in at : k >= j
      BY <2>1, <2>2, <2>5
    <2> QED BY <2>6, <2>7
  <1>3. CASE direction = "down"
    <2> DEFINE at == {i \in from + 1 .. Len(s) : Panels!IsActivatable(s[i])}
    <2>1. at \in SUBSET (1..Len(s))
      BY <1>1
    <2>2. Panels!NextActivatableRow(s, from, direction)
            = IF at = {} THEN 0 ELSE CHOOSE i \in at : \A j \in at : i <= j
      BY <1>3 DEF Panels!NextActivatableRow, Panels!NextDown
    <2> HIDE DEF at
    <2>3. PICK next : next = CHOOSE i \in at : \A j \in at : i <= j
      OBVIOUS
    <2>4. at # {} => next \in at
      BY <1>2, <2>1, <2>3
    <2>5. at # {} => next \in Nat
      <3>1. \A i \in 1..Len(s) : i \in Nat
        BY <1>1
      <3>2. at \subseteq 1..Len(s)
        BY <2>1
      <3> QED BY <2>4, <3>1, <3>2
    <2>6. Panels!NextActivatableRow(s, from, direction) = IF at = {} THEN 0 ELSE next
      BY Zenon, <2>2, <2>3
    <2> QED BY <2>5, <2>6
  <1>4. CASE direction = "up"
    <2> DEFINE top == IF from = 0 THEN Len(s) ELSE from - 1
               at == {i \in 1..top : Panels!IsActivatable(s[i])}
    <2>1. at \in SUBSET (1..Len(s))
      BY <1>1, <1>4 DEF Panels!UpFromBeyond
    <2>2. Panels!NextActivatableRow(s, from, direction)
            = IF at = {} THEN 0 ELSE CHOOSE i \in at : \A j \in at : i >= j
      BY <1>4 DEF Panels!NextActivatableRow, Panels!NextUp
    <2> HIDE DEF at
    <2>3. PICK next : next = CHOOSE i \in at : \A j \in at : i >= j
      OBVIOUS
    <2>4. at # {} => next \in at
      BY <1>2, <2>1, <2>3
    <2>5. at # {} => next \in Nat
      <3>1. \A i \in 1..Len(s) : i \in Nat
        BY <1>1
      <3>2. at \subseteq 1..Len(s)
        BY <2>1
      <3> QED BY <2>4, <3>1, <3>2
    <2>6. Panels!NextActivatableRow(s, from, direction) = IF at = {} THEN 0 ELSE next
      BY Zenon, <2>2, <2>3
    <2> QED BY <2>5, <2>6
  <1> QED BY <1>3, <1>4

-----------------------------------------------------------------------------
(* The handlers.                                                           *)

PanelsGood == PanelsInv' /\ VaultStep /\ (Apart(Panels!Ids, Panels!Texts) => TilesStep)

(* Those that leave the vault and the bindings alone.                      *)
LEMMA OtherPanelsGood ==
  ASSUME PanelsInv, PanelPagesOK', PanelViewOK', PanelRowsOK', PanelMarksOK',
         UNCHANGED <<unlocked, known, logins, nextLogin, born, loginRows, editing, editingBorn>>,
         UNCHANGED <<bindings, bindingRows, menu, listening>>,
         overlay' = overlay \/ overlay' # "settings",
         UNCHANGED rows \/ (Apart(Panels!Ids, Panels!Texts) => TilesStep)
  PROVE  PanelsGood
  <1>1. PanelVaultOK' /\ PanelKeysOK'
    BY PanelVaultKept, PanelKeysKept DEF PanelsInv
  <1>2. VaultStep /\ (Apart(Panels!Ids, Panels!Texts) => TilesStep)
    BY DEF VaultStep, TilesStep
  <1> QED BY <1>1, <1>2 DEF PanelsGood, PanelsInv

LEMMA SwitcherGood ==
  ASSUME PanelsAssumed, PanelsInv,
         \/ Panels!OpenSwitcher \/ Panels!OpenSwitcherEditingUrl
         \/ \E t \in Panels!Texts : Panels!Type(t)
         \/ \E d \in {"up", "down"} : Panels!SwitcherNavigate(d)
  PROVE  PanelsGood
  <1> USE PanelsConstants DEF Panels!pageVars, Panels!bookmarkVars, Panels!loginVars, Panels!vaultVars,
                              Panels!bindingVars
  <1>1. PanelPagesOK /\ PanelViewOK /\ PanelRowsOK /\ PanelMarksOK
    BY DEF PanelsInv
  <1>2. /\ UNCHANGED <<pages, active, nextId, urlOf>>
        /\ UNCHANGED <<bookmarks, bookmarkRows, star, starOf>>
        /\ UNCHANGED <<unlocked, known, logins, nextLogin, born, loginRows, editing, editingBorn>>
        /\ UNCHANGED <<bindings, bindingRows, menu, listening>>
    BY DEF Panels!OpenSwitcher, Panels!OpenSwitcherEditingUrl, Panels!Type, Panels!SwitcherNavigate
  <1>3. PanelPagesOK' /\ Panels!ActiveUrl \in Panels!Texts
    BY <1>1, <1>2, PanelPagesKept, ActiveUrlIn
  <1>4. PanelMarksOK' /\ bookmarks' \in Seq(Panels!Texts)
    BY <1>1, <1>2, PanelMarksKept DEF PanelMarksOK
  <1>5. Panels!RebuildSwitcherRows
    BY DEF Panels!OpenSwitcher, Panels!OpenSwitcherEditingUrl, Panels!Type, Panels!SwitcherNavigate
  <1>6. PanelViewOK' /\ (overlay' = overlay \/ overlay' # "settings") /\ selected' \in Nat
    <2>1. CASE Panels!OpenSwitcher \/ Panels!OpenSwitcherEditingUrl
      <3>1. Panels!OpenOverlay("switcher") /\ text' \in Panels!Texts
        BY <1>3, <2>1 DEF Panels!OpenSwitcher, Panels!OpenSwitcherEditingUrl
      <3>2. "switcher" \in Panels!Overlays \ {"none"}
        BY DEF Panels!Overlays
      <3>3. selected' \in Nat
        BY <1>1, <2>1 DEF Panels!OpenSwitcher, Panels!OpenSwitcherEditingUrl, PanelRowsOK
      <3> QED BY <3>1, <3>2, <3>3, PanelViewOpened
    <2>2. CASE \E t \in Panels!Texts : Panels!Type(t)
      BY <1>1, <2>2 DEF Panels!Type, PanelViewOK
    <2>3. CASE \E d \in {"up", "down"} : Panels!SwitcherNavigate(d)
      <3>1. PICK d \in {"up", "down"} : Panels!SwitcherNavigate(d)
        BY <2>3
      <3>2. /\ overlay = "switcher" /\ ~Panels!UpFromBeyond(rows, selected, d)
            /\ selected' = Panels!NextActivatableRow(rows, selected, d)
            /\ UNCHANGED <<overlay, panels, text>>
        BY <3>1 DEF Panels!SwitcherNavigate
      <3>3. selected' \in Nat
        BY <1>1, <3>2, NavigatesToRow DEF PanelRowsOK
      <3> QED BY <1>1, <3>2, <3>3 DEF PanelViewOK
    <2> QED BY <2>1, <2>2, <2>3
  <1>7. PanelRowsOK' /\ (Apart(Panels!Ids, Panels!Texts) => TilesStep)
    BY <1>3, <1>4, <1>5, <1>6, PanelRowsRebuilt
  <1> QED BY <1>2, <1>3, <1>4, <1>6, <1>7, OtherPanelsGood

(* Those that end by closing the overlays.                                 *)
LEMMA ThenClosedGood ==
  ASSUME PanelsAssumed, PanelsInv, PanelPagesOK', PanelMarksOK', Panels!CloseAllOverlays,
         UNCHANGED <<rows, selected>>,
         UNCHANGED <<unlocked, known, logins, nextLogin, born, loginRows, editing, editingBorn>>,
         UNCHANGED <<bindings, bindingRows, menu, listening>>
  PROVE  PanelsGood
  <1>1. PanelViewOK' /\ overlay' = "none"
    BY PanelViewClosed DEF PanelsInv
  <1>2. PanelRowsOK'
    BY <1>1, PanelRowsHidden DEF PanelsInv, PanelRowsOK
  <1> QED BY <1>1, <1>2, OtherPanelsGood

LEMMA ActivateGood ==
  ASSUME PanelsAssumed, PanelsInv, overlay = "switcher", NEW i, Panels!Activate(i)
  PROVE  PanelsGood
  <1> USE PanelsConstants DEF Panels!pageVars, Panels!loginVars, Panels!vaultVars, Panels!bindingVars
  <1>1. PICK to : to = Panels!ActivateRow(rows, i, StartPage)
    OBVIOUS
  <1>2. to = Switcher!ActivateRow(rows, i, StartPage)
    BY <1>1 DEF Panels!ActivateRow, Panels!Row, Switcher!ActivateRow, Switcher!Row
  <1>3. \/ to = NoRow
        \/ to.kind = "switch" /\ to.of \in Panels!Open
        \/ to.kind = "new" /\ to.of \in Panels!Texts
    <2>1. rows \in Seq(RowsOf(Panels!Open, Panels!Texts))
      BY DEF PanelsInv, PanelRowsOK
    <2> QED BY <1>2, <2>1, ActivatedRow
  <1>4. /\ UNCHANGED <<rows, selected, bookmarkRows>>
        /\ UNCHANGED <<unlocked, known, logins, nextLogin, born, loginRows, editing, editingBorn>>
        /\ UNCHANGED <<bindings, bindingRows, menu, listening>>
    BY DEF Panels!Activate
  <1>5. PanelPagesOK /\ PanelMarksOK
    BY DEF PanelsInv
  <1>6. CASE to = NoRow
    <2>1. /\ UNCHANGED <<pages, active, nextId, urlOf>> /\ UNCHANGED <<overlay, panels, text>>
          /\ UNCHANGED <<bookmarks, star, starOf>>
      BY <1>1, <1>6 DEF Panels!Activate
    <2>2. PanelPagesOK' /\ PanelMarksOK' /\ Panels!Open' = Panels!Open
      BY <1>4, <1>5, <2>1, PanelPagesKept, PanelMarksKept
    <2>3. PanelViewOK'
      BY <2>1 DEF PanelsInv, PanelViewOK
    <2>4. PanelRowsOK'
      BY <1>4, <2>1, <2>2, PanelRowsKept DEF PanelsInv, PanelRowsOK
    <2> QED BY <1>4, <2>1, <2>2, <2>3, <2>4, OtherPanelsGood
  <1>7. CASE to # NoRow
    <2>1. /\ IF to.kind = "switch" THEN Panels!PageShown(to.of) ELSE Panels!PageAdded(pages, to.of)
          /\ Panels!CloseAllOverlays
      BY <1>1, <1>7 DEF Panels!Activate
    <2>2. pages \in Seq(Panels!Ids) /\ Panels!InOrder(pages) \subseteq Panels!Open /\ Distinct(pages)
      BY <1>5 DEF PanelPagesOK, Panels!Open
    <2>3. PanelPagesOK' /\ PanelMarksOK'
      BY <1>3, <1>4, <1>5, <1>7, <2>1, <2>2, PanelPageShown, PanelPageAdded
    <2> QED BY <1>4, <2>1, <2>3, ThenClosedGood
  <1> QED BY <1>6, <1>7

LEMMA TypedGood ==
  ASSUME PanelsAssumed, PanelsInv, NEW command \in BOOLEAN, Panels!AddressBarActivated(command)
  PROVE  PanelsGood
  <1> USE DEF Panels!loginVars, Panels!vaultVars, Panels!bindingVars
  <1>1. overlay = "switcher"
    BY DEF Panels!AddressBarActivated
  <1>2. CASE selected # 0
    <2>1. Panels!Activate(selected)
      BY <1>2 DEF Panels!AddressBarActivated
    <2> QED BY <1>1, <2>1, ActivateGood
  <1>3. CASE selected = 0
    <2> DEFINE matches == {p \in Panels!Open : urlOf[p] = text}
    <2>1. /\ text # NoText
          /\ (\E p \in matches : Panels!PageShown(p)) \/ Panels!PageAdded(pages, text)
          /\ Panels!CloseAllOverlays
      BY <1>3 DEF Panels!AddressBarActivated
    <2>2. /\ UNCHANGED <<rows, selected, bookmarkRows>>
          /\ UNCHANGED <<unlocked, known, logins, nextLogin, born, loginRows, editing, editingBorn>>
          /\ UNCHANGED <<bindings, bindingRows, menu, listening>>
      BY <1>3 DEF Panels!AddressBarActivated
    <2>3. PanelPagesOK /\ PanelMarksOK /\ text \in Panels!Texts
      BY <2>1 DEF PanelsInv, PanelViewOK
    <2>4. pages \in Seq(Panels!Ids) /\ Panels!InOrder(pages) \subseteq Panels!Open /\ Distinct(pages)
      BY <2>3 DEF PanelPagesOK, Panels!Open
    <2>5. PanelPagesOK' /\ PanelMarksOK'
      BY <2>1, <2>2, <2>3, <2>4, PanelPageShown, PanelPageAdded
    <2> QED BY <2>1, <2>2, <2>5, ThenClosedGood
  <1> QED BY <1>2, <1>3

(* close_page, whichever page is closed, rebuilds the rows.                *)
LEMMA CloseGood ==
  ASSUME PanelsAssumed, PanelsInv, NEW id, Panels!Close(id)
  PROVE  PanelsGood
  <1> USE PanelsConstants DEF Panels!loginVars, Panels!vaultVars, Panels!bindingVars
  <1>1. PICK rest : rest = Panels!Filter(pages, Panels!Ids \ {id})
    OBVIOUS
  <1>2. /\ UNCHANGED <<overlay, panels, text>> /\ UNCHANGED selected /\ UNCHANGED bookmarkRows
        /\ UNCHANGED <<unlocked, known, logins, nextLogin, born, loginRows, editing, editingBorn>>
        /\ UNCHANGED <<bindings, bindingRows, menu, listening>>
        /\ Panels!RebuildSwitcherRows
    BY DEF Panels!Close
  <1>3. PanelPagesOK /\ PanelMarksOK /\ pages \in Seq(Panels!Ids)
    BY DEF PanelsInv, PanelPagesOK
  <1>4. /\ rest \in Seq(Panels!Ids) /\ Panels!InOrder(rest) \subseteq Panels!Open /\ Distinct(rest)
        /\ rest # <<>> => rest[1] \in Panels!InOrder(rest)
    BY <1>1, <1>3, PanelsFilter DEF PanelPagesOK, Panels!Open
  <1>5. Panels!Open \subseteq 1 .. nextId - 1
    BY <1>3 DEF PanelPagesOK
  <1>6. PanelPagesOK' /\ PanelMarksOK' /\ bookmarks' \in Seq(Panels!Texts)
    <2>1. CASE pages' = rest /\ UNCHANGED <<active, nextId, urlOf, bookmarks, star, starOf>>
      <3>1. PanelPagesOK'
        BY <1>3, <1>4, <1>5, <2>1 DEF PanelPagesOK, Panels!Open, Panels!Ids, Panels!Texts, Distinct
      <3>2. PanelMarksOK'
        BY <1>2, <1>3, <2>1, PanelMarksKept
      <3> QED BY <3>1, <3>2 DEF PanelMarksOK
    <2>2. CASE /\ rest # <<>> /\ pages' = rest /\ active' = rest[1]
               /\ UNCHANGED <<nextId, urlOf, bookmarks>> /\ Panels!RefreshStar
      <3>1. active' \in 1 .. nextId - 1
        BY <1>4, <1>5, <2>2
      <3>2. PanelPagesOK'
        BY <1>3, <1>4, <1>5, <2>2, <3>1 DEF PanelPagesOK, Panels!Open, Panels!Ids, Panels!Texts, Distinct
      <3>3. bookmarks' \in Seq(Panels!Texts) /\ bookmarkRows' \in Seq(Panels!Texts)
        BY <1>2, <1>3, <2>2 DEF PanelMarksOK
      <3> QED BY <2>2, <3>2, <3>3, PanelStarDrawn
    <2>3. CASE Panels!PageAdded(rest, StartPage)
      BY <1>2, <1>3, <1>4, <2>3, PanelsConstants, PanelPageAdded DEF PanelMarksOK
    <2> QED BY <1>1, <2>1, <2>2, <2>3 DEF Panels!Close
  <1>7. selected' \in Nat /\ PanelViewOK'
    BY <1>2 DEF PanelsInv, PanelRowsOK, PanelViewOK
  <1>8. PanelRowsOK' /\ (Apart(Panels!Ids, Panels!Texts) => TilesStep)
    BY <1>2, <1>6, <1>7, PanelRowsRebuilt
  <1> QED BY <1>2, <1>6, <1>7, <1>8, OtherPanelsGood

LEMMA NeighbourGood ==
  ASSUME PanelsAssumed, PanelsInv, Panels!SwitchToNeighbour
  PROVE  PanelsGood
  <1> USE DEF Panels!loginVars, Panels!vaultVars, Panels!bindingVars
  <1>1. /\ UNCHANGED <<rows, selected, bookmarkRows>>
        /\ UNCHANGED <<unlocked, known, logins, nextLogin, born, loginRows, editing, editingBorn>>
        /\ UNCHANGED <<bindings, bindingRows, menu, listening>> /\ Panels!CloseAllOverlays
    BY DEF Panels!SwitchToNeighbour
  <1>2. PanelPagesOK /\ PanelMarksOK /\ pages \in Seq(Panels!Ids)
    BY DEF PanelsInv, PanelPagesOK
  <1> DEFINE n == Len(pages)
  <1>3. n \in Nat /\ \A i \in 1..n : pages[i] \in Panels!Open
    BY <1>2, InOrderIs DEF Panels!Open
  <1>4. PICK i \in 1..n, step \in {1, n - 1} : Panels!PageShown(pages[((i - 1 + step) % n) + 1])
    BY DEF Panels!SwitchToNeighbour
  <1> HIDE DEF n
  <1>5. ((i - 1 + step) % n) + 1 \in 1..n
    <2>1. n \in Nat \ {0} /\ i - 1 + step \in Nat
      BY <1>3
    <2>2. \A x \in Nat, m \in Nat \ {0} : (x % m) + 1 \in 1..m
      BY Z3
    <2> QED BY <2>1, <2>2
  <1>6. PanelPagesOK' /\ PanelMarksOK'
    <2>1. pages[((i - 1 + step) % n) + 1] \in Panels!Open
      BY <1>3, <1>5
    <2> QED BY <1>1, <1>2, <1>4, <2>1, PanelPageShown
  <1> QED BY <1>1, <1>6, ThenClosedGood

(* A page opens behind, or one moves on: what is listed is still open.     *)
LEMMA BehindGood ==
  ASSUME PanelsAssumed, PanelsInv, Panels!OpenBehind \/ \E u \in Urls, p \in Panels!Ids : Panels!Navigate(p, u)
  PROVE  PanelsGood
  <1> USE PanelsConstants DEF Panels!switcherVars, Panels!bookmarkVars, Panels!loginVars,
                              Panels!vaultVars, Panels!bindingVars
  <1>1. /\ UNCHANGED <<active, overlay, panels, text, rows, selected>>
        /\ UNCHANGED <<bookmarks, bookmarkRows, star, starOf>>
        /\ UNCHANGED <<unlocked, known, logins, nextLogin, born, loginRows, editing, editingBorn>>
        /\ UNCHANGED <<bindings, bindingRows, menu, listening>>
    BY DEF Panels!OpenBehind, Panels!Navigate
  <1>2. PanelPagesOK
    BY DEF PanelsInv
  <1>3. PanelPagesOK' /\ Panels!Open \subseteq Panels!Open'
    <2>1. CASE Panels!OpenBehind
      <3>1. /\ nextId <= MaxPages /\ pages' = Append(pages, nextId)
            /\ urlOf' = [urlOf EXCEPT ![nextId] = NoText] /\ nextId' = nextId + 1
        BY <2>1 DEF Panels!OpenBehind
      <3>2. /\ nextId \in 1..MaxPages /\ active \in 1 .. nextId - 1
            /\ Panels!Open \subseteq 1 .. nextId - 1 /\ nextId \notin Panels!Open
        BY <1>2, <3>1 DEF PanelPagesOK
      <3>3. /\ pages' \in Seq(Panels!Ids) /\ Panels!Open' = Panels!Open \cup {nextId}
            /\ Distinct(pages')
        BY <1>2, <3>1, <3>2, PanelsAppend DEF PanelPagesOK, Panels!Open
      <3>4. nextId' - 1 = nextId /\ nextId' \in 1 .. MaxPages + 1
        BY <3>1, <3>2
      <3>5. Panels!Open' \subseteq 1..nextId /\ active' \in 1..nextId
        BY <1>1, <3>2, <3>3
      <3>6. urlOf' \in [Panels!Ids -> Panels!Texts]
        BY <1>2, <3>1, <3>2 DEF PanelPagesOK
      <3>7. PanelPagesOK'
        BY <3>3, <3>4, <3>5, <3>6 DEF PanelPagesOK, Panels!Ids, Panels!Texts, Distinct
      <3> QED BY <3>3, <3>7
    <2>2. CASE \E u \in Urls, p \in Panels!Ids : Panels!Navigate(p, u)
      <3>1. PICK u \in Urls, p \in Panels!Ids : Panels!Navigate(p, u)
        BY <2>2
      <3>2. urlOf' = [urlOf EXCEPT ![p] = u] /\ UNCHANGED <<pages, nextId>>
        BY <3>1 DEF Panels!Navigate
      <3> QED BY <1>1, <1>2, <3>2 DEF PanelPagesOK, Panels!Open
    <2> QED BY <2>1, <2>2
  <1>4. PanelMarksOK' /\ PanelViewOK' /\ selected' \in Nat
    BY <1>1, PanelMarksKept DEF PanelsInv, PanelViewOK, PanelRowsOK
  <1>5. PanelRowsOK'
    BY <1>1, <1>3, <1>4, PanelRowsKept, PanelRowsHidden DEF PanelsInv
  <1> QED BY <1>1, <1>3, <1>4, <1>5, OtherPanelsGood

LEMMA BookmarksGood ==
  ASSUME PanelsAssumed, PanelsInv,
         \/ Panels!OpenBookmarks \/ Panels!ToggleBookmarkForActive
         \/ \E i \in 1..Len(bookmarkRows) : \/ Panels!BookmarkRowOpenClicked(i)
                                            \/ Panels!BookmarkRowRemoveClicked(i)
  PROVE  PanelsGood
  <1> USE PanelsConstants DEF Panels!pageVars, Panels!switcherVars, Panels!loginVars,
                              Panels!vaultVars, Panels!bindingVars
  <1>1. /\ PanelPagesOK /\ PanelMarksOK /\ PanelViewOK /\ PanelRowsOK
        /\ bookmarks \in Seq(Panels!Texts) /\ bookmarkRows \in Seq(Panels!Texts) /\ selected \in Nat
    BY DEF PanelsInv, PanelMarksOK, PanelRowsOK
  <1>2. /\ UNCHANGED <<rows, selected>>
        /\ UNCHANGED <<unlocked, known, logins, nextLogin, born, loginRows, editing, editingBorn>>
        /\ UNCHANGED <<bindings, bindingRows, menu, listening>>
    BY DEF Panels!OpenBookmarks, Panels!ToggleBookmarkForActive, Panels!BookmarkRowOpenClicked,
           Panels!BookmarkRowRemoveClicked
  <1>3. CASE Panels!OpenBookmarks
    <2>1. /\ Panels!OpenOverlay("bookmarks") /\ bookmarkRows' = bookmarks
          /\ UNCHANGED <<pages, active, nextId, urlOf>> /\ UNCHANGED <<bookmarks, star, starOf>>
          /\ text' = IF active \in Panels!Open THEN Panels!ActiveUrl ELSE text
      BY <1>3 DEF Panels!OpenBookmarks
    <2>2. PanelPagesOK' /\ PanelMarksOK'
      BY <1>1, <2>1, PanelPagesKept DEF PanelMarksOK
    <2>3. text' \in Panels!Texts
      BY <1>1, <2>1, ActiveUrlIn DEF PanelViewOK
    <2>4. PanelViewOK' /\ overlay' = "bookmarks"
      BY <2>1, <2>3, PanelViewOpened DEF Panels!Overlays
    <2> QED BY <1>1, <1>2, <2>2, <2>4, PanelRowsHidden, OtherPanelsGood
  <1>4. CASE \E i \in 1..Len(bookmarkRows) : Panels!BookmarkRowOpenClicked(i)
    <2>1. PICK i \in 1..Len(bookmarkRows) : Panels!BookmarkRowOpenClicked(i)
      BY <1>4
    <2>2. /\ Panels!PageAdded(pages, bookmarkRows[i]) /\ Panels!CloseAllOverlays
          /\ UNCHANGED bookmarkRows
      BY <2>1 DEF Panels!BookmarkRowOpenClicked
    <2>3. /\ pages \in Seq(Panels!Ids) /\ Panels!InOrder(pages) \subseteq Panels!Open /\ Distinct(pages)
          /\ bookmarkRows[i] \in Panels!Texts
      BY <1>1, ElementOfSeq DEF PanelPagesOK, Panels!Open
    <2>4. PanelPagesOK' /\ PanelMarksOK'
      BY <1>1, <2>2, <2>3, PanelPageAdded
    <2> QED BY <1>2, <2>2, <2>4, ThenClosedGood
  <1>5. CASE \/ Panels!ToggleBookmarkForActive
             \/ \E i \in 1..Len(bookmarkRows) : Panels!BookmarkRowRemoveClicked(i)
    <2>1. /\ UNCHANGED <<pages, active, nextId, urlOf>> /\ UNCHANGED <<overlay, panels, text, rows>>
          /\ Panels!RefreshStar
      BY <1>5 DEF Panels!ToggleBookmarkForActive, Panels!BookmarkRowRemoveClicked
    <2>2. PanelPagesOK' /\ Panels!Open' = Panels!Open
      BY <1>1, <2>1, PanelPagesKept
    <2>3. PanelViewOK'
      BY <1>1, <2>1 DEF PanelViewOK
    <2>4. PanelRowsOK'
      BY <1>1, <1>2, <2>1, <2>2, PanelRowsKept, PanelRowsHidden
    <2>5. bookmarks' \in Seq(Panels!Texts) /\ bookmarkRows' \in Seq(Panels!Texts)
      <3>1. CASE Panels!ToggleBookmarkForActive
        <4>1. Panels!ActiveUrl \in Panels!Texts
          BY <1>1, <3>1, InOrderIs DEF Panels!ToggleBookmarkForActive, Panels!ActiveUrl, PanelPagesOK, Panels!Open
        <4>2. PICK u \in Panels!Texts : u = Panels!ActiveUrl
          BY <4>1
        <4>3. /\ bookmarks' = IF u \in Panels!InOrder(bookmarks)
                              THEN Panels!Filter(bookmarks, Panels!Texts \ {u}) ELSE <<u>> \o bookmarks
              /\ UNCHANGED bookmarkRows
          BY <3>1, <4>2 DEF Panels!ToggleBookmarkForActive
        <4>4. Panels!Filter(bookmarks, Panels!Texts \ {u}) \in Seq(Panels!Texts)
          BY <1>1, PanelsFilter
        <4>5. <<u>> \o bookmarks \in Seq(Panels!Texts)
          BY <1>1, <4>2, ConcatProperties
        <4> QED BY <1>1, <4>3, <4>4, <4>5
      <3>2. CASE \E i \in 1..Len(bookmarkRows) : Panels!BookmarkRowRemoveClicked(i)
        <4>1. PICK i \in 1..Len(bookmarkRows) : Panels!BookmarkRowRemoveClicked(i)
          BY <3>2
        <4>2. /\ bookmarks' = Panels!Filter(bookmarks, Panels!Texts \ {bookmarkRows[i]})
              /\ bookmarkRows' = bookmarks'
          BY <4>1 DEF Panels!BookmarkRowRemoveClicked
        <4> QED BY <1>1, <4>2, PanelsFilter
      <3> QED BY <1>5, <3>1, <3>2
    <2>6. PanelMarksOK'
      BY <2>1, <2>2, <2>5, PanelStarDrawn
    <2> QED BY <1>2, <2>1, <2>2, <2>3, <2>4, <2>6, OtherPanelsGood
  <1> QED BY <1>3, <1>4, <1>5

(* Handlers of the panels' own state: the pages, the bookmarks and the     *)
(* switcher's rows stay.                                                   *)
LEMMA OwnPanelGood ==
  ASSUME PanelsAssumed, PanelsInv, UNCHANGED <<pages, active, nextId, urlOf>>,
         UNCHANGED <<rows, selected>>, UNCHANGED <<bookmarks, bookmarkRows, star, starOf>>,
         \/ UNCHANGED <<overlay, panels, text>>
         \/ Panels!CloseAllOverlays
         \/ /\ \E o \in Panels!Overlays \ {"none", "switcher"} : Panels!OpenOverlay(o)
            /\ text' = IF active \in Panels!Open THEN Panels!ActiveUrl ELSE text
  PROVE  /\ PanelPagesOK' /\ PanelMarksOK' /\ PanelViewOK' /\ PanelRowsOK'
         /\ UNCHANGED overlay \/ overlay' = "none" \/ \E o \in Panels!Overlays : Panels!OpenOverlay(o)
  <1>1. /\ PanelPagesOK /\ PanelMarksOK /\ PanelViewOK /\ PanelRowsOK /\ selected \in Nat
    BY DEF PanelsInv, PanelRowsOK
  <1>2. PanelPagesOK' /\ Panels!Open' = Panels!Open /\ PanelMarksOK'
    BY <1>1, PanelPagesKept, PanelMarksKept
  <1>3. PanelViewOK' /\ (UNCHANGED overlay \/ overlay' = "none" \/
           \E o \in Panels!Overlays \ {"none", "switcher"} : Panels!OpenOverlay(o) /\ overlay' = o)
    <2>1. CASE UNCHANGED <<overlay, panels, text>>
      BY <1>1, <2>1 DEF PanelViewOK
    <2>2. CASE Panels!CloseAllOverlays
      BY <1>1, <1>2, <2>2, PanelViewClosed
    <2>3. CASE /\ \E o \in Panels!Overlays \ {"none", "switcher"} : Panels!OpenOverlay(o)
               /\ text' = IF active \in Panels!Open THEN Panels!ActiveUrl ELSE text
      <3>1. PICK o \in Panels!Overlays \ {"none", "switcher"} : Panels!OpenOverlay(o)
        BY <2>3
      <3>2. text' \in Panels!Texts
        BY <1>1, <2>3, ActiveUrlIn DEF PanelViewOK
      <3> QED BY <3>1, <3>2, PanelViewOpened
    <2> QED BY <2>1, <2>2, <2>3
  <1>4. overlay' # "switcher" \/ overlay = "switcher"
    BY <1>3
  <1>5. PanelRowsOK'
    BY <1>1, <1>2, <1>4, PanelRowsKept
  <1> QED BY <1>2, <1>3, <1>5

LEMMA PlainGood ==
  ASSUME PanelsAssumed, PanelsInv,
         \/ Panels!CloseAnyOverlay \/ Panels!SaveSettings \/ Panels!OpenProfilePicker
         \/ Panels!ProfileRowClicked \/ Panels!CreateAndOpenProfile
         \/ \E i \in 1..Len(loginRows) : Panels!PasswordRowFillClicked(i)
  PROVE  PanelsGood
  <1> USE DEF Panels!pageVars, Panels!bookmarkVars, Panels!loginVars, Panels!vaultVars,
              Panels!bindingVars
  <1>1. /\ UNCHANGED <<pages, active, nextId, urlOf>> /\ UNCHANGED <<rows, selected>>
        /\ UNCHANGED <<bookmarks, bookmarkRows, star, starOf>>
        /\ UNCHANGED <<unlocked, known, logins, nextLogin, born, loginRows, editing, editingBorn>>
        /\ UNCHANGED <<bindings, bindingRows, menu, listening>>
    BY DEF Panels!CloseAnyOverlay, Panels!SaveSettings, Panels!OpenProfilePicker,
           Panels!ProfileRowClicked, Panels!CreateAndOpenProfile, Panels!PasswordRowFillClicked
  <1>2. CASE Panels!OpenProfilePicker
    <2>1. /\ Panels!OpenOverlay("profile") /\ "profile" \in Panels!Overlays \ {"none", "switcher"}
          /\ text' = IF active \in Panels!Open THEN Panels!ActiveUrl ELSE text
      BY <1>2 DEF Panels!OpenProfilePicker, Panels!Overlays
    <2>2. overlay' = "profile"
      BY <2>1 DEF Panels!OpenOverlay
    <2> QED BY <1>1, <2>1, <2>2, OwnPanelGood, OtherPanelsGood
  <1>3. CASE ~Panels!OpenProfilePicker
    <2>1. Panels!CloseAllOverlays
      BY <1>3 DEF Panels!CloseAnyOverlay, Panels!SaveSettings, Panels!ProfileRowClicked,
                  Panels!CreateAndOpenProfile, Panels!PasswordRowFillClicked
    <2>2. overlay' = "none"
      BY <2>1 DEF Panels!CloseAllOverlays
    <2> QED BY <1>1, <2>1, <2>2, OwnPanelGood, OtherPanelsGood
  <1> QED BY <1>2, <1>3

LEMMA EquivalentsIn ==
  ASSUME PanelsAssumed, NEW b \in [Actions -> Seq(Chords)]
  PROVE  Panels!Equivalents(b) \in [Actions -> Chords \cup {NoChord}]
  <1>1. \A a \in Actions : b[a] \in Seq(Chords) /\ (b[a] # <<>> => b[a][1] \in Chords)
    <2> SUFFICES ASSUME NEW a \in Actions PROVE b[a] \in Seq(Chords) /\ (b[a] # <<>> => b[a][1] \in Chords)
      OBVIOUS
    <2>1. PICK s \in Seq(Chords) : s = b[a]
      OBVIOUS
    <2>2. s # <<>> => s[1] \in Chords
      OBVIOUS
    <2> QED BY <2>1, <2>2
  <1>2. \A c \in Chords : KeyEquivalent[c] \in Chords \cup {NoChord}
    BY PanelsConstants
  <1> QED BY <1>1, <1>2 DEF Panels!Equivalents

LEMMA KeysGood ==
  ASSUME PanelsAssumed, PanelsInv,
         \/ Panels!OpenSettings
         \/ \E a \in Actions : \/ Panels!KeybindingAddClicked(a) \/ Panels!KeybindingRemoveClicked(a)
                               \/ \E chord \in Chords \cup {NoChord} : Panels!KeybindingCommit(a, chord)
  PROVE  PanelsGood
  <1> USE DEF Panels!pageVars, Panels!switcherVars, Panels!bookmarkVars, Panels!loginVars,
              Panels!vaultVars
  <1>1. /\ UNCHANGED <<pages, active, nextId, urlOf>> /\ UNCHANGED <<rows, selected>>
        /\ UNCHANGED <<bookmarks, bookmarkRows, star, starOf>>
        /\ UNCHANGED <<unlocked, known, logins, nextLogin, born, loginRows, editing, editingBorn>>
    BY DEF Panels!OpenSettings, Panels!KeybindingAddClicked, Panels!KeybindingRemoveClicked,
           Panels!KeybindingCommit
  <1>2. PanelPagesOK' /\ PanelMarksOK' /\ PanelViewOK' /\ PanelRowsOK'
    <2>1. CASE Panels!OpenSettings
      <3>1. /\ Panels!OpenOverlay("settings") /\ "settings" \in Panels!Overlays \ {"none", "switcher"}
            /\ text' = IF active \in Panels!Open THEN Panels!ActiveUrl ELSE text
        BY <2>1 DEF Panels!OpenSettings, Panels!Overlays
      <3> QED BY <1>1, <3>1, OwnPanelGood
    <2>2. CASE ~Panels!OpenSettings
      <3>1. UNCHANGED <<overlay, panels, text>>
        BY <2>2 DEF Panels!KeybindingAddClicked, Panels!KeybindingRemoveClicked, Panels!KeybindingCommit
      <3> QED BY <1>1, <3>1, OwnPanelGood
    <2> QED BY <2>1, <2>2
  <1>3. PanelVaultOK' /\ VaultStep
    BY <1>1, PanelVaultKept DEF PanelsInv, VaultStep
  <1>4. /\ bindings \in [Actions -> Seq(Chords)] /\ listening \in Actions \cup {NoAction}
        /\ menu = Panels!Equivalents(bindings)
    BY DEF PanelsInv, PanelKeysOK
  <1>5. bindingRows' = bindings'
    BY DEF Panels!OpenSettings, Panels!KeybindingAddClicked, Panels!KeybindingRemoveClicked,
           Panels!KeybindingCommit, Panels!RebuildKeybindingsRows
  <1>6. listening' \in Actions \cup {NoAction}
    BY <1>4 DEF Panels!OpenSettings, Panels!KeybindingAddClicked, Panels!KeybindingRemoveClicked,
           Panels!KeybindingCommit
  <1>7. bindings' \in [Actions -> Seq(Chords)] /\ menu' = Panels!Equivalents(bindings')
    <2>1. CASE Panels!OpenSettings \/ \E a \in Actions : Panels!KeybindingAddClicked(a)
      <3>1. UNCHANGED <<bindings, menu>>
        BY <2>1 DEF Panels!OpenSettings, Panels!KeybindingAddClicked
      <3> QED BY <1>4, <3>1
    <2>2. CASE \E a \in Actions : Panels!KeybindingRemoveClicked(a)
      <3>1. PICK a \in Actions : Panels!KeybindingRemoveClicked(a)
        BY <2>2
      <3>2. PICK s \in Seq(Chords) : s = bindings[a]
        BY <1>4
      <3>3. /\ s # <<>> /\ bindings' = [bindings EXCEPT ![a] = Tail(s)]
            /\ menu' = Panels!Equivalents(bindings')
        BY <3>1, <3>2 DEF Panels!KeybindingRemoveClicked, Panels!RebuildMenuKeyEquivalents
      <3>4. Tail(s) \in Seq(Chords)
        BY <3>3, HeadTailProperties
      <3> QED BY <1>4, <3>3, <3>4
    <2>3. CASE \E a \in Actions, chord \in Chords \cup {NoChord} : Panels!KeybindingCommit(a, chord)
      <3>1. PICK a \in Actions, chord \in Chords \cup {NoChord} : Panels!KeybindingCommit(a, chord)
        BY <2>3
      <3>2. PICK s \in Seq(Chords) : s = bindings[a]
        BY <1>4
      <3>3. /\ bindings' = IF chord = NoChord \/ chord \in Panels!InOrder(s) THEN bindings
                           ELSE [bindings EXCEPT ![a] = Append(s, chord)]
            /\ menu' = Panels!Equivalents(bindings')
        BY <3>1, <3>2 DEF Panels!KeybindingCommit, Panels!RebuildMenuKeyEquivalents
      <3>4. chord # NoChord => Append(s, chord) \in Seq(Chords)
        BY <3>2, AppendProperties
      <3> QED BY <1>4, <3>3, <3>4
    <2> QED BY <2>1, <2>2, <2>3
  <1>8. PanelKeysOK'
    BY <1>5, <1>6, <1>7 DEF PanelKeysOK, Panels!Equivalents
  <1>9. TilesStep
    BY <1>1 DEF TilesStep
  <1> QED BY <1>2, <1>3, <1>8, <1>9 DEF PanelsGood, PanelsInv

(* The rows of a vault: one for each login, with its id.                   *)
LEMMA VaultListed ==
  ASSUME PanelsAssumed, NEW next \in Nat \ {0}, NEW b \in Nat, NEW store, LoginsOK(store, next, b)
  PROVE  LoginRowsOK(Panels!Listed(store), store, next, b)
  <1> USE PanelsConstants
  <1> DEFINE ids == DOMAIN store
             c == Cardinality(ids)
             At(i) == CHOOSE x \in ids : UpTo(ids, x) = c + 1 - i
             R == [id : Nat, born : Nat, site : Urls]
             s == [i \in 1..c |-> [id |-> At(i), born |-> store[At(i)].born,
                                   site |-> Site[store[At(i)].content]]]
  <1>1. Panels!Listed(store) = s
    BY DEF Panels!Listed, Panels!Cardinality, Panels!UpTo, Cardinality, UpTo
  <1>2. ids \in SUBSET (1..next)
    <2>1. \A id \in ids : id \in 1..next
      BY DEF LoginsOK
    <2> QED BY <2>1
  <1>3. c \in 0..next /\ \A k \in 1..c : \E x \in ids : UpTo(ids, x) = k
    BY <1>2, PlacesCounted
  <1>4. \A i \in 1..c : At(i) \in ids
    <2> SUFFICES ASSUME NEW i \in 1..c PROVE At(i) \in ids
      OBVIOUS
    <2>1. c + 1 - i \in 1..c
      BY <1>3
    <2> HIDE DEF c
    <2> QED BY <1>3, <2>1
  <1> HIDE DEF c, At
  <1>5. \A x \in ids : /\ x \in Nat /\ x < next /\ store[x].born \in Nat /\ store[x].born <= b
                       /\ store[x].content \in Contents /\ Site[store[x].content] \in Urls
    BY DEF LoginsOK
  <1>6. \A i \in 1..c : /\ s[i] \in R /\ s[i].id = At(i) /\ s[i].born = store[At(i)].born
    BY <1>4, <1>5
  <1>7. c \in Nat /\ Len(s) = c /\ s \in Seq(R)
    <2>1. c \in Nat
      BY <1>3
    <2>2. s = [i \in 1..c |-> s[i]]
      OBVIOUS
    <2> HIDE DEF s, R
    <2> QED BY <1>6, <2>1, <2>2
  <1> HIDE DEF s, R
  <1>8. \A i \in 1..Len(s) : s[i].id < next /\ s[i].born <= b /\ s[i].born = store[s[i].id].born
    BY <1>4, <1>5, <1>6, <1>7
  <1> QED BY <1>1, <1>7, <1>8 DEF R, LoginRowsOK

(* PasswordStore::add, update and delete keep what the ids say: they are   *)
(* given once.                                                             *)
VaultGrows ==
  /\ nextLogin' \in Nat \ {0} /\ born' \in Nat /\ nextLogin <= nextLogin' /\ born <= born'
  /\ \A id \in DOMAIN logins' :
       /\ id \in Nat \ {0} /\ id < nextLogin'
       /\ logins'[id] \in [born : Nat, content : Contents] /\ logins'[id].born \in 1..born'
       /\ id < nextLogin => id \in DOMAIN logins /\ logins'[id].born = logins[id].born

LEMMA VaultAdded ==
  ASSUME PanelVaultOK, NEW content \in Contents, Panels!LoginAdded(content)
  PROVE  /\ VaultGrows
         /\ \A id \in DOMAIN logins : id \in DOMAIN logins' /\ logins'[id] = logins[id]
  <1> DEFINE new == [born |-> born + 1, content |-> content]
  <1>1. /\ DOMAIN logins' = DOMAIN logins \cup {nextLogin}
        /\ \A id \in DOMAIN logins' : logins'[id] = IF id = nextLogin THEN new ELSE logins[id]
        /\ nextLogin' = nextLogin + 1 /\ born' = born + 1
    BY DEF Panels!LoginAdded, Panels!NextRowId
  <1>2. /\ nextLogin \in Nat \ {0} /\ born \in Nat
        /\ \A id \in DOMAIN logins :
             /\ id \in Nat \ {0} /\ id < nextLogin
             /\ logins[id] \in [born : Nat, content : Contents] /\ logins[id].born \in 1..born
    BY DEF PanelVaultOK, LoginsOK, LoginRowsOK
  <1>3. new \in [born : Nat, content : Contents] /\ new.born = born + 1
    BY <1>2
  <1> HIDE DEF new
  <1>4. ~(nextLogin < nextLogin) /\ nextLogin \notin DOMAIN logins
    BY <1>2
  <1>5. nextLogin' \in Nat \ {0} /\ born' \in Nat /\ nextLogin <= nextLogin' /\ born <= born'
    BY <1>1, <1>2
  <1>6. \A id \in DOMAIN logins : id \in DOMAIN logins' /\ logins'[id] = logins[id]
    BY <1>1, <1>4
  <1>7. nextLogin \in DOMAIN logins' /\ logins'[nextLogin] = new
    BY <1>1
  <1>8. ASSUME NEW id \in DOMAIN logins'
        PROVE  /\ id \in Nat \ {0} /\ id < nextLogin'
               /\ logins'[id] \in [born : Nat, content : Contents] /\ logins'[id].born \in 1..born'
               /\ id < nextLogin => id \in DOMAIN logins /\ logins'[id].born = logins[id].born
    <2>1. CASE id \in DOMAIN logins
      <3>1. logins[id].born \in 1..born /\ logins[id].born \in 1..born'
        BY <1>1, <1>2, <2>1
      <3>2. id < nextLogin'
        BY <1>1, <1>2, <2>1
      <3> QED BY <1>2, <1>6, <2>1, <3>1, <3>2
    <2>2. CASE id = nextLogin
      <3>1. id < nextLogin' /\ new.born \in 1..born'
        BY <1>1, <1>2, <1>3, <2>2
      <3> QED BY <1>2, <1>3, <1>4, <1>7, <2>2, <3>1
    <2> QED BY <1>1, <2>1, <2>2
  <1> QED BY <1>5, <1>6, <1>8 DEF VaultGrows

LEMMA VaultUpdated ==
  ASSUME PanelVaultOK, NEW id, NEW content \in Contents, Panels!LoginUpdated(id, content)
  PROVE  /\ VaultGrows
         /\ \A x \in DOMAIN logins : x \in DOMAIN logins' /\ (x # id => logins'[x] = logins[x])
  <1>1. /\ nextLogin \in Nat \ {0} /\ born \in Nat /\ UNCHANGED <<nextLogin, born>>
        /\ \A x \in DOMAIN logins :
             /\ x \in Nat \ {0} /\ x < nextLogin
             /\ logins[x] \in [born : Nat, content : Contents] /\ logins[x].born \in 1..born
    BY DEF PanelVaultOK, LoginsOK, LoginRowsOK, Panels!LoginUpdated
  <1>2. CASE id \in DOMAIN logins
    <2>1. logins' = [logins EXCEPT ![id] = [@ EXCEPT !.content = content]]
      BY <1>2 DEF Panels!LoginUpdated
    <2>2. PICK l \in [born : Nat, content : Contents] : l = logins[id]
      BY <1>1, <1>2
    <2>3. PICK k : k = [l EXCEPT !.content = content]
      OBVIOUS
    <2>4. k \in [born : Nat, content : Contents] /\ k.born = l.born
      BY <2>3
    <2>5. /\ DOMAIN logins' = DOMAIN logins
          /\ \A x \in DOMAIN logins : logins'[x] = IF x = id THEN k ELSE logins[x]
      BY <2>1, <2>2, <2>3
    <2> QED BY <1>1, <2>2, <2>4, <2>5 DEF VaultGrows
  <1>3. CASE id \notin DOMAIN logins
    <2>1. logins' = logins
      BY <1>3 DEF Panels!LoginUpdated
    <2> QED BY <1>1, <2>1 DEF VaultGrows
  <1> QED BY <1>2, <1>3

LEMMA VaultDeleted ==
  ASSUME PanelVaultOK, NEW id, Panels!LoginDeleted(id)
  PROVE  /\ VaultGrows /\ DOMAIN logins' = DOMAIN logins \ {id}
         /\ \A x \in DOMAIN logins' : logins'[x] = logins[x]
  <1>1. /\ UNCHANGED <<nextLogin, born>> /\ DOMAIN logins' = DOMAIN logins \ {id}
        /\ \A x \in DOMAIN logins' : logins'[x] = logins[x]
    BY DEF Panels!LoginDeleted
  <1> QED BY <1>1 DEF PanelVaultOK, LoginsOK, LoginRowsOK, VaultGrows

(* What the vault's handlers have in common.                               *)
LEMMA VaultOK ==
  ASSUME PanelsAssumed, PanelVaultOK, VaultGrows,
         unlocked' \in BOOLEAN, known' \in BOOLEAN, unlocked' => known',
         UNCHANGED loginRows \/ loginRows' = Panels!Listed(logins'),
         \/ UNCHANGED <<editing, editingBorn>>
         \/ editing' = 0 /\ editingBorn' = 0
         \/ \E i \in 1..Len(loginRows) :
              editing' = loginRows[i].id /\ editingBorn' = loginRows[i].born
  PROVE  PanelVaultOK'
  <1>1. /\ nextLogin \in Nat \ {0} /\ born \in Nat
        /\ editing \in Nat /\ editing < nextLogin /\ editingBorn \in 0..born
        /\ editing \in DOMAIN logins => logins[editing].born = editingBorn
        /\ loginRows \in Seq([id : Nat, born : Nat, site : Urls])
    BY DEF PanelVaultOK, LoginsOK, LoginRowsOK
  <1>2. /\ nextLogin' \in Nat \ {0} /\ born' \in Nat /\ nextLogin <= nextLogin' /\ born <= born'
        /\ \A id \in DOMAIN logins' :
             /\ id \in Nat \ {0} /\ id < nextLogin'
             /\ logins'[id] \in [born : Nat, content : Contents] /\ logins'[id].born \in 1..born'
             /\ id < nextLogin => id \in DOMAIN logins /\ logins'[id].born = logins[id].born
    BY DEF VaultGrows
  <1>3. /\ \A x \in Nat : x < nextLogin => x < nextLogin'
        /\ \A x \in Nat : x <= born => x <= born' /\ x \in 0..born'
    <2>1. \A x, y, z \in Nat : (x < y /\ y <= z => x < z) /\ (x <= y /\ y <= z => x <= z /\ x \in 0..z)
      OBVIOUS
    <2>2. nextLogin \in Nat /\ nextLogin' \in Nat /\ born \in Nat /\ born' \in Nat
      BY <1>1, <1>2
    <2> QED BY <1>2, <2>1, <2>2
  <1>4. \A i \in 1..Len(loginRows) :
          /\ loginRows[i].id \in Nat /\ loginRows[i].born \in Nat
          /\ loginRows[i].id < nextLogin /\ loginRows[i].born <= born
          /\ loginRows[i].id \in DOMAIN logins => logins[loginRows[i].id].born = loginRows[i].born
    <2>1. \A i \in 1..Len(loginRows) : loginRows[i] \in [id : Nat, born : Nat, site : Urls]
      BY <1>1, ElementOfSeq
    <2> QED BY <2>1 DEF PanelVaultOK, LoginsOK, LoginRowsOK
  <1>5. /\ loginRows' \in Seq([id : Nat, born : Nat, site : Urls])
        /\ \A i \in 1..Len(loginRows') :
             /\ loginRows'[i].id < nextLogin' /\ loginRows'[i].born <= born'
             /\ loginRows'[i].id \in DOMAIN logins' =>
                  logins'[loginRows'[i].id].born = loginRows'[i].born
    <2>1. CASE UNCHANGED loginRows
      <3>1. \A i \in 1..Len(loginRows) : loginRows[i].id < nextLogin' /\ loginRows[i].born <= born'
        BY <1>4, <1>3
      <3> QED BY <1>1, <1>2, <1>4, <2>1, <3>1
    <2>2. CASE loginRows' = Panels!Listed(logins')
      <3>1. LoginsOK(logins', nextLogin', born')
        BY <1>2 DEF LoginsOK
      <3>2. LoginRowsOK(Panels!Listed(logins'), logins', nextLogin', born')
        BY <1>2, <3>1, VaultListed
      <3> QED BY <2>2, <3>2 DEF LoginRowsOK
    <2> QED BY <2>1, <2>2
  <1>6. /\ editing' \in Nat /\ editing' < nextLogin' /\ editingBorn' \in 0..born'
        /\ editing' \in DOMAIN logins' => logins'[editing'].born = editingBorn'
    <2>1. CASE UNCHANGED <<editing, editingBorn>>
      <3>1. editing < nextLogin' /\ editingBorn \in 0..born'
        BY <1>1, <1>2
      <3> QED BY <1>1, <1>2, <2>1, <3>1
    <2>2. CASE editing' = 0 /\ editingBorn' = 0
      BY <1>1, <1>2, <2>2
    <2>3. CASE \E i \in 1..Len(loginRows) :
                 editing' = loginRows[i].id /\ editingBorn' = loginRows[i].born
      <3>1. PICK i \in 1..Len(loginRows) :
                   editing' = loginRows[i].id /\ editingBorn' = loginRows[i].born
        BY <2>3
      <3>2. loginRows[i].id < nextLogin' /\ loginRows[i].born \in 0..born'
        BY <1>4, <1>3
      <3> QED BY <1>2, <1>4, <3>1, <3>2
    <2> QED BY <2>1, <2>2, <2>3
  <1> QED BY <1>2, <1>5, <1>6 DEF PanelVaultOK, LoginsOK, LoginRowsOK

VaultHandler ==
  \/ Panels!OpenPasswords \/ Panels!UnlockVaultClicked \/ Panels!CancelEditingLogin
  \/ Panels!OtherWindow
  \/ \E i \in 1..Len(loginRows) : Panels!PasswordRowEditClicked(i) \/ Panels!PasswordRowDeleteClicked(i)
  \/ \E content \in Contents : Panels!SubmitLogin(content)

LEMMA VaultSame ==
  ASSUME PanelVaultOK, UNCHANGED <<logins, nextLogin, born>>
  PROVE  VaultGrows
  BY DEF PanelVaultOK, LoginsOK, LoginRowsOK, VaultGrows

LEMMA VaultGood ==
  ASSUME PanelsAssumed, PanelVaultOK, VaultHandler
  PROVE  PanelVaultOK' /\ VaultStep
  <1>1. unlocked \in BOOLEAN /\ known \in BOOLEAN /\ (unlocked => known)
    BY DEF PanelVaultOK
  <1>2. CASE Panels!OpenPasswords \/ Panels!UnlockVaultClicked
    <2>1. /\ UNCHANGED <<logins, nextLogin, born>>
          /\ UNCHANGED loginRows \/ loginRows' = Panels!Listed(logins)
          /\ UNCHANGED <<editing, editingBorn>> \/ (editing' = 0 /\ editingBorn' = 0)
          /\ UNCHANGED <<unlocked, known>> \/ (unlocked' = TRUE /\ known' = TRUE)
      BY <1>2 DEF Panels!OpenPasswords, Panels!UnlockVaultClicked, Panels!RebuildPasswordsView,
                  Panels!VaultOpened, Panels!vaultVars
    <2>2. loginRows' = loginRows \/ loginRows' = Panels!Listed(logins')
      BY <2>1
    <2>3. unlocked' \in BOOLEAN /\ known' \in BOOLEAN /\ (unlocked' => known')
      <3>1. CASE UNCHANGED <<unlocked, known>>
        BY <1>1, <3>1
      <3>2. CASE unlocked' = TRUE /\ known' = TRUE
        BY <3>2
      <3> QED BY <2>1, <3>1, <3>2
    <2>4. VaultGrows
      BY <2>1, VaultSame
    <2>5. PanelVaultOK'
      BY <2>1, <2>2, <2>3, <2>4, VaultOK
    <2> QED BY <2>1, <2>5 DEF VaultStep
  <1>3. CASE \/ Panels!CancelEditingLogin
             \/ \E i \in 1..Len(loginRows) : Panels!PasswordRowEditClicked(i)
    <2>1. /\ UNCHANGED <<unlocked, known>> /\ UNCHANGED <<logins, nextLogin, born>>
          /\ UNCHANGED loginRows
          /\ \/ editing' = 0 /\ editingBorn' = 0
             \/ \E i \in 1..Len(loginRows) :
                  editing' = loginRows[i].id /\ editingBorn' = loginRows[i].born
      BY <1>3 DEF Panels!CancelEditingLogin, Panels!PasswordRowEditClicked, Panels!vaultVars
    <2>2. VaultGrows
      BY <2>1, VaultSame
    <2>3. PanelVaultOK'
      BY <1>1, <2>1, <2>2, VaultOK
    <2> QED BY <2>1, <2>3 DEF VaultStep
  <1>4. CASE Panels!OtherWindow
    <2>1. /\ UNCHANGED <<unlocked, known>> /\ UNCHANGED loginRows
          /\ UNCHANGED <<editing, editingBorn>>
      BY <1>4 DEF Panels!OtherWindow, Panels!vaultVars
    <2>2. VaultGrows
      BY <1>4, VaultAdded, VaultDeleted DEF Panels!OtherWindow
    <2>3. PanelVaultOK'
      BY <1>1, <2>1, <2>2, VaultOK
    <2> QED BY <2>1, <2>3 DEF VaultStep
  <1>5. CASE \E i \in 1..Len(loginRows) : Panels!PasswordRowDeleteClicked(i)
    <2>1. PICK i \in 1..Len(loginRows) : Panels!PasswordRowDeleteClicked(i)
      BY <1>5
    <2>2. /\ Panels!LoginDeleted(loginRows[i].id) /\ loginRows' = Panels!Listed(logins')
          /\ UNCHANGED <<unlocked, known>> /\ UNCHANGED <<editing, editingBorn>>
      BY <2>1 DEF Panels!PasswordRowDeleteClicked, Panels!vaultVars
    <2>3. /\ VaultGrows /\ DOMAIN logins' = DOMAIN logins \ {loginRows[i].id}
          /\ \A x \in DOMAIN logins' : logins'[x] = logins[x]
      BY <2>2, VaultDeleted
    <2>4. PanelVaultOK'
      BY <1>1, <2>2, <2>3, VaultOK
    <2>5. loginRows[i].id \in DOMAIN logins => logins[loginRows[i].id].born = loginRows[i].born
      BY DEF PanelVaultOK, LoginsOK, LoginRowsOK
    <2>6. VaultStep
      BY <2>3, <2>5 DEF VaultStep
    <2> QED BY <2>4, <2>6
  <1>6. CASE \E content \in Contents : Panels!SubmitLogin(content)
    <2>1. PICK content \in Contents : Panels!SubmitLogin(content)
      BY <1>6
    <2>2. /\ IF editing = 0 THEN Panels!LoginAdded(content) ELSE Panels!LoginUpdated(editing, content)
          /\ editing' = 0 /\ editingBorn' = 0 /\ loginRows' = Panels!Listed(logins')
          /\ UNCHANGED <<unlocked, known>>
      BY <2>1 DEF Panels!SubmitLogin, Panels!vaultVars
    <2>3. /\ VaultGrows
          /\ \A x \in DOMAIN logins : x \in DOMAIN logins' /\ (x # editing => logins'[x] = logins[x])
      <3>1. CASE editing = 0
        BY <2>2, <3>1, VaultAdded
      <3>2. CASE editing # 0
        BY <2>2, <3>2, VaultUpdated
      <3> QED BY <3>1, <3>2
    <2>4. PanelVaultOK'
      BY <1>1, <2>2, <2>3, VaultOK
    <2>5. editing \in DOMAIN logins => logins[editing].born = editingBorn
      BY DEF PanelVaultOK
    <2>6. VaultStep
      BY <2>3, <2>5 DEF VaultStep
    <2> QED BY <2>4, <2>6
  <1> QED BY <1>2, <1>3, <1>4, <1>5, <1>6 DEF VaultHandler

LEMMA VaultPanelGood ==
  ASSUME PanelsAssumed, PanelsInv, VaultHandler
  PROVE  PanelsGood
  <1> USE DEF Panels!pageVars, Panels!switcherVars, Panels!bookmarkVars, Panels!bindingVars
  <1>1. PanelVaultOK' /\ VaultStep
    BY VaultGood DEF PanelsInv
  <1>2. /\ UNCHANGED <<pages, active, nextId, urlOf>> /\ UNCHANGED <<rows, selected>>
        /\ UNCHANGED <<bookmarks, bookmarkRows, star, starOf>>
        /\ UNCHANGED <<bindings, bindingRows, menu, listening>>
    BY DEF VaultHandler, Panels!OpenPasswords, Panels!UnlockVaultClicked, Panels!CancelEditingLogin,
           Panels!OtherWindow, Panels!PasswordRowEditClicked, Panels!PasswordRowDeleteClicked,
           Panels!SubmitLogin
  <1>3. \/ UNCHANGED <<overlay, panels, text>>
        \/ /\ Panels!OpenOverlay("passwords")
           /\ text' = IF active \in Panels!Open THEN Panels!ActiveUrl ELSE text
    BY DEF VaultHandler, Panels!OpenPasswords, Panels!UnlockVaultClicked, Panels!CancelEditingLogin,
           Panels!OtherWindow, Panels!PasswordRowEditClicked, Panels!PasswordRowDeleteClicked,
           Panels!SubmitLogin
  <1>4. "passwords" \in Panels!Overlays \ {"none", "switcher"}
    BY DEF Panels!Overlays
  <1>5. PanelPagesOK' /\ PanelMarksOK' /\ PanelViewOK' /\ PanelRowsOK'
    BY <1>2, <1>3, <1>4, OwnPanelGood
  <1>6. overlay' = overlay \/ overlay' # "settings"
    BY <1>3 DEF Panels!OpenOverlay
  <1>7. PanelKeysOK'
    BY <1>2, <1>6, PanelKeysKept DEF PanelsInv
  <1>8. TilesStep
    BY <1>2 DEF TilesStep
  <1> QED BY <1>1, <1>5, <1>7, <1>8 DEF PanelsGood, PanelsInv

-----------------------------------------------------------------------------
LEMMA InitPanels ==
  ASSUME PanelsAssumed, Panels!Init
  PROVE  PanelsInv
  <1> USE PanelsConstants
  <1>1. PanelPagesOK
    <2>1. pages = <<1>> /\ active = 1 /\ nextId = 2 /\ urlOf \in [Panels!Ids -> Panels!Texts] /\ 1 \in Panels!Ids
      BY DEF Panels!Init
    <2>2. pages \in Seq(Panels!Ids) /\ \A p \in Panels!Open : p = 1
      BY <2>1 DEF Panels!Open, Panels!InOrder
    <2> QED BY <2>1, <2>2 DEF PanelPagesOK, Distinct
  <1>2. PanelViewOK
    BY DEF Panels!Init, PanelViewOK, Panels!Overlays
  <1>3. PanelRowsOK
    BY DEF Panels!Init, PanelRowsOK
  <1>4. PanelMarksOK
    <2>1. bookmarks = <<>> /\ bookmarkRows = <<>> /\ star = FALSE /\ starOf \in Urls
      BY DEF Panels!Init
    <2>2. starOf \notin Panels!InOrder(bookmarks)
      BY <2>1 DEF Panels!InOrder
    <2>3. star = (starOf \in Panels!InOrder(bookmarks))
      <3>1. (starOf \in Panels!InOrder(bookmarks)) = FALSE
        BY <2>2
      <3> QED BY Zenon, <2>1, <3>1
    <2> QED BY <2>1, <2>3 DEF PanelMarksOK
  <1>5. PanelVaultOK
    <2>1. known \in BOOLEAN /\ unlocked \in {FALSE, known}
      BY DEF Panels!Init
    <2>2. unlocked \in BOOLEAN /\ (unlocked => known)
      <3>1. CASE unlocked = FALSE
        BY <3>1
      <3>2. CASE unlocked = known
        BY <2>1, <3>2
      <3> QED BY <2>1, <3>1, <3>2
    <2>3. /\ DOMAIN logins = {}
          /\ nextLogin = 1 /\ born = 0 /\ loginRows = <<>> /\ editing = 0 /\ editingBorn = 0
      BY DEF Panels!Init
    <2> QED BY <2>1, <2>2, <2>3 DEF PanelVaultOK, LoginsOK, LoginRowsOK
  <1>6. PanelKeysOK
    <2>1. /\ bindings \in [Actions -> {<<>>} \cup {<<c>> : c \in Chords}] /\ bindingRows = bindings
          /\ listening = NoAction /\ menu = Panels!Equivalents(bindings)
      BY DEF Panels!Init
    <2>2. ASSUME NEW c \in Chords PROVE <<c>> \in Seq(Chords)
      OBVIOUS
    <2>3. \A b \in {<<>>} \cup {<<c>> : c \in Chords} : b \in Seq(Chords)
      <3>1. <<>> \in Seq(Chords)
        OBVIOUS
      <3> QED BY Zenon, <2>2, <3>1
    <2>4. bindings \in [Actions -> Seq(Chords)]
      BY Zenon, <2>1, <2>3
    <2> QED BY <2>1, <2>4 DEF PanelKeysOK
  <1> QED BY <1>1, <1>2, <1>3, <1>4, <1>5, <1>6 DEF PanelsInv

LEMMA PanelsInductive ==
  ASSUME PanelsAssumed, PanelsInv, [Panels!Next]_Panels!vars
  PROVE  PanelsGood
  <1> USE DEF Panels!pageVars, Panels!switcherVars, Panels!bookmarkVars, Panels!loginVars,
              Panels!vaultVars, Panels!bindingVars
  <1>1. CASE UNCHANGED Panels!vars \/ Panels!NavigateBeyond
    <2>1. /\ UNCHANGED <<pages, active, nextId, urlOf>> /\ UNCHANGED <<overlay, panels, text>>
          /\ UNCHANGED <<rows, selected>> /\ UNCHANGED <<bookmarks, bookmarkRows, star, starOf>>
          /\ UNCHANGED <<unlocked, known, logins, nextLogin, born, loginRows, editing, editingBorn>>
          /\ UNCHANGED <<bindings, bindingRows, menu, listening>>
      BY <1>1 DEF Panels!vars, Panels!NavigateBeyond
    <2> QED BY <2>1, OwnPanelGood, OtherPanelsGood
  <1>2. CASE Panels!Handler
    <2>1. CASE \/ Panels!OpenSwitcher \/ Panels!OpenSwitcherEditingUrl
               \/ \E t \in Panels!Texts : Panels!Type(t)
               \/ \E d \in {"up", "down"} : Panels!SwitcherNavigate(d)
      BY <2>1, SwitcherGood
    <2>2. CASE \E i \in 1..Len(rows) : Panels!SwitcherRowClicked(i)
      BY <2>2, ActivateGood DEF Panels!SwitcherRowClicked
    <2>3. CASE \E command \in BOOLEAN : Panels!AddressBarActivated(command)
      BY <2>3, TypedGood
    <2>4. CASE Panels!CloseFromKey \/ \E i \in 1..Len(rows) : Panels!SwitcherRowCloseClicked(i)
      BY <2>4, CloseGood DEF Panels!CloseFromKey, Panels!SwitcherRowCloseClicked
    <2>5. CASE Panels!SwitchToNeighbour
      BY <2>5, NeighbourGood
    <2>6. CASE Panels!OpenBehind \/ \E u \in Urls, p \in Panels!Ids : Panels!Navigate(p, u)
      BY <2>6, BehindGood
    <2>7. CASE \/ Panels!OpenBookmarks \/ Panels!ToggleBookmarkForActive
               \/ \E i \in 1..Len(bookmarkRows) : \/ Panels!BookmarkRowOpenClicked(i)
                                                  \/ Panels!BookmarkRowRemoveClicked(i)
      BY <2>7, BookmarksGood
    <2>8. CASE VaultHandler
      BY <2>8, VaultPanelGood
    <2>9. CASE \/ Panels!CloseAnyOverlay \/ Panels!SaveSettings \/ Panels!OpenProfilePicker
               \/ Panels!ProfileRowClicked \/ Panels!CreateAndOpenProfile
               \/ \E i \in 1..Len(loginRows) : Panels!PasswordRowFillClicked(i)
      BY <2>9, PlainGood
    <2>10. CASE \/ Panels!OpenSettings
                \/ \E a \in Actions :
                     \/ Panels!KeybindingAddClicked(a) \/ Panels!KeybindingRemoveClicked(a)
                     \/ \E chord \in Chords \cup {NoChord} : Panels!KeybindingCommit(a, chord)
      BY <2>10, KeysGood
    <2> QED BY <1>2, <2>1, <2>2, <2>3, <2>4, <2>5, <2>6, <2>7, <2>8, <2>9, <2>10
            DEF Panels!Handler, VaultHandler
  <1> QED BY <1>1, <1>2 DEF Panels!Next

(* What the invariant says, for the properties.                            *)
LEMMA PanelsTypes ==
  ASSUME PanelsAssumed, PanelsInv
  PROVE  Panels!TypeOK
  <1> USE PanelsConstants
  <1>1. panels \subseteq Panels!Overlays \ {"none"}
    BY DEF PanelsInv, PanelViewOK
  <1>2. Panels!InOrder(bookmarks) \subseteq Panels!Texts /\ Panels!InOrder(bookmarkRows) \subseteq Panels!Texts
    BY InOrderIs DEF PanelsInv, PanelMarksOK
  <1>3. menu \in [Actions -> Chords \cup {NoChord}]
    BY EquivalentsIn DEF PanelsInv, PanelKeysOK
  <1>4. \A id \in DOMAIN logins : id < nextLogin /\ logins[id] \in [born : 1..born, content : Contents]
    <2> SUFFICES ASSUME NEW id \in DOMAIN logins
                 PROVE  id < nextLogin /\ logins[id] \in [born : 1..born, content : Contents]
      OBVIOUS
    <2>1. /\ logins[id] \in [born : Nat, content : Contents] /\ logins[id].born \in 1..born
          /\ id < nextLogin
      BY DEF PanelsInv, PanelVaultOK, LoginsOK, LoginRowsOK
    <2> QED BY <2>1
  <1>5. editing \in 0 .. nextLogin - 1
    BY DEF PanelsInv, PanelVaultOK
  <1>6. star \in BOOLEAN
    BY DEF PanelsInv, PanelMarksOK
  <1> QED BY <1>1, <1>2, <1>3, <1>4, <1>5, <1>6
          DEF PanelsInv, PanelPagesOK, PanelViewOK, PanelRowsOK, PanelMarksOK, PanelVaultOK, LoginsOK, LoginRowsOK,
              PanelKeysOK, Panels!TypeOK

(* The panels' state keeps its types: ids of pages and of logins are given *)
(* once, and a selected row, a form and the rows of each panel are of what *)
(* there is (AppState).                                                    *)
THEOREM PanelsTypesCorrect ==
  ASSUME PanelsAssumed
  PROVE  Panels!Spec => []Panels!TypeOK
  <1> QED BY InitPanels, PanelsInductive, PanelsTypes, PTL DEF Panels!Spec, PanelsGood

(* The star, the menu and the panels in view are those of the bookmarks,   *)
(* the key bindings and the overlay, after any handlers: what              *)
(* refresh_bookmark_toggle_button, rebuild_menu_key_equivalents and        *)
(* close_all_overlays draw is not left behind by what others change.       *)
THEOREM PanelsToolbarTells ==
  ASSUME PanelsAssumed
  PROVE  Panels!Spec => []Panels!ToolbarTells
  <1>1. PanelsInv => Panels!ToolbarTells
    BY DEF PanelsInv, PanelViewOK, PanelMarksOK, PanelKeysOK, Panels!ToolbarTells
  <1> QED BY <1>1, InitPanels, PanelsInductive, PTL DEF Panels!Spec, PanelsGood

(* The tiles of an open switcher are live, whatever opened, closed or moved *)
(* the pages meanwhile (rebuild_switcher_rows, close_page).  A row has its  *)
(* page or URL in one field, so the two are to be told apart.               *)
THEOREM PanelsTilesAreLive ==
  ASSUME PanelsAssumed, Apart(Panels!Ids, Panels!Texts)
  PROVE  Panels!Spec => []Panels!TilesAreLive
  <1>1. ASSUME PanelsInv PROVE Panels!TilesAreLive
    <2> SUFFICES ASSUME overlay = "switcher"
                 PROVE  /\ \A i \in 1..Len(rows) :
                             /\ rows[i].kind = "open" => rows[i].of \in Panels!Open
                             /\ rows[i].kind = "header" => i < Len(rows) /\ rows[i + 1].kind # "header"
                             /\ \A j \in 1..Len(rows) :
                                  i # j /\ rows[i].kind # "header" /\ rows[j].kind # "header" =>
                                    rows[i].of # rows[j].of
                        /\ Panels!Cardinality({i \in 1..Len(rows) : rows[i].kind = "add"}) = 1
      BY DEF Panels!TilesAreLive, Panels!IsActivatable
    <2>1. PICK k : Tiled(rows, Panels!Open, Panels!Texts, {k})
      BY <1>1 DEF PanelsInv, PanelRowsOK
    <2>2. \A i \in 1..Len(rows) : rows[i] \in RowsOf(Panels!Open, Panels!Texts)
      BY <2>1, ElementOfSeq DEF Tiled
    <2>3. \A i \in 1..Len(rows) : rows[i].kind = "open" => rows[i].of \in Panels!Open
      BY <2>2, RowFields
    <2>4. Panels!Cardinality({i \in 1..Len(rows) : rows[i].kind = "add"}) = 1
      <3>1. Cardinality({k}) = 1
        BY FS_Singleton
      <3> QED BY <2>1, <3>1 DEF Tiled, Cardinality, Panels!Cardinality
    <2>5. \A i, j \in 1..Len(rows) :
            i # j /\ rows[i].kind # "header" /\ rows[j].kind # "header" => rows[i].of # rows[j].of
      BY <2>1 DEF Tiled, ListedOnce
    <2> QED BY <2>1, <2>3, <2>4, <2>5 DEF Tiled, Headed
  <1> QED BY <1>1, InitPanels, PanelsInductive, PTL DEF Panels!Spec, PanelsGood

(* Tiles that are drawn anew offer no URL of the history or the bookmarks  *)
(* that an open page shows (build_switcher_rows).                          *)
THEOREM PanelsTilesAreNew ==
  ASSUME PanelsAssumed, Apart(Panels!Ids, Panels!Texts)
  PROVE  Panels!Spec => Panels!TilesAreNew
  <1>1. ASSUME PanelsInv, [Panels!Next]_Panels!vars
        PROVE  [rows' # rows =>
                  \A i \in 1..Len(rows') :
                     rows'[i].kind \in {"history", "bookmark"} =>
                       \A p \in Panels!Open' : urlOf'[p] # rows'[i].of]_Panels!vars
    BY <1>1, PanelsInductive DEF PanelsGood, TilesStep, TilesFresh
  <1> QED BY <1>1, InitPanels, PanelsInductive, PTL
          DEF Panels!Spec, Panels!TilesAreNew, PanelsGood

(* A click in the vault's panel changes the login it showed, whatever the  *)
(* other windows of the profile did meanwhile (submit_login_from_fields,   *)
(* delete_login).                                                          *)
THEOREM PanelsVaultChanges ==
  ASSUME PanelsAssumed
  PROVE  Panels!Spec => Panels!VaultChangesAreShown
  <1>1. ASSUME PanelsInv, [Panels!Next]_Panels!vars
        PROVE  [loginRows' # loginRows \/ editing' # editing =>
                  \A id \in DOMAIN logins :
                     id \notin DOMAIN logins' \/ logins'[id] # logins[id] =>
                       \/ id \in DOMAIN logins' /\ logins[id].born = editingBorn
                       \/ id \notin DOMAIN logins' /\ \E i \in 1..Len(loginRows) : loginRows[i].born = logins[id].born]_Panels!vars
    BY <1>1, PanelsInductive DEF PanelsGood, VaultStep
  <1> QED BY <1>1, InitPanels, PanelsInductive, PTL
          DEF Panels!Spec, Panels!VaultChangesAreShown, PanelsGood

=============================================================================
