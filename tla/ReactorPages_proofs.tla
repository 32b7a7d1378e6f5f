------------------------- MODULE ReactorPages_proofs -------------------------
(***************************************************************************)
(* Proofs about ReactorPages, for any URLs and limits and any number of    *)
(* pages: what a render leaves follows the loaded pages, the window keeps  *)
(* a page, a page keeps its URL through all that happens to its controls,  *)
(* and the handlers implement Tabs.                                        *)
(***************************************************************************)
EXTENDS ReactorPages, PageManagerOps_proofs

-----------------------------------------------------------------------------
(* The inductive invariant, by what it is about.                           *)

MaybeUrls == Urls \cup {NoUrl, Blank}

(* The core: ids are given once each, and no page without one; a page is   *)
(* loaded exactly when it has an engine.                                   *)
CoreOK(c) ==
  /\ Consistent(c)
  /\ c.limit \in Limits /\ c.next_id <= MaxPages
  /\ Len(c.pages) <= c.next_id
  /\ c.engine = c.loaded
ActiveOK(c) == c.active \in Live(c) => c.active \in c.engine

ProcessOK ==
  /\ up \in BOOLEAN /\ restoring \in BOOLEAN /\ due \in BOOLEAN
  /\ asked \in 0..MaxAsked
  /\ pending \subseteq 0 .. core.next_id - 1

UrlsOK(l) == l \in [Ids -> MaybeUrls]

(* The controls s, and the ids n had given when they were mounted.         *)
ControlsOK(s, n) ==
  /\ s \in Seq(Widget) /\ Len(s) <= MaxPages
  /\ \A i \in 1..Len(s) : s[i].page < n

(* The controls s, the WebViews w and the ticks t that are left fit a core *)
(* c and its last_urls l: only what belongs to an engine there is has a    *)
(* hold on one, and the URL of a control that has settled is in last_url.  *)
Fits(s, c, l, w, t) ==
  /\ ControlsOK(s, c.next_id)
  /\ w \in [Ids -> MaybeUrls \cup {NoWeb}]
  /\ t \subseteq [page : Ids, live : BOOLEAN]
  /\ \A i \in 1..Len(s) :
       /\ s[i].live \/ s[i].held => s[i].page \in c.engine
       /\ s[i].settled /\ s[i].page \in Live(c) => l[s[i].page] = s[i].source
  /\ \A p \in Ids \ c.engine : w[p] = NoWeb
  /\ \A x \in t : x.live => x.page \in c.engine

(* What a render leaves, until the next is due.                            *)
CaughtUp(s, c) ==
  /\ Len(s) = Len(Loaded(c))
  /\ \A n \in 1..Len(s) : s[n].held => (s[n].shown <=> s[n].page = c.active)

(* The window has a page.  What the closures of the last render know and   *)
(* is no more, and the page in front if it is no more, is the one page     *)
(* that their close_page closes.                                           *)
Anchored(c, v) ==
  /\ c.pages # <<>> /\ c.active \in Ids
  /\ v.listed \ Live(c) \subseteq {v.active}
  /\ c.active \notin Live(c) => c.active = v.active

WindowOK ==
  /\ Fits(slots, core, last, web, late)
  /\ view.active \in Ids \cup {NoPage} /\ view.listed \subseteq Ids
  /\ Runs /\ ~due => CaughtUp(slots, core)
  /\ Runs => Anchored(core, view)

(* A session file.                                                         *)
FileOK(f) ==
  /\ f.pages \in Seq([page : Ids, url : MaybeUrls])
  /\ Len(f.pages) <= MaxPages
  /\ f.active \in 0 .. Len(f.pages)

PlanOK ==
  /\ plan \in Seq(MaybeUrls)
  /\ restoring => core.next_id + Len(plan) <= MaxPages

(* Nothing is there before the process, and no control during a restore.   *)
DownOK ==
  /\ ~up => ~restoring
  /\ ~up => core.next_id = 0 /\ core.pages = <<>> /\ core.active = NoPage
  /\ ~up \/ restoring => slots = <<>> /\ late = {} /\ web = [p \in Ids |-> NoWeb]

(* What the tabs of a core, and of a file, are to Tabs.                    *)
TabsOf(c) ==
  [tabs  |-> c.pages,
   front |-> IF \E i \in 1..Len(c.pages) : c.pages[i] = c.active
             THEN CHOOSE i \in 1..Len(c.pages) : c.pages[i] = c.active
             ELSE 0]
FileTabs(f) ==
  [tabs |-> [i \in 1..Len(f.pages) |-> f.pages[i].page], front |-> f.active]

(* But during a restore, the file is up to date after every handler.       *)
Saved == Runs => FileTabs(disk) = TabsOf(core)

(* A restore has opened the pages its plan has no longer, at their URLs.   *)
RestoreSoFar ==
  restoring =>
    LET n == Len(core.pages)
    IN /\ n + Len(plan) = Len(Planned)
       /\ \A i \in 1..n : last[core.pages[i]] = Planned[i]
       /\ \A i \in 1..Len(plan) : plan[i] = Planned[n + i]
       /\ n > 0 => core.active \in Live(core)

IInv ==
  /\ ProcessOK /\ CoreOK(core) /\ ActiveOK(core) /\ UrlsOK(last) /\ WindowOK
  /\ FileOK(disk) /\ PlanOK /\ DownOK /\ Saved /\ RestoreSoFar

-----------------------------------------------------------------------------
(* The parts of the handlers.                                              *)

(* The part of a core that has a limit and ids left.                       *)
LEMMA CoreFacts ==
  ASSUME NEW c, CoreOK(c)
  PROVE  /\ Consistent(c) /\ c.pages \in Seq(Nat) /\ Len(c.pages) \in Nat /\ c.next_id \in Nat
         /\ c.active \in Nat \cup {NoPage} /\ c.loaded \subseteq Live(c)
         /\ c.engine \subseteq Live(c) /\ Live(c) \subseteq Ids /\ Live(c) \subseteq Nat
         /\ c.limit \in Nat \cup {Unlimited}
         /\ Live(c) \subseteq 0 .. c.next_id - 1 /\ c.next_id \notin Live(c)
         /\ MaxPages \in Nat \ {0}
  <1>1. /\ c.pages \in Seq(Nat) /\ c.next_id \in Nat /\ Live(c) \subseteq 0 .. c.next_id - 1
        /\ c.active \in Nat \cup {NoPage} /\ c.limit \in Nat \cup {Unlimited}
        /\ c.loaded \subseteq Live(c) /\ c.engine \subseteq Live(c) /\ Consistent(c)
        /\ c.next_id <= MaxPages
    BY DEF CoreOK, Consistent, CoreTypeOK, IdsUnique
  <1>2. Len(c.pages) \in Nat
    BY <1>1, LenProperties
  <1> QED BY <1>1, <1>2, ReactorBoundAssumption DEF Ids

(* enforce_loaded_limit and unload_engines: pages stay, engines that are   *)
(* left have their page loaded, and the page in front keeps its own.       *)
LEMMA UnloadedOK ==
  ASSUME NEW c, CoreOK(c)
  PROVE  LET d == Unload(Enforced(c), Evicted(c))
         IN /\ CoreOK(d) /\ Live(d) = Live(c)
            /\ d.engine = c.engine \ Evicted(c) /\ d.loaded = c.loaded \ Evicted(c)
            /\ d.pages = c.pages /\ d.active = c.active /\ d.next_id = c.next_id
            /\ d.limit = c.limit
            /\ c.active \notin Evicted(c)
  <1> DEFINE e == Enforced(c)
             d == Unload(e, Evicted(c))
  <1>1. /\ Consistent(e) /\ Live(e) = Live(c) /\ e.loaded = c.loaded \ Evicted(c)
        /\ \A f \in Fields \ {"loaded"} : e[f] = c[f]
    BY EnforcedOK DEF CoreOK
  <1> HIDE DEF e
  <1>2. /\ Consistent(d) /\ Live(d) = Live(e) /\ d.engine = e.engine \ Evicted(c)
        /\ \A f \in Fields \ {"engine"} : d[f] = e[f]
    BY <1>1, EnginesDroppedOK DEF Unload
  <1> HIDE DEF d
  <1>3. /\ d.loaded = e.loaded /\ d.pages = c.pages /\ d.active = c.active
        /\ d.next_id = c.next_id /\ d.limit = c.limit /\ d.engine = c.engine \ Evicted(c)
    BY <1>1, <1>2 DEF Fields
  <1>4. c.active \notin Evicted(c)
    BY DEF Evicted, Candidates
  <1> QED BY <1>1, <1>2, <1>3, <1>4 DEF CoreOK, d, e

(* allocate_id.                                                            *)
LEMMA AllocatedOK ==
  ASSUME NEW c, CoreOK(c), c.next_id < MaxPages
  PROVE  LET a == AllocateId(c)
         IN /\ CoreOK(a) /\ Live(a) = Live(c) /\ a.next_id = c.next_id + 1
            /\ a.pages = c.pages /\ a.active = c.active /\ a.limit = c.limit
            /\ a.loaded = c.loaded /\ a.engine = c.engine
  <1> DEFINE a == AllocateId(c)
  <1>1. /\ Consistent(a) /\ a.next_id = c.next_id + 1 /\ Live(a) = Live(c)
        /\ \A f \in Fields \ {"next_id"} : a[f] = c[f]
    BY AllocateOK DEF CoreOK
  <1> HIDE DEF a
  <1>2. /\ a.pages = c.pages /\ a.active = c.active /\ a.limit = c.limit
        /\ a.loaded = c.loaded /\ a.engine = c.engine
    BY <1>1 DEF Fields
  <1>3. c.next_id \in Nat /\ Len(c.pages) \in Nat /\ MaxPages \in Nat
    BY CoreFacts
  <1>4. CoreOK(a)
    BY <1>1, <1>2, <1>3 DEF CoreOK
  <1> QED BY <1>1, <1>2, <1>4 DEF a

(* allocate_id, then insert or insert_background up to the enforcement.    *)
LEMMA GrownOK ==
  ASSUME NEW c, CoreOK(c), c.next_id < MaxPages,
         NEW d \in {Inserted(AllocateId(c), c.next_id),
                    InsertedBackground(AllocateId(c), c.next_id)}
  PROVE  /\ CoreOK(d) /\ Live(d) = Live(c) \cup {c.next_id}
         /\ d.loaded = c.loaded \cup {c.next_id} /\ d.engine = c.engine \cup {c.next_id}
         /\ d.pages = Append(c.pages, c.next_id) /\ d.next_id = c.next_id + 1
         /\ d.limit = c.limit
         /\ d.active = IF d = Inserted(AllocateId(c), c.next_id) THEN c.next_id ELSE c.active
  <1> DEFINE a == AllocateId(c)
             id == c.next_id
  <1>1. /\ CoreOK(a) /\ Live(a) = Live(c) /\ a.next_id = id + 1
        /\ a.pages = c.pages /\ a.active = c.active /\ a.limit = c.limit
        /\ a.loaded = c.loaded /\ a.engine = c.engine
    BY AllocatedOK
  <1>2. id \in Nat /\ id \notin Live(c) /\ c.pages \in Seq(Nat) /\ Len(c.pages) <= id
    BY CoreFacts DEF CoreOK
  <1> HIDE DEF a, id
  <1>3. Consistent(a) /\ id \in 0 .. a.next_id - 1 /\ id \notin Live(a)
    BY <1>1, <1>2 DEF CoreOK
  <1>4. Append(c.pages, id) \in Seq(Nat) /\ Len(Append(c.pages, id)) = Len(c.pages) + 1
    BY <1>2, ElementsAppend
  <1>5. /\ Inserted(a, id).pages = Append(c.pages, id)
        /\ InsertedBackground(a, id).pages = Append(c.pages, id)
    BY <1>1, <1>3, InsertedPages
  <1>6. Len(c.pages) + 1 <= id + 1
    BY <1>2, LenProperties
  <1>7. d \in {Inserted(a, id), InsertedBackground(a, id)}
    BY DEF a, id
  <1>8. CASE d = Inserted(a, id)
    <2>1. /\ Consistent(d) /\ Live(d) = Live(c) \cup {id}
          /\ d.loaded = c.loaded \cup {id} /\ d.engine = c.engine \cup {id} /\ d.active = id
          /\ d.limit = a.limit /\ d.next_id = a.next_id
      BY <1>1, <1>3, <1>8, InsertedOK
    <2>2. CoreOK(d)
      BY <1>1, <1>4, <1>5, <1>6, <1>8, <2>1 DEF CoreOK
    <2> QED BY <1>1, <1>5, <1>8, <2>1, <2>2 DEF a, id
  <1>9. CASE d = InsertedBackground(a, id) /\ d # Inserted(a, id)
    <2>1. /\ Consistent(d) /\ Live(d) = Live(c) \cup {id}
          /\ d.loaded = c.loaded \cup {id} /\ d.engine = c.engine \cup {id}
          /\ d.active = a.active /\ d.limit = a.limit /\ d.next_id = a.next_id
      BY <1>1, <1>3, <1>9, InsertedBackgroundOK
    <2>2. CoreOK(d)
      BY <1>1, <1>4, <1>5, <1>6, <1>9, <2>1 DEF CoreOK
    <2> QED BY <1>1, <1>5, <1>9, <2>1, <2>2 DEF a, id
  <1> QED BY <1>7, <1>8, <1>9

(* remove: the page at its place in the Vec.                               *)
LEMMA RemovedOK ==
  ASSUME NEW c, CoreOK(c), NEW id
  PROVE  LET d == Remove(c, id)
         IN /\ CoreOK(d) /\ Live(d) = Live(c) \ {id}
            /\ d.loaded = c.loaded \ {id} /\ d.engine = c.engine \ {id}
            /\ d.active = c.active /\ d.next_id = c.next_id /\ d.limit = c.limit
            /\ id \notin Live(c) => d.pages = c.pages
            /\ id \in Live(c) => \E i \in 1..Len(c.pages) :
                 c.pages[i] = id /\ d.pages = VecRemove(c.pages, i)
  <1> DEFINE d == Remove(c, id)
  <1>1. /\ Consistent(d) /\ Live(d) = Live(c) \ {id}
        /\ d.loaded = c.loaded \ {id} /\ d.engine = c.engine \ {id}
        /\ d.active = c.active /\ d.next_id = c.next_id /\ d.limit = c.limit
    BY RemoveOK DEF CoreOK
  <1>2. c.pages \in Seq(Nat) /\ c.next_id \in Nat /\ Len(c.pages) <= c.next_id
    BY CoreFacts DEF CoreOK
  <1>3. CASE id \notin Live(c)
    <2>1. d = c
      BY <1>3, RemovePages DEF CoreOK
    <2> QED BY <1>1, <1>3, <2>1
  <1>4. CASE id \in Live(c)
    <2> DEFINE i == Position(c, id)
    <2>1. i \in 1..Len(c.pages) /\ c.pages[i] = id /\ d.pages = VecRemove(c.pages, i)
      BY <1>4, RemovePages, PositionOf DEF CoreOK
    <2> HIDE DEF i, d
    <2>2. Len(d.pages) = Len(c.pages) - 1 /\ Len(c.pages) \in Nat
      BY <1>2, <2>1, VecRemoveAt, LenProperties
    <2>3. CoreOK(d)
      BY <1>1, <1>2, <2>2 DEF CoreOK
    <2> QED BY <1>1, <1>4, <2>1, <2>3 DEF d
  <1> QED BY <1>3, <1>4

-----------------------------------------------------------------------------
(* A handler, as Tabs sees it.                                             *)

(* From core c to core d: nothing, a tab more, another one in front, or    *)
(* one less, after which the first of the rest or a new one is in front.   *)
Same(c, d)  == d.pages = c.pages /\ d.active = c.active
Opens(c, d) == \E t \in Ids \ Live(c) : d.pages = Append(c.pages, t) /\ d.active \in {c.active, t}
Shows(c, d) == d.pages = c.pages /\ d.active \in Ids
Closes(c, d) ==
  \E i \in 1..Len(c.pages) :
    LET rest == VecRemove(c.pages, i)
    IN \/ /\ d.pages = rest
          /\ d.active = IF c.pages[i] = c.active /\ rest # <<>> THEN rest[1] ELSE c.active
       \/ rest = <<>> /\ \E t \in Ids : d.pages = <<t>> /\ d.active = t

TabsChange(c, d) == Same(c, d) \/ Opens(c, d) \/ Shows(c, d) \/ Closes(c, d)

TabStep == [T!TabsNext]_(T!tabsVars)

(* The mapping, in terms of the operators of this module.                  *)
LEMMA Mapping ==
  /\ T!Listed = TabsOf(core) /\ T!Listed' = TabsOf(core')
  /\ \A s : T!Elements(s) = Elements(s)
  /\ \A s, i : T!VecRemove(s, i) = VecRemove(s, i)
  BY DEF T!Listed, TabsOf, T!Elements, Elements, T!VecRemove, VecRemove

(* A step of Tabs while the process is up, not restoring.                  *)
LEMMA ReadySteps ==
  ASSUME up, ~restoring, UNCHANGED <<up, restoring>>, TabsChange(core, core'),
         FileTabs(disk) = TabsOf(core), FileTabs(disk') = TabsOf(core')
  PROVE  TabStep
  <1>0. UNCHANGED up /\ UNCHANGED restoring
    OBVIOUS
  <1>1. CASE Same(core, core')
    <2>1. TabsOf(core') = TabsOf(core)
      BY <1>1 DEF Same, TabsOf
    <2>2. FileTabs(disk') = FileTabs(disk)
      BY <2>1
    <2>3. UNCHANGED T!tabsVars
      BY <1>0, <1>1, <2>2 DEF Same, T!tabsVars, FileTabs
    <2> QED BY <2>3 DEF TabStep
  <1>2. CASE Opens(core, core')
    <2>1. T!OpenTab
      BY <1>0, <1>2, Mapping DEF Opens, T!OpenTab, Live
    <2>2. FileTabs(disk') = T!Listed'
      BY Mapping
    <2> QED BY <2>1, <2>2 DEF TabStep, T!TabsNext, FileTabs
  <1>3. CASE Shows(core, core')
    <2>1. T!ShowTab
      BY <1>0, <1>3 DEF Shows, T!ShowTab
    <2>2. FileTabs(disk') = T!Listed'
      BY Mapping
    <2> QED BY <2>1, <2>2 DEF TabStep, T!TabsNext, FileTabs
  <1>4. CASE Closes(core, core')
    <2>1. T!CloseTab
      BY <1>0, <1>4, Mapping DEF Closes, T!CloseTab
    <2>2. FileTabs(disk') = T!Listed'
      BY Mapping
    <2> QED BY <2>1, <2>2 DEF TabStep, T!TabsNext, FileTabs
  <1> QED BY <1>1, <1>2, <1>3, <1>4 DEF TabsChange

-----------------------------------------------------------------------------
(* The session file.                                                       *)

(* Page::current_url, of any WebViews w and last_urls l.                   *)
UrlsOf(w, l) == [p \in Ids |-> IF w[p] = NoWeb THEN l[p] ELSE w[p]]

LEMMA UrlTyped ==
  ASSUME NEW w, NEW l, w \in [Ids -> MaybeUrls \cup {NoWeb}], UrlsOK(l)
  PROVE  UrlsOK(UrlsOf(w, l))
  BY DEF UrlsOK, UrlsOf

(* save_session's file, of any core and URLs.                              *)
SessionOf(c, u) ==
  [pages |-> [i \in 1..Len(c.pages) |-> [page |-> c.pages[i], url |-> u[c.pages[i]]]],
   active |-> IF c.active \in Live(c) THEN Position(c, c.active) ELSE 0]

(* It names the tabs, in order, and the one in front.                      *)
LEMMA SessionOK ==
  ASSUME NEW c, NEW u, CoreOK(c), UrlsOK(u)
  PROVE  /\ FileOK(SessionOf(c, u)) /\ Len(SessionOf(c, u).pages) = Len(c.pages)
         /\ FileTabs(SessionOf(c, u)) = TabsOf(c)
         /\ \A i \in 1..Len(c.pages) : SessionOf(c, u).pages[i].url = u[c.pages[i]]
  <1> DEFINE n == Len(c.pages)
             E(i) == [page |-> c.pages[i], url |-> u[c.pages[i]]]
             ps == [i \in 1..n |-> E(i)]
             f == SessionOf(c, u)
             Entry == [page : Ids, url : MaybeUrls]
  <1>1. /\ c.pages \in Seq(Nat) /\ n \in Nat /\ Live(c) \subseteq Ids
        /\ Len(c.pages) <= MaxPages /\ MaxPages \in Nat
    <2>1. Len(c.pages) <= c.next_id /\ c.next_id <= MaxPages
      BY DEF CoreOK
    <2> QED BY <2>1, CoreFacts
  <1>2. \A i \in 1..n : c.pages[i] \in Ids
    BY <1>1 DEF Live, Elements
  <1>3. \A i \in 1..n : E(i) \in Entry
    BY <1>2 DEF UrlsOK, MaybeUrls
  <1>4. f.pages = ps /\ f.active = IF c.active \in Live(c) THEN Position(c, c.active) ELSE 0
    BY DEF SessionOf
  <1>0. \A i \in 1..n : E(i).url = u[c.pages[i]] /\ E(i).page = c.pages[i]
    OBVIOUS
  <1> HIDE DEF E
  <1>5. ps \in Seq(Entry) /\ Len(ps) = n
    BY <1>1, <1>3
  <1>6. f.active \in 0..n
    BY <1>1, <1>4, PositionOf DEF CoreOK
  <1>7. FileOK(f)
    BY <1>1, <1>4, <1>5, <1>6 DEF FileOK
  <1>8. [i \in 1..Len(f.pages) |-> f.pages[i].page] = c.pages
    <2>2. \A i \in 1..n : f.pages[i].page = c.pages[i]
      BY <1>0, <1>4
    <2>3. DOMAIN c.pages = 1..n /\ c.pages = [i \in 1..n |-> c.pages[i]]
      BY SMTT(30), <1>1
    <2> HIDE DEF f, ps
    <2>4. Len(f.pages) = n
      BY <1>4, <1>5
    <2>5. [i \in 1..Len(f.pages) |-> f.pages[i].page] = [i \in 1..n |-> c.pages[i]]
      BY <2>2, <2>4
    <2> QED BY <2>3, <2>5
  <1>9. f.active = TabsOf(c).front
    <2>1. c.active \in Live(c) <=> \E i \in 1..n : c.pages[i] = c.active
      BY DEF Live, Elements
    <2> QED BY <1>4, <2>1 DEF TabsOf, Position
  <1>11. \A i \in 1..n : f.pages[i].url = u[c.pages[i]]
    BY <1>0, <1>4
  <1> HIDE DEF f, ps
  <1>10. Len(f.pages) = n
    BY <1>4, <1>5
  <1> QED BY <1>7, <1>8, <1>9, <1>10, <1>11 DEF FileTabs, TabsOf, f

(* Session is that of the state before a step, and of the one after it.    *)
LEMMA SessionIs ==
  /\ CoreOK(core) => Session = SessionOf(core, UrlsOf(web, last))
  /\ CoreOK(core') => Session' = SessionOf(core', UrlsOf(web', last'))
  <1>1. ASSUME CoreOK(core) PROVE Session = SessionOf(core, UrlsOf(web, last))
    <2>1. \A i \in 1..Len(core.pages) : core.pages[i] \in Ids
      BY <1>1, CoreFacts DEF Live, Elements
    <2>2. \A i \in 1..Len(core.pages) :
            CurrentUrl(core.pages[i]) = UrlsOf(web, last)[core.pages[i]]
      BY <2>1 DEF UrlsOf, CurrentUrl
    <2> QED BY <2>2 DEF Session, SessionOf
  <1>2. ASSUME CoreOK(core') PROVE Session' = SessionOf(core', UrlsOf(web', last'))
    <2>1. \A i \in 1..Len(core'.pages) : core'.pages[i] \in Ids
      BY <1>2, CoreFacts DEF Live, Elements
    <2>2. \A i \in 1..Len(core'.pages) :
            CurrentUrl(core.pages[i])' = UrlsOf(web', last')[core'.pages[i]]
      BY <2>1 DEF UrlsOf, CurrentUrl
    <2> QED BY <2>2 DEF Session, SessionOf
  <1> QED BY <1>1, <1>2

(* save_session after a handler.                                           *)
LEMMA SavedOK ==
  ASSUME CoreOK(core'), UrlsOK(last'), web' \in [Ids -> MaybeUrls \cup {NoWeb}], FileOK(disk),
         SaveSession
  PROVE  /\ FileOK(disk')
         /\ restoring' => disk' = disk
         /\ ~restoring' => FileTabs(disk') = TabsOf(core')
  <1>1. disk' = IF restoring' THEN disk ELSE SessionOf(core', UrlsOf(web', last'))
    BY SessionIs DEF SaveSession
  <1>2. UrlsOK(UrlsOf(web', last'))
    BY UrlTyped
  <1>3. /\ FileOK(SessionOf(core', UrlsOf(web', last')))
        /\ FileTabs(SessionOf(core', UrlsOf(web', last'))) = TabsOf(core')
    BY <1>2, SessionOK
  <1> QED BY <1>1, <1>3

(* A handler that saves, and leaves a render due.                          *)
LEMMA HandlerOK ==
  ASSUME IInv, Runs, UNCHANGED <<process, view>>, due' \in BOOLEAN, asked' \in 0..MaxAsked,
         pending' \subseteq 0 .. core'.next_id - 1,
         CoreOK(core'), ActiveOK(core'), UrlsOK(last'), Fits(slots', core', last', web', late'),
         Anchored(core', view), ~due' => CaughtUp(slots', core'),
         SaveSession, TabsChange(core, core')
  PROVE  IInv' /\ TabStep
  <1>1. /\ up' = up /\ restoring' = restoring /\ plan' = plan /\ view' = view
        /\ up /\ ~restoring /\ Runs'
    BY DEF process, Runs
  <1>2. FileOK(disk') /\ FileTabs(disk') = TabsOf(core')
    BY <1>1, SavedOK DEF IInv, Fits
  <1>3. ProcessOK' /\ PlanOK' /\ DownOK' /\ Saved' /\ RestoreSoFar'
    BY <1>1, <1>2 DEF ProcessOK, PlanOK, DownOK, Saved, IInv, RestoreSoFar
  <1>4. WindowOK'
    BY <1>1 DEF WindowOK, IInv
  <1>5. TabStep
    BY <1>1, <1>2, ReadySteps DEF IInv, Saved
  <1> QED BY <1>2, <1>3, <1>4, <1>5 DEF IInv

(* A step in a running process that leaves the tabs and the file as they   *)
(* are.                                                                    *)
LEMMA QuietOK ==
  ASSUME IInv, Runs, UNCHANGED <<process, disk>>,
         due' \in BOOLEAN, asked' \in 0..MaxAsked, pending' \subseteq 0 .. core'.next_id - 1,
         CoreOK(core'), ActiveOK(core'), UrlsOK(last'), Fits(slots', core', last', web', late'),
         core'.pages = core.pages, core'.active = core.active,
         view'.active \in Ids \cup {NoPage}, view'.listed \subseteq Ids,
         Anchored(core', view'), ~due' => CaughtUp(slots', core')
  PROVE  IInv' /\ TabStep
  <1>1. /\ up' = up /\ restoring' = restoring /\ plan' = plan /\ disk' = disk
        /\ up /\ ~restoring /\ Runs'
    BY DEF process, Runs
  <1>2. TabsOf(core') = TabsOf(core)
    BY DEF TabsOf
  <1>3. /\ ProcessOK' /\ FileOK(disk') /\ PlanOK' /\ DownOK' /\ Saved' /\ RestoreSoFar'
    BY <1>1, <1>2 DEF ProcessOK, PlanOK, DownOK, Saved, IInv, RestoreSoFar
  <1>4. WindowOK'
    BY <1>1 DEF WindowOK
  <1>5. UNCHANGED T!tabsVars
    BY <1>1 DEF T!tabsVars
  <1> QED BY <1>3, <1>4, <1>5 DEF IInv, TabStep

-----------------------------------------------------------------------------
(* The window, when the core changes.                                      *)

(* What each control of a window is.                                       *)
LEMMA WidgetFacts ==
  ASSUME NEW s, NEW n, ControlsOK(s, n)
  PROVE  /\ Len(s) \in Nat /\ s = [i \in 1..Len(s) |-> s[i]]
         /\ \A i \in 1..Len(s) :
              /\ s[i] \in Widget /\ s[i].page \in Ids /\ s[i].page < n
              /\ s[i].live \in BOOLEAN /\ s[i].held \in BOOLEAN
              /\ s[i].shown \in BOOLEAN /\ s[i].settled \in BOOLEAN
              /\ s[i].source \in Urls \cup {Blank}
  <1>1. s \in Seq(Widget) /\ \A i \in 1..Len(s) : s[i].page < n
    BY DEF ControlsOK
  <1>2. Len(s) \in Nat /\ s \in [1..Len(s) -> Widget]
    BY <1>1, LenProperties
  <1>3. \A i \in 1..Len(s) : s[i] \in Widget
    BY <1>2
  <1>4. \A w \in Widget :
          /\ w.page \in Ids /\ w.live \in BOOLEAN /\ w.held \in BOOLEAN
          /\ w.shown \in BOOLEAN /\ w.settled \in BOOLEAN /\ w.source \in Urls \cup {Blank}
    BY DEF Widget
  <1> QED BY <1>1, <1>2, <1>3, <1>4

(* What the invariant says of the core, and of the window.                 *)
LEMMA WindowFacts ==
  ASSUME IInv
  PROVE  /\ CoreOK(core) /\ ActiveOK(core) /\ UrlsOK(last) /\ FileOK(disk)
         /\ Fits(slots, core, last, web, late) /\ ControlsOK(slots, core.next_id)
         /\ core.next_id \in Nat /\ core.next_id \notin Live(core)
         /\ core.engine = core.loaded /\ core.loaded \subseteq Live(core)
         /\ Live(core) \subseteq Ids
         /\ \A i \in 1..Len(slots) : /\ slots[i] \in Widget /\ slots[i].page # core.next_id
                                     /\ slots[i].page < core.next_id /\ slots[i].page \in Ids
                                     /\ slots[i].source \in MaybeUrls
         /\ slots \in Seq(Widget) /\ Len(slots) \in Nat /\ Len(slots) <= MaxPages
         /\ pending \subseteq 0 .. core.next_id - 1
  <1>1. /\ CoreOK(core) /\ ActiveOK(core) /\ UrlsOK(last) /\ FileOK(disk)
        /\ Fits(slots, core, last, web, late) /\ ControlsOK(slots, core.next_id)
        /\ pending \subseteq 0 .. core.next_id - 1
    BY DEF IInv, WindowOK, Fits, ProcessOK
  <1>2. \A i \in 1..Len(slots) : /\ slots[i] \in Widget /\ slots[i].source \in MaybeUrls
                                 /\ slots[i].page < core.next_id /\ slots[i].page \in Ids
    BY <1>1, WidgetFacts DEF MaybeUrls
  <1>3. /\ core.next_id \in Nat /\ core.next_id \notin Live(core) /\ core.loaded \subseteq Live(core)
        /\ Live(core) \subseteq Ids
    BY <1>1, CoreFacts
  <1>4. slots \in Seq(Widget) /\ Len(slots) <= MaxPages /\ Len(slots) \in Nat
    BY <1>1, WidgetFacts DEF ControlsOK
  <1>5. core.engine = core.loaded
    BY <1>1 DEF CoreOK
  <1>6. \A i \in 1..Len(slots) : slots[i].page # core.next_id
    BY <1>2, <1>3
  <1> QED BY <1>1, <1>2, <1>3, <1>4, <1>5, <1>6

(* The controls whose pages have lost their engines: each is as it was,    *)
(* but has no hold on its page's engine.                                   *)
LEMMA OrphanedOK ==
  ASSUME IInv, NEW gone
  PROVE  LET s == Orphaned(slots, gone)
         IN /\ Len(s) = Len(slots) /\ ControlsOK(s, core.next_id)
            /\ slots = <<>> => s = <<>>
            /\ \A i \in 1..Len(slots) :
                 /\ s[i].page = slots[i].page
                 /\ s[i].source = slots[i].source /\ s[i].settled = slots[i].settled
                 /\ s[i].live <=> slots[i].live /\ slots[i].page \notin gone
                 /\ s[i].held <=> slots[i].held /\ slots[i].page \notin gone
  <1> DEFINE s == Orphaned(slots, gone)
             W(i) == IF slots[i].page \in gone
                     THEN [slots[i] EXCEPT !.live = FALSE, !.held = FALSE] ELSE slots[i]
  <1>1. ControlsOK(slots, core.next_id) /\ Len(slots) <= MaxPages /\ Len(slots) \in Nat
    BY WindowFacts
  <1>2. s = [i \in 1..Len(slots) |-> W(i)]
    BY DEF Orphaned
  <1>3. ASSUME NEW w \in Widget
        PROVE  LET v == [w EXCEPT !.live = FALSE, !.held = FALSE]
               IN /\ v \in Widget /\ v.page = w.page /\ v.source = w.source
                  /\ v.settled = w.settled /\ v.live = FALSE /\ v.held = FALSE
    BY DEF Widget
  <1>4. ASSUME NEW i \in 1..Len(slots)
        PROVE  /\ W(i) \in Widget /\ W(i).page = slots[i].page
               /\ W(i).source = slots[i].source /\ W(i).settled = slots[i].settled
               /\ W(i).live <=> slots[i].live /\ slots[i].page \notin gone
               /\ W(i).held <=> slots[i].held /\ slots[i].page \notin gone
               /\ slots[i].page < core.next_id
    BY <1>1, <1>3, WidgetFacts
  <1> HIDE DEF W
  <1>6. s \in Seq(Widget) /\ Len(s) = Len(slots)
    BY <1>1, <1>2, <1>4
  <1>7. \A i \in 1..Len(slots) : s[i] = W(i)
    BY <1>2
  <1>8. slots = <<>> => s = <<>>
    BY <1>6, EmptySeq
  <1> HIDE DEF s
  <1>9. ControlsOK(s, core.next_id)
    BY <1>1, <1>4, <1>6, <1>7 DEF ControlsOK
  <1> QED BY <1>4, <1>6, <1>7, <1>8, <1>9 DEF s

(* A core d that comes after: ids go on, no page comes back, and a page    *)
(* that keeps its engine keeps its URL.                                    *)
Follows(d, l, gone) ==
  /\ d.next_id \in Nat /\ core.next_id <= d.next_id
  /\ Live(d) \subseteq Live(core) \cup {core.next_id}
  /\ core.engine \ gone \subseteq d.engine
  /\ \A p \in Ids \ {core.next_id} : l[p] = last[p]

(* Where the engines of gone are dropped, all that is left fits d.         *)
LEMMA DroppedFits ==
  ASSUME IInv, NEW gone, NEW d, NEW l, Follows(d, l, gone), DropEngines(gone)
  PROVE  /\ Fits(slots', d, l, web', late')
         /\ slots = <<>> => slots' = <<>>
         /\ late = {} => late' = {}
         /\ web = [p \in Ids |-> NoWeb] => web' = web
  <1>0. /\ slots' = Orphaned(slots, gone)
        /\ late' = {[t EXCEPT !.live = @ /\ t.page \notin gone] : t \in late}
        /\ web' = [p \in Ids |-> IF p \in gone THEN NoWeb ELSE web[p]]
    BY DEF DropEngines
  <1>1. /\ Len(slots') = Len(slots) /\ ControlsOK(slots', core.next_id)
        /\ slots = <<>> => slots' = <<>>
        /\ \A i \in 1..Len(slots) :
             /\ slots'[i].page = slots[i].page
             /\ slots'[i].source = slots[i].source /\ slots'[i].settled = slots[i].settled
             /\ slots'[i].live <=> slots[i].live /\ slots[i].page \notin gone
             /\ slots'[i].held <=> slots[i].held /\ slots[i].page \notin gone
    BY <1>0, OrphanedOK
  <1>2. Fits(slots, core, last, web, late) /\ core.next_id \in Nat
    BY WindowFacts
  <1>3. ControlsOK(slots', d.next_id)
    <2>1. \A i \in 1..Len(slots') : slots'[i].page \in Nat /\ slots'[i].page < core.next_id
      BY <1>1, WidgetFacts DEF Ids
    <2> QED BY <1>1, <1>2, <2>1 DEF ControlsOK, Follows
  <1>4. \A i \in 1..Len(slots') :
          /\ slots'[i].live \/ slots'[i].held => slots'[i].page \in d.engine
          /\ slots'[i].settled /\ slots'[i].page \in Live(d) => l[slots'[i].page] = slots'[i].source
    <2> SUFFICES ASSUME NEW i \in 1..Len(slots')
                 PROVE  /\ slots'[i].live \/ slots'[i].held => slots'[i].page \in d.engine
                        /\ slots'[i].settled /\ slots'[i].page \in Live(d) =>
                             l[slots'[i].page] = slots'[i].source
      OBVIOUS
    <2>1. i \in 1..Len(slots) /\ slots[i].page # core.next_id /\ slots[i].page \in Ids
      BY <1>1, WindowFacts
    <2>2. slots[i].live \/ slots[i].held => slots[i].page \in core.engine
      BY <1>2, <2>1 DEF Fits
    <2>3. slots[i].settled /\ slots[i].page \in Live(core) => last[slots[i].page] = slots[i].source
      BY <1>2, <2>1 DEF Fits
    <2> QED BY <1>1, <2>1, <2>2, <2>3 DEF Follows
  <1>5. web' \in [Ids -> MaybeUrls \cup {NoWeb}] /\ \A p \in Ids \ d.engine : web'[p] = NoWeb
    <2>1. web \in [Ids -> MaybeUrls \cup {NoWeb}] /\ \A p \in Ids \ core.engine : web[p] = NoWeb
      BY <1>2 DEF Fits
    <2> QED BY <1>0, <2>1 DEF Follows
  <1>6. late' \subseteq [page : Ids, live : BOOLEAN] /\ \A x \in late' : x.live => x.page \in d.engine
    <2>1. \A t \in late : /\ t \in [page : Ids, live : BOOLEAN]
                          /\ t.live => t.page \in core.engine
      BY <1>2 DEF Fits
    <2> SUFFICES ASSUME NEW t \in late
                 PROVE  LET x == [t EXCEPT !.live = @ /\ t.page \notin gone]
                        IN x \in [page : Ids, live : BOOLEAN] /\ (x.live => x.page \in d.engine)
      BY <1>0
    <2> QED BY <2>1 DEF Follows
  <1>7. late = {} => late' = {}
    BY <1>0
  <1>8. web = [p \in Ids |-> NoWeb] => web' = web
    BY <1>0
  <1> QED BY <1>1, <1>3, <1>4, <1>5, <1>6, <1>7, <1>8 DEF Fits

(* What fits a core fits one with more engines and no more pages.          *)
LEMMA MoreEngines ==
  ASSUME NEW s, NEW l, NEW w, NEW t, NEW c, NEW d, Fits(s, c, l, w, t),
         d.next_id = c.next_id, Live(d) \subseteq Live(c), c.engine \subseteq d.engine
  PROVE  Fits(s, d, l, w, t)
  BY DEF Fits

(* do_add_page, of a core whose closed pages have gone: a page more, in    *)
(* front and loaded.                                                       *)
LEMMA DoAddPageOK ==
  ASSUME IInv, NEW c, NEW closed, NEW u \in MaybeUrls, CoreOK(c), c.next_id < MaxPages,
         c.next_id = core.next_id, Live(c) \subseteq Live(core), core.engine \ closed \subseteq c.engine,
         DoAddPage(c, closed, u)
  PROVE  /\ CoreOK(core') /\ ActiveOK(core') /\ UrlsOK(last')
         /\ Fits(slots', core', last', web', late')
         /\ core'.pages = Append(c.pages, c.next_id) /\ Live(core') = Live(c) \cup {c.next_id}
         /\ core'.active = c.next_id /\ core'.next_id = c.next_id + 1
         /\ last' = [last EXCEPT ![c.next_id] = u]
         /\ slots = <<>> => slots' = <<>>
         /\ late = {} => late' = {}
         /\ web = [p \in Ids |-> NoWeb] => web' = web
  <1> DEFINE id == c.next_id
             d == Inserted(AllocateId(c), id)
             gone == Evicted(d)
             e == Unload(Enforced(d), gone)
  <1>1. /\ CoreOK(d) /\ Live(d) = Live(c) \cup {id}
        /\ d.loaded = c.loaded \cup {id} /\ d.engine = c.engine \cup {id}
        /\ d.pages = Append(c.pages, id) /\ d.next_id = id + 1 /\ d.limit = c.limit
        /\ d.active = id
    BY GrownOK
  <1>2. core' = e /\ last' = [last EXCEPT ![id] = u] /\ DropEngines(closed \cup gone)
    BY DEF DoAddPage
  <1>3. id \in Ids /\ id \in Nat
    BY CoreFacts, ReactorBoundAssumption DEF Ids
  <1> HIDE DEF d, gone, e, id
  <1>4. /\ CoreOK(e) /\ Live(e) = Live(d) /\ e.engine = d.engine \ gone
        /\ e.pages = d.pages /\ e.next_id = d.next_id
        /\ e.active = d.active /\ d.active \notin gone
    BY <1>1, UnloadedOK DEF e, gone
  <1>5. UrlsOK(last') /\ \A p \in Ids \ {id} : last'[p] = last[p]
    BY <1>2, <1>3, WindowFacts DEF UrlsOK
  <1>6. Follows(e, last', closed \cup gone)
    BY <1>1, <1>3, <1>4, <1>5 DEF Follows, id
  <1>7. /\ Fits(slots', core', last', web', late')
        /\ slots = <<>> => slots' = <<>>
        /\ late = {} => late' = {}
        /\ web = [p \in Ids |-> NoWeb] => web' = web
    BY <1>2, <1>6, DroppedFits
  <1>8. ActiveOK(core')
    BY <1>1, <1>2, <1>4 DEF ActiveOK
  <1> QED BY <1>1, <1>2, <1>4, <1>5, <1>7, <1>8 DEF id

(* ensure_engine_loaded and set_active, of a page that may have gone.      *)
LEMMA SwitchedOK ==
  ASSUME NEW c, CoreOK(c), NEW id \in Ids
  PROVE  LET d == Switched(c, id)
         IN /\ CoreOK(d) /\ ActiveOK(d) /\ Live(d) = Live(c) /\ d.pages = c.pages
            /\ d.active = id /\ d.next_id = c.next_id /\ c.engine \subseteq d.engine
  <1> DEFINE b == IF id \in c.engine THEN c ELSE InstallEngine(c, id)
             d == Switched(c, id)
  <1>0. id \in Nat
    BY ReactorBoundAssumption DEF Ids
  <1>1. /\ Consistent(b) /\ Live(b) = Live(c) /\ b.pages = c.pages /\ b.loaded = c.loaded
        /\ b.limit = c.limit /\ b.next_id = c.next_id
        /\ b.engine = c.engine \cup ({id} \cap Live(c))
    <2>1. CASE id \in c.engine
      BY <2>1, CoreFacts DEF CoreOK
    <2>2. CASE id \notin c.engine
      BY <2>2, InstallEngineOK DEF CoreOK, Fields
    <2> QED BY <2>1, <2>2
  <1>2. d = SetActive(b, id)
    BY DEF Switched
  <1> HIDE DEF b, d
  <1>3. /\ Consistent(d) /\ Live(d) = Live(b) /\ d.active = id
        /\ d.loaded = b.loaded \cup ({id} \cap Live(b))
        /\ \A f \in {"pages", "engine", "limit", "next_id"} : d[f] = b[f]
    BY <1>0, <1>1, <1>2, SetActiveOK
  <1>4. /\ d.pages = b.pages /\ d.engine = b.engine /\ d.limit = b.limit
        /\ d.next_id = b.next_id
    BY <1>3
  <1>5. CoreOK(d)
    BY <1>1, <1>3, <1>4 DEF CoreOK
  <1>6. ActiveOK(d)
    BY <1>1, <1>3, <1>4 DEF ActiveOK
  <1> QED BY <1>1, <1>3, <1>4, <1>5, <1>6 DEF d

-----------------------------------------------------------------------------
(* What the user does.                                                     *)

(* What a handler that allocates no id for a request need not say.         *)
LEMMA Unmoved ==
  ASSUME IInv, UNCHANGED <<asked, pending>>, CoreOK(core'), core.next_id <= core'.next_id
  PROVE  asked' \in 0..MaxAsked /\ pending' \subseteq 0 .. core'.next_id - 1
  <1>1. core.next_id \in Nat /\ core'.next_id \in Nat /\ pending \subseteq 0 .. core.next_id - 1
    BY WindowFacts, CoreFacts
  <1>2. 0 .. core.next_id - 1 \subseteq 0 .. core'.next_id - 1
    BY <1>1
  <1>3. asked \in 0..MaxAsked /\ asked' = asked /\ pending' = pending
    BY DEF IInv, ProcessOK
  <1> QED BY <1>1, <1>2, <1>3

(* A window that is anchored stays so with a page of it in front.          *)
LEMMA AnchoredAgain ==
  ASSUME NEW c, NEW d, NEW v, Anchored(c, v), CoreOK(d), Live(c) \subseteq Live(d), d.pages # <<>>,
         d.active \in Live(d) \/ d.active = c.active \/ d.active \in v.listed, d.active \in Ids
  PROVE  Anchored(d, v)
  BY DEF Anchored

LEMMA AppendedPages ==
  ASSUME NEW s \in Seq(Nat), NEW e \in Nat
  PROVE  Append(s, e) # <<>>
  <1>1. Len(Append(s, e)) = Len(s) + 1 /\ Len(s) \in Nat
    BY ElementsAppend, LenProperties
  <1>2. Len(<<>>) = 0 /\ Len(s) + 1 # 0
    BY <1>1
  <1> QED BY <1>1, <1>2

LEMMA AddPageStep ==
  ASSUME IInv, NEW u \in Urls, AddPageAndSwitch(u)
  PROVE  IInv' /\ TabStep
  <1>1. /\ Runs /\ core.next_id < MaxPages /\ DoAddPage(core, {}, u) /\ due' = TRUE
        /\ UNCHANGED <<process, view, asked, pending>> /\ SaveSession
    BY DEF AddPageAndSwitch
  <1>2. /\ CoreOK(core) /\ core.next_id \in Nat /\ core.next_id \in Ids \ Live(core)
        /\ u \in MaybeUrls /\ core.pages \in Seq(Nat) /\ Anchored(core, view)
    BY <1>1, WindowFacts, CoreFacts, ReactorBoundAssumption DEF MaybeUrls, Ids, IInv, WindowOK
  <1>3. /\ CoreOK(core') /\ ActiveOK(core') /\ UrlsOK(last')
        /\ Fits(slots', core', last', web', late')
        /\ core'.pages = Append(core.pages, core.next_id)
        /\ Live(core') = Live(core) \cup {core.next_id}
        /\ core'.active = core.next_id /\ core'.next_id = core.next_id + 1
    BY <1>1, <1>2, DoAddPageOK
  <1>4. Anchored(core', view)
    BY <1>2, <1>3, AppendedPages, AnchoredAgain
  <1>5. asked' \in 0..MaxAsked /\ pending' \subseteq 0 .. core'.next_id - 1
    BY <1>1, <1>2, <1>3, Unmoved
  <1>6. Opens(core, core')
    BY <1>2, <1>3 DEF Opens
  <1> QED BY <1>1, <1>3, <1>4, <1>5, <1>6, HandlerOK DEF TabsChange

(* switch_to, by row or key: the page of a tile may have gone.             *)
LEMMA SwitchToStep ==
  ASSUME IInv, NEW id \in Ids, SwitchTo(id)
  PROVE  IInv' /\ TabStep
  <1>1. /\ Runs /\ id \in view.listed \cup Live(core) /\ core' = Switched(core, id)
        /\ due' = TRUE /\ UNCHANGED <<process, last, web, view, slots, late, asked, pending>>
        /\ SaveSession
    BY DEF SwitchTo
  <1>2. CoreOK(core) /\ core.next_id \in Nat /\ Anchored(core, view) /\ UrlsOK(last)
        /\ Fits(slots, core, last, web, late)
    BY <1>1, WindowFacts DEF IInv, WindowOK
  <1>3. /\ CoreOK(core') /\ ActiveOK(core') /\ Live(core') = Live(core)
        /\ core'.pages = core.pages /\ core'.active = id /\ core'.next_id = core.next_id
        /\ core.engine \subseteq core'.engine
    BY <1>1, <1>2, SwitchedOK
  <1>4. Fits(slots', core', last', web', late')
    BY <1>1, <1>2, <1>3, MoreEngines
  <1>5. Anchored(core', view)
    BY <1>1, <1>2, <1>3 DEF Anchored
  <1>6. asked' \in 0..MaxAsked /\ pending' \subseteq 0 .. core'.next_id - 1
    BY <1>1, <1>2, <1>3, Unmoved
  <1>7. Shows(core, core')
    BY <1>3 DEF Shows
  <1> QED BY <1>1, <1>2, <1>3, <1>4, <1>5, <1>6, <1>7, HandlerOK DEF TabsChange

(* next_page_id and previous_page_id: a page there is.                     *)
LEMMA KeyStep ==
  ASSUME IInv, NextPage \/ PreviousPage
  PROVE  IInv' /\ TabStep
  <1>1. Runs
    BY DEF NextPage, PreviousPage, SwitchTo
  <1>2. PICK id \in {NextPageId(core), PreviousPageId(core)} : id # NoPage /\ SwitchTo(id)
    BY DEF NextPage, PreviousPage
  <1>3. CoreOK(core) /\ core.pages \in Seq(Nat) /\ Len(core.pages) \in Nat /\ Live(core) \subseteq Ids
    BY WindowFacts, CoreFacts
  <1>4. core.active \in Live(core)
    BY <1>2 DEF NextPageId, PreviousPageId
  <1> DEFINE n == Len(core.pages)
             k == Position(core, core.active)
  <1>5. k \in 1..n
    BY <1>3, <1>4, PositionOf DEF CoreOK
  <1>6. /\ NextPageId(core) = core.pages[(k % n) + 1]
        /\ PreviousPageId(core) = core.pages[((k + n - 2) % n) + 1]
    BY <1>4 DEF NextPageId, PreviousPageId
  <1> HIDE DEF k
  <1>7. (k % n) + 1 \in 1..n /\ ((k + n - 2) % n) + 1 \in 1..n
    <2>1. n \in Nat \ {0} /\ k \in Nat /\ k >= 1
      BY <1>3, <1>5
    <2> HIDE DEF n
    <2>2. \A x \in Nat : x % n \in 0 .. n - 1
      BY <2>1
    <2>3. k + n - 2 \in Nat
      BY <2>1
    <2> QED BY <2>1, <2>2, <2>3
  <1>8. id \in Live(core)
    BY <1>2, <1>6, <1>7 DEF Live, Elements
  <1> QED BY <1>2, <1>3, <1>8, SwitchToStep

(* close_page: of a page that is no more, of one behind, or of the one in  *)
(* front, whose place the first of the others takes, or a new one.         *)
LEMMA ClosePageStep ==
  ASSUME IInv, ClosePage
  PROVE  IInv' /\ TabStep
  <1> DEFINE id == view.active
             c == Remove(core, id)
  <1>1. /\ Runs /\ due' = TRUE /\ UNCHANGED <<process, view, asked, pending>> /\ SaveSession
        /\ \/ id # core.active /\ core' = c /\ DropEngines({id}) /\ UNCHANGED last
           \/ /\ id = core.active /\ c.pages # <<>>
              /\ core' = Switched(c, c.pages[1]) /\ DropEngines({id}) /\ UNCHANGED last
           \/ /\ id = core.active /\ c.pages = <<>>
              /\ c.next_id < MaxPages /\ DoAddPage(c, {id}, StartPage)
    BY DEF ClosePage, Replacement
  <1>2. /\ CoreOK(core) /\ ActiveOK(core) /\ UrlsOK(last) /\ core.next_id \in Nat
        /\ StartPage \in MaybeUrls /\ Anchored(core, view)
        /\ core.pages \in Seq(Nat) /\ Live(core) \subseteq Ids /\ MaxPages \in Nat
    BY <1>1, WindowFacts, CoreFacts, ReactorUrlsAssumption, ReactorBoundAssumption
       DEF MaybeUrls, IInv, WindowOK
  <1>3. /\ CoreOK(c) /\ Live(c) = Live(core) \ {id} /\ c.engine = core.engine \ {id}
        /\ c.active = core.active /\ c.next_id = core.next_id
        /\ id \notin Live(core) => c.pages = core.pages
        /\ id \in Live(core) => \E i \in 1..Len(core.pages) :
             core.pages[i] = id /\ c.pages = VecRemove(core.pages, i)
    BY <1>2, RemovedOK
  <1>4. /\ c.pages # <<>> => c.pages[1] \in Live(c)
        /\ c.pages = <<>> => Live(c) = {}
    <2>1. c.pages \in Seq(Nat)
      BY <1>3, CoreFacts
    <2>2. c.pages # <<>> => 1 \in 1..Len(c.pages)
      BY <2>1, EmptySeq
    <2>3. c.pages = <<>> => 1..Len(c.pages) = {}
      OBVIOUS
    <2> QED BY <2>1, <2>2, <2>3 DEF Live, Elements
  <1> HIDE DEF c, id
  <1> DEFINE Left == /\ CoreOK(core') /\ ActiveOK(core') /\ UrlsOK(last')
                     /\ Fits(slots', core', last', web', late')
                     /\ core.next_id <= core'.next_id
                     /\ Anchored(core', view) /\ TabsChange(core, core')
  <1>11. ASSUME UNCHANGED last PROVE UrlsOK(last')
    BY <1>2, <1>11
  <1>5. ASSUME DropEngines({id}), UNCHANGED last
        PROVE  Fits(slots', c, last', web', late')
    <2>1. Follows(c, last', {id})
      BY <1>2, <1>3, <1>5 DEF Follows
    <2> QED BY <1>5, <2>1, DroppedFits
  <1>6. ASSUME id # core.active /\ core' = c /\ DropEngines({id}) /\ UNCHANGED last
        PROVE  Left
    <2>1. c.pages # <<>>
      <3>1. core.active \in Live(c)
        BY <1>2, <1>3, <1>6 DEF Anchored, id
      <3> QED BY <1>4, <3>1
    <2>2. Anchored(core', view)
      BY <1>2, <1>3, <1>6, <2>1 DEF Anchored, id
    <2>3. ActiveOK(core')
      BY <1>2, <1>3, <1>6 DEF ActiveOK
    <2>4. TabsChange(core, core')
      <3>1. CASE id \notin Live(core)
        BY <1>3, <1>6, <3>1 DEF TabsChange, Same
      <3>2. CASE id \in Live(core)
        BY <1>3, <1>6, <3>2 DEF TabsChange, Closes
      <3> QED BY <3>1, <3>2
    <2>5. CoreOK(core') /\ Fits(slots', core', last', web', late') /\ UrlsOK(last')
      BY <1>3, <1>5, <1>6, <1>11
    <2>6. core.next_id <= core'.next_id
      BY <1>2, <1>3, <1>6
    <2> QED BY <2>2, <2>3, <2>4, <2>5, <2>6
  <1>7. ASSUME /\ id = core.active /\ c.pages # <<>>
               /\ core' = Switched(c, c.pages[1]) /\ DropEngines({id}) /\ UNCHANGED last
        PROVE  Left
    <2>1. c.pages[1] \in Ids /\ c.pages[1] \in Live(c)
      BY <1>2, <1>3, <1>4, <1>7
    <2>2. /\ CoreOK(core') /\ ActiveOK(core') /\ Live(core') = Live(c) /\ core'.pages = c.pages
          /\ core'.active = c.pages[1] /\ core'.next_id = c.next_id
          /\ c.engine \subseteq core'.engine
      BY <1>3, <1>7, <2>1, SwitchedOK
    <2>3. Fits(slots', core', last', web', late')
      BY <1>5, <1>7, <2>2, MoreEngines
    <2>4. Anchored(core', view)
      BY <1>2, <1>3, <1>7, <2>1, <2>2 DEF Anchored, id
    <2>5. TabsChange(core, core')
      <3>1. CASE id \notin Live(core)
        BY <1>3, <2>1, <2>2, <3>1 DEF TabsChange, Shows
      <3>2. CASE id \in Live(core)
        BY <1>3, <1>7, <2>2, <3>2 DEF TabsChange, Closes
      <3> QED BY <3>1, <3>2
    <2>6. UrlsOK(last') /\ core.next_id <= core'.next_id
      BY <1>2, <1>3, <1>7, <1>11, <2>2
    <2> QED BY <2>2, <2>3, <2>4, <2>5, <2>6
  <1>8. ASSUME /\ id = core.active /\ c.pages = <<>>
               /\ c.next_id < MaxPages /\ DoAddPage(c, {id}, StartPage)
        PROVE  Left
    <2>1. /\ CoreOK(core') /\ ActiveOK(core') /\ UrlsOK(last')
          /\ Fits(slots', core', last', web', late')
          /\ core'.pages = Append(c.pages, c.next_id) /\ Live(core') = Live(c) \cup {c.next_id}
          /\ core'.active = c.next_id /\ core'.next_id = c.next_id + 1
      BY <1>2, <1>3, <1>8, DoAddPageOK
    <2>2. core'.pages = <<core.next_id>>
      BY <1>3, <1>8, <2>1
    <2>3. core.next_id \in Ids
      BY <1>2, <1>3, <1>8 DEF Ids
    <2>4. Anchored(core', view)
      BY <1>2, <1>3, <1>4, <1>8, <2>1, <2>2, <2>3 DEF Anchored, id
    <2>5. id \in Live(core)
      BY <1>2, <1>3, <1>8 DEF Anchored
    <2>6. TabsChange(core, core')
      BY <1>3, <1>8, <2>1, <2>2, <2>3, <2>5 DEF TabsChange, Closes
    <2>7. core.next_id <= core'.next_id
      BY <1>2, <1>3, <2>1
    <2> QED BY <2>1, <2>4, <2>6, <2>7
  <1>9. Left
    BY <1>1, <1>6, <1>7, <1>8
  <1>10. asked' \in 0..MaxAsked /\ pending' \subseteq 0 .. core'.next_id - 1
    BY <1>1, <1>9, Unmoved
  <1> QED BY <1>1, <1>9, <1>10, HandlerOK

(* save_settings: a new limit, and what it evicts.                         *)
LEMMA SaveSettingsStep ==
  ASSUME IInv, NEW limit \in Limits, SaveSettings(limit)
  PROVE  IInv' /\ TabStep
  <1> DEFINE c == Relimited(core, limit)
             gone == Evicted(c)
             e == Unload(Enforced(c), gone)
  <1>1. /\ Runs /\ core' = e /\ DropEngines(gone) /\ due' = TRUE
        /\ UNCHANGED <<process, last, view, asked, pending, disk>>
    BY DEF SaveSettings
  <1>2. /\ CoreOK(core) /\ ActiveOK(core) /\ UrlsOK(last) /\ core.next_id \in Nat
        /\ limit \in Nat \cup {Unlimited} /\ Anchored(core, view)
        /\ view.active \in Ids \cup {NoPage} /\ view.listed \subseteq Ids
    BY <1>1, WindowFacts, ReactorLimitsAssumption DEF IInv, WindowOK
  <1>3. /\ CoreOK(c) /\ Live(c) = Live(core) /\ c.engine = core.engine
        /\ c.pages = core.pages /\ c.active = core.active /\ c.next_id = core.next_id
    <2>1. /\ Consistent(c) /\ Live(c) = Live(core) /\ c.limit = limit
          /\ \A f \in Fields \ {"limit"} : c[f] = core[f]
      BY <1>2, RelimitedOK DEF CoreOK
    <2> HIDE DEF c
    <2>2. /\ c.loaded = core.loaded /\ c.pages = core.pages /\ c.active = core.active
          /\ c.next_id = core.next_id /\ c.engine = core.engine
      BY <2>1 DEF Fields
    <2> QED BY <1>2, <2>1, <2>2 DEF CoreOK
  <1> HIDE DEF c
  <1>4. /\ CoreOK(e) /\ Live(e) = Live(c) /\ e.engine = c.engine \ gone
        /\ e.pages = c.pages /\ e.next_id = c.next_id
        /\ e.active = c.active /\ c.active \notin gone
    BY <1>3, UnloadedOK
  <1> HIDE DEF e, gone
  <1>5. Fits(slots', core', last', web', late')
    <2>1. Follows(e, last', gone)
      BY <1>1, <1>2, <1>3, <1>4 DEF Follows
    <2> QED BY <1>1, <2>1, DroppedFits
  <1>6. ActiveOK(core') /\ Anchored(core', view)
    BY <1>1, <1>2, <1>3, <1>4 DEF ActiveOK, Anchored
  <1>7. asked' \in 0..MaxAsked /\ pending' \subseteq 0 .. core'.next_id - 1
    BY <1>1, <1>2, <1>3, <1>4, Unmoved
  <1> QED BY <1>1, <1>2, <1>3, <1>4, <1>5, <1>6, <1>7, QuietOK

(* do_add_page_pending_new_window: a page more behind, which may lose its  *)
(* engine again at once, and a request that waits for it.                  *)
LEMMA NewWindowTickStep ==
  ASSUME IInv, NewWindowTick
  PROVE  IInv' /\ TabStep
  <1> DEFINE id == core.next_id
             d == InsertedBackground(AllocateId(core), id)
             gone == Evicted(d)
             e == Unload(Enforced(d), gone)
  <1>1. /\ Runs /\ asked > 0 /\ id < MaxPages /\ asked' = asked - 1
        /\ core' = e /\ DropEngines(gone) /\ last' = [last EXCEPT ![id] = NoUrl]
        /\ pending' = pending \cup {id} /\ due' = TRUE
        /\ UNCHANGED <<process, view>> /\ SaveSession
    BY DEF NewWindowTick, SaveBackground
  <1>2. /\ CoreOK(core) /\ ActiveOK(core) /\ id \in Nat /\ id \in Ids /\ id \notin Live(core)
        /\ Anchored(core, view) /\ core.pages \in Seq(Nat) /\ Live(core) \subseteq Ids
        /\ pending \subseteq 0 .. id - 1
    BY <1>1, WindowFacts, CoreFacts, ReactorBoundAssumption DEF Ids, IInv, WindowOK
  <1>3. /\ CoreOK(d) /\ Live(d) = Live(core) \cup {id}
        /\ d.engine = core.engine \cup {id}
        /\ d.pages = Append(core.pages, id)
        /\ d.active \in {core.active, id}
        /\ d.next_id = id + 1
    BY <1>1, <1>2, GrownOK
  <1>4. /\ CoreOK(e) /\ Live(e) = Live(d) /\ e.engine = d.engine \ gone
        /\ e.pages = d.pages /\ e.active = d.active
        /\ d.active \notin gone /\ e.next_id = d.next_id
    BY <1>3, UnloadedOK
  <1> HIDE DEF d, e, gone
  <1>5. UrlsOK(last') /\ \A p \in Ids \ {id} : last'[p] = last[p]
    BY <1>1, <1>2, WindowFacts DEF UrlsOK, MaybeUrls
  <1>6. Fits(slots', core', last', web', late')
    <2>1. Follows(e, last', gone)
      BY <1>2, <1>3, <1>4, <1>5 DEF Follows
    <2> QED BY <1>1, <2>1, DroppedFits
  <1>7. ActiveOK(core')
    BY <1>1, <1>2, <1>3, <1>4 DEF ActiveOK
  <1>8. Anchored(core', view)
    <2>1. core'.pages # <<>> /\ core'.active \in Ids
      BY <1>1, <1>2, <1>3, <1>4, AppendedPages DEF Anchored
    <2>2. core'.active \in Live(core') \/ core'.active = core.active
      BY <1>1, <1>3, <1>4
    <2> QED BY <1>1, <1>2, <1>3, <1>4, <2>1, <2>2, AnchoredAgain
  <1>9. asked' \in 0..MaxAsked
    BY <1>1, ReactorBoundAssumption DEF IInv, ProcessOK
  <1>10. pending' \subseteq 0 .. core'.next_id - 1
    <2>1. core'.next_id = id + 1
      BY <1>1, <1>3, <1>4
    <2>2. 0 .. id - 1 \subseteq 0 .. (id + 1) - 1 /\ id \in 0 .. (id + 1) - 1
      BY <1>2
    <2>3. pending \cup {id} \subseteq 0 .. (id + 1) - 1
      BY <1>2, <2>2
    <2> QED BY <1>1, <2>1, <2>3
  <1>11. Opens(core, core')
    BY <1>1, <1>2, <1>3, <1>4 DEF Opens
  <1> QED BY <1>1, <1>4, <1>5, <1>6, <1>7, <1>8, <1>9, <1>10, <1>11, HandlerOK DEF TabsChange

-----------------------------------------------------------------------------
(* A render.                                                               *)

(* The loaded pages, in order.                                             *)
LEMMA LoadedFacts ==
  ASSUME NEW c, CoreOK(c)
  PROVE  /\ Len(Loaded(c)) \in Nat /\ Len(Loaded(c)) <= MaxPages
         /\ \A n \in 1..Len(Loaded(c)) : /\ Loaded(c)[n] \in c.engine /\ Loaded(c)[n] \in Ids
                                         /\ Loaded(c)[n] < c.next_id
  <1>1. /\ c.pages \in Seq(Nat) /\ Len(c.pages) \in Nat /\ c.next_id \in Nat
        /\ Live(c) \subseteq Ids /\ Live(c) \subseteq 0 .. c.next_id - 1
        /\ c.loaded \subseteq Live(c) /\ MaxPages \in Nat
    BY CoreFacts
  <1>2. Len(c.pages) <= c.next_id /\ c.next_id <= MaxPages /\ c.engine = c.loaded
    BY DEF CoreOK
  <1> DEFINE s == c.pages
             t == Loaded(c)
  <1>3. s \in Seq(Nat) /\ t = Filter(s, c.loaded)
    BY <1>1 DEF Loaded
  <1> HIDE DEF s, t
  <1>4. /\ Len(t) \in Nat /\ Len(t) <= Len(s)
        /\ \A n \in 1..Len(t) : \E i \in 1..Len(s) : t[n] = s[i] /\ s[i] \in c.loaded
    <2> DEFINE u == Filter(s, c.loaded)
    <2>1. /\ Len(u) \in Nat /\ Len(u) <= Len(s)
          /\ \A n \in 1..Len(u) : \E i \in 1..Len(s) : u[n] = s[i] /\ s[i] \in c.loaded
      BY <1>3, FilterOK
    <2> HIDE DEF u
    <2> QED BY <1>3, <2>1 DEF u
  <1>5. Len(t) <= MaxPages
    BY <1>1, <1>2, <1>4 DEF s
  <1>6. ASSUME NEW n \in 1..Len(t) PROVE t[n] \in c.engine /\ t[n] \in Ids /\ t[n] < c.next_id
    <2>1. t[n] \in c.loaded
      BY <1>4
    <2>2. t[n] \in 0 .. c.next_id - 1
      BY <1>1, <2>1
    <2> QED BY <1>1, <1>2, <2>1, <2>2
  <1> QED BY <1>4, <1>5, <1>6 DEF t

LEMMA VisibleOK ==
  ASSUME NEW w \in Widget, NEW front, NEW h \in BOOLEAN
  PROVE  LET v == [SetVisible(w, front) EXCEPT !.held = @ /\ h]
         IN /\ v \in Widget /\ v.page = w.page /\ v.live = w.live
            /\ v.settled = w.settled /\ v.source = w.source
            /\ v.held <=> w.held /\ h
            /\ v.held => (v.shown <=> w.page = front)
  BY DEF SetVisible, Widget

LEMMA MountedOK ==
  ASSUME NEW p \in Ids, NEW front, UrlsOK(last)
  PROVE  /\ Mounted(p, front) \in Widget /\ Mounted(p, front).page = p
         /\ Mounted(p, front).settled = FALSE
         /\ Mounted(p, front).shown <=> p = front
  <1>1. last[p] \in Urls \cup {NoUrl, Blank} /\ HomeUrl \in Urls
    BY ReactorUrlsAssumption DEF UrlsOK, MaybeUrls
  <1> QED BY <1>1 DEF Mounted, Widget

(* What the reconciler leaves fits the core it was rendered from, and the  *)
(* controls that have a hold on their engines are shown as they should.    *)
LEMMA ReconciledOK ==
  ASSUME NEW c, NEW front, CoreOK(c), UrlsOK(last), Fits(slots, c, last, web, late)
  PROVE  LET s == Reconciled(c, front)
         IN /\ Fits(s, c, last, web, late) /\ Len(s) = Len(Loaded(c))
            /\ \A n \in 1..Len(s) : s[n].held => (s[n].shown <=> s[n].page = front)
  <1> DEFINE s == Reconciled(c, front)
             k == Len(Loaded(c))
             W(n) == IF n > Len(slots) THEN Mounted(Loaded(c)[n], front)
                     ELSE [SetVisible(slots[n], front) EXCEPT
                             !.held = @ /\ slots[n].page \notin Rehandled(c)]
  <1>1. /\ k \in Nat /\ k <= MaxPages
        /\ \A n \in 1..k : /\ Loaded(c)[n] \in c.engine /\ Loaded(c)[n] \in Ids
                           /\ Loaded(c)[n] < c.next_id
    BY LoadedFacts
  <1>2. ControlsOK(slots, c.next_id) /\ Len(slots) \in Nat
    BY WidgetFacts DEF Fits
  <1>3. s = [n \in 1..k |-> W(n)]
    BY DEF Reconciled
  <1>4. ASSUME NEW n \in 1..k
        PROVE  /\ W(n) \in Widget /\ W(n).page < c.next_id
               /\ W(n).live \/ W(n).held => W(n).page \in c.engine
               /\ W(n).settled /\ W(n).page \in Live(c) => last[W(n).page] = W(n).source
               /\ W(n).held => (W(n).shown <=> W(n).page = front)
    <2>1. CASE n > Len(slots)
      <3> DEFINE w == Mounted(Loaded(c)[n], front)
      <3>1. /\ w \in Widget /\ w.page = Loaded(c)[n] /\ w.settled = FALSE
            /\ w.shown <=> Loaded(c)[n] = front
        BY <1>1, MountedOK
      <3>2. W(n) = w
        BY <2>1
      <3> HIDE DEF w, W
      <3> QED BY <1>1, <3>1, <3>2
    <2>2. CASE n \in 1..Len(slots)
      <3> DEFINE h == slots[n].page \notin Rehandled(c)
                 v == [SetVisible(slots[n], front) EXCEPT !.held = @ /\ h]
      <3>1. /\ slots[n] \in Widget /\ slots[n].page < c.next_id
            /\ slots[n].live \/ slots[n].held => slots[n].page \in c.engine
            /\ slots[n].settled /\ slots[n].page \in Live(c) => last[slots[n].page] = slots[n].source
        BY <1>2, <2>2, WidgetFacts DEF Fits
      <3>2. W(n) = v
        BY <1>2, <2>2
      <3>3. h \in BOOLEAN
        OBVIOUS
      <3> HIDE DEF h
      <3>4. /\ v \in Widget /\ v.page = slots[n].page /\ v.live = slots[n].live
            /\ v.settled = slots[n].settled /\ v.source = slots[n].source
            /\ v.held <=> slots[n].held /\ h
            /\ v.held => (v.shown <=> slots[n].page = front)
        BY <3>1, <3>3, VisibleOK
      <3> HIDE DEF v, W
      <3> QED BY <3>1, <3>2, <3>4
    <2> QED BY <1>1, <1>2, <2>1, <2>2
  <1> HIDE DEF W
  <1>5. s \in Seq(Widget) /\ Len(s) = k /\ \A n \in 1..k : s[n] = W(n)
    BY <1>1, <1>3, <1>4
  <1> HIDE DEF s
  <1>6. ControlsOK(s, c.next_id)
    BY <1>1, <1>4, <1>5 DEF ControlsOK
  <1>7. Fits(s, c, last, web, late)
    BY <1>4, <1>5, <1>6 DEF Fits
  <1> QED BY <1>4, <1>5, <1>7 DEF s

LEMMA RenderStep ==
  ASSUME IInv, Render
  PROVE  IInv' /\ TabStep
  <1> DEFINE left == {[page |-> slots[i].page, live |-> slots[i].live] :
                        i \in {j \in Unmounted(core) : slots[j].stage = "deferred"}}
             known == {slots[i].page : i \in {j \in Unmounted(core) :
                         slots[j].live /\ slots[j].stage = "ready"}}
  <1>1. /\ Runs /\ due /\ due' = FALSE /\ slots' = Reconciled(core, core.active)
        /\ view' = [active |-> core.active, listed |-> Live(core)]
        /\ late' = late \cup left
        /\ UNCHANGED <<process, core, last, asked, pending, disk>>
    BY DEF Render
  <1>2. PICK mute \in SUBSET known : web' = [p \in Ids |-> IF p \in mute THEN NoUrl ELSE web[p]]
    BY DEF Render
  <1>3. /\ CoreOK(core) /\ ActiveOK(core) /\ UrlsOK(last) /\ Anchored(core, view)
        /\ Fits(slots, core, last, web, late)
    BY <1>1, WindowFacts DEF IInv, WindowOK
  <1>4. /\ Fits(slots', core, last, web, late) /\ Len(slots') = Len(Loaded(core))
        /\ \A n \in 1..Len(slots') : slots'[n].held => (slots'[n].shown <=> slots'[n].page = core.active)
    BY <1>1, <1>3, ReconciledOK
  <1>5. \A i \in Unmounted(core) : /\ slots[i].page \in Ids /\ slots[i].live \in BOOLEAN
                                   /\ slots[i].live => slots[i].page \in core.engine
    <2>1. Unmounted(core) \subseteq 1..Len(slots)
      BY DEF Unmounted
    <2> QED BY <1>3, <2>1, WidgetFacts DEF Fits
  <1>6. \A x \in left : x \in [page : Ids, live : BOOLEAN] /\ (x.live => x.page \in core.engine)
    BY <1>5
  <1>7. known \subseteq core.engine
    BY <1>5
  <1> HIDE DEF left, known
  <1>8. web' \in [Ids -> MaybeUrls \cup {NoWeb}] /\ \A p \in Ids \ core.engine : web'[p] = NoWeb
    BY <1>2, <1>3, <1>7 DEF Fits, MaybeUrls
  <1>9. Fits(slots', core', last', web', late')
    <2>1. late' \subseteq [page : Ids, live : BOOLEAN] /\ \A x \in late' : x.live => x.page \in core.engine
      BY <1>1, <1>3, <1>6 DEF Fits
    <2> QED BY <1>1, <1>4, <1>8, <2>1 DEF Fits
  <1>10. CaughtUp(slots', core')
    BY <1>1, <1>4 DEF CaughtUp
  <1>11. /\ view'.active \in Ids \cup {NoPage} /\ view'.listed \subseteq Ids
         /\ Anchored(core', view')
    <2>1. Live(core) \subseteq Ids
      BY <1>3, CoreFacts
    <2> QED BY <1>1, <1>3, <2>1 DEF Anchored
  <1>12. asked' \in 0..MaxAsked /\ pending' \subseteq 0 .. core'.next_id - 1
    BY <1>1 DEF IInv, ProcessOK
  <1> QED BY <1>1, <1>3, <1>9, <1>10, <1>11, <1>12, QuietOK

-----------------------------------------------------------------------------
(* What the controls and the timer do.                                     *)

(* A control's callback, or a tick: no control appears or changes page,    *)
(* and none gets a hold on an engine.                                      *)
LEMMA CallbackStep ==
  ASSUME IInv, up, ~restoring, UNCHANGED <<process, core, view, disk>>,
         slots' \in Seq(Widget), Len(slots') = Len(slots),
         \A j \in 1..Len(slots) :
           /\ slots'[j].page = slots[j].page /\ slots'[j].held = slots[j].held
           /\ slots'[j].live = slots[j].live /\ slots'[j].shown = slots[j].shown
           /\ slots'[j].settled /\ slots[j].page \in Live(core) => last'[slots[j].page] = slots'[j].source,
         UrlsOK(last'), web' \in [Ids -> MaybeUrls \cup {NoWeb}],
         \A p \in Ids \ core.engine : web'[p] = NoWeb,
         late' \subseteq late, pending' \subseteq pending, asked' \in 0..MaxAsked,
         due' \in BOOLEAN, due => due'
  PROVE  IInv' /\ TabStep
  <1>1. /\ Fits(slots, core, last, web, late) /\ CoreOK(core) /\ ActiveOK(core)
        /\ ControlsOK(slots, core.next_id) /\ Runs
        /\ pending' \subseteq 0 .. core'.next_id - 1
    BY WindowFacts DEF Runs
  <1>2. /\ Anchored(core, view) /\ (~due => CaughtUp(slots, core))
        /\ view.active \in Ids \cup {NoPage} /\ view.listed \subseteq Ids
    BY <1>1 DEF IInv, WindowOK
  <1>3. ControlsOK(slots', core.next_id)
    BY <1>1 DEF ControlsOK
  <1>4. \A j \in 1..Len(slots') :
          /\ slots'[j].live \/ slots'[j].held => slots'[j].page \in core.engine
          /\ slots'[j].settled /\ slots'[j].page \in Live(core) =>
               last'[slots'[j].page] = slots'[j].source
    BY <1>1 DEF Fits
  <1>5. late' \subseteq [page : Ids, live : BOOLEAN] /\ \A x \in late' : x.live => x.page \in core.engine
    BY <1>1 DEF Fits
  <1>6. Fits(slots', core', last', web', late')
    BY <1>3, <1>4, <1>5 DEF Fits
  <1>7. ~due' => CaughtUp(slots', core')
    <2> SUFFICES ASSUME ~due' PROVE CaughtUp(slots', core)
      OBVIOUS
    <2>1. CaughtUp(slots, core)
      BY <1>2
    <2> QED BY <2>1 DEF CaughtUp
  <1>8. core'.pages = core.pages /\ core'.active = core.active
    OBVIOUS
  <1> QED BY <1>1, <1>2, <1>6, <1>7, <1>8, QuietOK

(* No control is there while a session is restored.                        *)
LEMMA NotRestoring ==
  ASSUME IInv, NEW i \in 1..Len(slots)
  PROVE  ~restoring
  <1>1. slots # <<>>
    <2>1. 1..0 = {} /\ Len(<<>>) = 0
      OBVIOUS
    <2> QED BY <2>1
  <1> QED BY <1>1 DEF IInv, DownOK

(* One control replaced by what it becomes.                                *)
LEMMA OneControl ==
  ASSUME IInv, NEW i \in 1..Len(slots), NEW w \in Widget, slots' = [slots EXCEPT ![i] = w]
  PROVE  /\ slots' \in Seq(Widget) /\ Len(slots') = Len(slots) /\ slots'[i] = w
         /\ \A j \in 1..Len(slots) \ {i} : slots'[j] = slots[j]
  <1>1. slots \in Seq(Widget)
    BY WindowFacts
  <1> QED BY <1>1

(* The fields that a callback assigns.                                     *)
LEMMA WidgetEdits ==
  ASSUME NEW w \in Widget
  PROVE  /\ LET v == [w EXCEPT !.stage = "deferred"]
            IN /\ v \in Widget /\ v.page = w.page /\ v.live = w.live /\ v.shown = w.shown
               /\ v.held = w.held /\ v.settled = w.settled /\ v.source = w.source
         /\ LET v == [w EXCEPT !.stage = "replaced"]
            IN /\ v \in Widget /\ v.page = w.page /\ v.live = w.live /\ v.shown = w.shown
               /\ v.held = w.held /\ v.settled = w.settled /\ v.source = w.source
  BY DEF Widget

LEMMA ReadyEdit ==
  ASSUME NEW w \in Widget, NEW g \in Urls \cup {Blank, NoUrl}
  PROVE  LET v == [w EXCEPT !.stage = "ready", !.going = g]
         IN /\ v \in Widget /\ v.page = w.page /\ v.live = w.live /\ v.shown = w.shown
            /\ v.held = w.held /\ v.settled = w.settled /\ v.source = w.source
  BY DEF Widget

LEMMA SourceEdit ==
  ASSUME NEW w \in Widget, NEW u \in Urls
  PROVE  LET v == [w EXCEPT !.source = u, !.going = NoUrl, !.settled = FALSE]
         IN /\ v \in Widget /\ v.page = w.page /\ v.live = w.live /\ v.shown = w.shown
            /\ v.held = w.held /\ v.settled = FALSE
  BY DEF Widget

LEMMA SettledEdit ==
  ASSUME NEW w \in Widget, NEW b \in BOOLEAN
  PROVE  LET v == [w EXCEPT !.settled = b]
         IN /\ v \in Widget /\ v.page = w.page /\ v.live = w.live /\ v.shown = w.shown
            /\ v.held = w.held /\ v.settled = b /\ v.source = w.source
  BY DEF Widget

LEMMA OutdoneOK ==
  ASSUME NEW w \in Widget, NEW p
  PROVE  LET v == Outdone(w, p)
         IN /\ v \in Widget /\ v.page = w.page /\ v.live = w.live /\ v.shown = w.shown
            /\ v.held = w.held /\ v.settled = w.settled /\ v.source = w.source
  BY WidgetEdits DEF Outdone

(* What a place in the window holds.                                       *)
LEMMA PlaceFacts ==
  ASSUME IInv, NEW i \in 1..Len(slots)
  PROVE  /\ slots[i] \in Widget /\ slots[i].page \in Ids /\ slots[i].source \in MaybeUrls
         /\ slots[i].live => slots[i].page \in core.engine
         /\ slots[i].settled /\ slots[i].page \in Live(core) => last[slots[i].page] = slots[i].source
  <1>1. Fits(slots, core, last, web, late)
    BY WindowFacts
  <1>2. slots[i] \in Widget /\ slots[i].page \in Ids /\ slots[i].source \in MaybeUrls
    BY WindowFacts
  <1> QED BY <1>1, <1>2 DEF Fits

(* The WebViews, and one of them changed.                                  *)
LEMMA WebFacts ==
  ASSUME IInv
  PROVE  /\ web \in [Ids -> MaybeUrls \cup {NoWeb}]
         /\ \A p \in Ids \ core.engine : web[p] = NoWeb
         /\ \A q \in core.engine, u \in MaybeUrls :
              /\ [web EXCEPT ![q] = u] \in [Ids -> MaybeUrls \cup {NoWeb}]
              /\ \A p \in Ids \ core.engine : [web EXCEPT ![q] = u][p] = NoWeb
  <1>1. /\ web \in [Ids -> MaybeUrls \cup {NoWeb}]
        /\ \A p \in Ids \ core.engine : web[p] = NoWeb
    BY WindowFacts DEF Fits
  <1> QED BY <1>1

LEMMA OnReadyStep ==
  ASSUME IInv, NEW i, OnReady(i)
  PROVE  IInv' /\ TabStep
  <1> DEFINE w == [slots[i] EXCEPT !.stage = "deferred"]
  <1>1. /\ up /\ i \in 1..Len(slots) /\ slots' = [slots EXCEPT ![i] = w]
        /\ UNCHANGED <<process, core, last, web, due, view, late, asked, pending, disk>>
    BY DEF OnReady, window
  <1>2. slots[i] \in Widget /\ ~restoring
    BY <1>1, PlaceFacts, NotRestoring
  <1>3. /\ w \in Widget /\ w.page = slots[i].page /\ w.live = slots[i].live
        /\ w.shown = slots[i].shown /\ w.held = slots[i].held
        /\ w.settled = slots[i].settled /\ w.source = slots[i].source
    BY <1>2, WidgetEdits
  <1> HIDE DEF w
  <1>4. /\ slots' \in Seq(Widget) /\ Len(slots') = Len(slots) /\ slots'[i] = w
        /\ \A j \in 1..Len(slots) \ {i} : slots'[j] = slots[j]
    BY <1>1, <1>3, OneControl
  <1>5. \A j \in 1..Len(slots) :
          /\ slots'[j].page = slots[j].page /\ slots'[j].held = slots[j].held
          /\ slots'[j].live = slots[j].live /\ slots'[j].shown = slots[j].shown
          /\ slots'[j].settled = slots[j].settled /\ slots'[j].source = slots[j].source
    BY <1>3, <1>4
  <1>6. /\ web' \in [Ids -> MaybeUrls \cup {NoWeb}] /\ UrlsOK(last')
        /\ \A p \in Ids \ core.engine : web'[p] = NoWeb
    BY <1>1, WebFacts, WindowFacts
  <1>7. asked' \in 0..MaxAsked /\ due' \in BOOLEAN
    BY <1>1 DEF IInv, ProcessOK
  <1>8. \A j \in 1..Len(slots) : slots'[j].settled /\ slots[j].page \in Live(core) =>
          last'[slots[j].page] = slots'[j].source
    BY <1>1, <1>5, PlaceFacts
  <1> QED BY <1>1, <1>2, <1>4, <1>5, <1>6, <1>7, <1>8, CallbackStep

LEMMA ReadyTickStep ==
  ASSUME IInv, NEW i, ReadyTick(i)
  PROVE  IInv' /\ TabStep
  <1> DEFINE p == slots[i].page
  <1>1. PICK u \in Urls :
          slots' = [j \in 1..Len(slots) |->
            IF j = i THEN [slots[i] EXCEPT !.stage = "ready",
                                           !.going = IF slots[i].page \in pending THEN u ELSE @]
            ELSE IF slots[i].live THEN Outdone(slots[j], slots[i].page) ELSE slots[j]]
    BY DEF ReadyTick
  <1>2. /\ up /\ i \in 1..Len(slots) /\ pending' = pending \ {p}
        /\ web' = IF slots[i].live THEN [web EXCEPT ![p] = slots[i].source] ELSE web
        /\ UNCHANGED <<process, core, last, due, view, late, asked, disk>>
    BY DEF ReadyTick, Resolved, window
  <1> DEFINE g == IF slots[i].page \in pending THEN u ELSE slots[i].going
             V(j) == IF j = i THEN [slots[i] EXCEPT !.stage = "ready", !.going = g]
                     ELSE IF slots[i].live THEN Outdone(slots[j], slots[i].page) ELSE slots[j]
  <1>3. slots' = [j \in 1..Len(slots) |-> V(j)]
    BY <1>1
  <1>4. ASSUME NEW j \in 1..Len(slots)
        PROVE  /\ V(j) \in Widget /\ V(j).page = slots[j].page /\ V(j).shown = slots[j].shown
               /\ V(j).live = slots[j].live /\ V(j).held = slots[j].held
               /\ V(j).settled = slots[j].settled /\ V(j).source = slots[j].source
    <2>1. slots[j] \in Widget /\ slots[i] \in Widget
      BY <1>2, PlaceFacts
    <2>2. g \in Urls \cup {Blank, NoUrl}
      BY <2>1 DEF Widget
    <2> HIDE DEF g
    <2>3. CASE j = i
      <3> DEFINE v == [slots[i] EXCEPT !.stage = "ready", !.going = g]
      <3>1. /\ v \in Widget /\ v.page = slots[i].page /\ v.live = slots[i].live
            /\ v.shown = slots[i].shown /\ v.held = slots[i].held
            /\ v.settled = slots[i].settled /\ v.source = slots[i].source
        BY <2>1, <2>2, ReadyEdit
      <3>2. V(j) = v
        BY <2>3
      <3> HIDE DEF v, V
      <3> QED BY <2>3, <3>1, <3>2
    <2>4. CASE j # i /\ slots[i].live
      <3> DEFINE v == Outdone(slots[j], slots[i].page)
      <3>1. /\ v \in Widget /\ v.page = slots[j].page /\ v.live = slots[j].live
            /\ v.shown = slots[j].shown /\ v.held = slots[j].held
            /\ v.settled = slots[j].settled /\ v.source = slots[j].source
        BY <2>1, OutdoneOK
      <3>2. V(j) = v
        BY <2>4
      <3> HIDE DEF v, V
      <3> QED BY <3>1, <3>2
    <2>5. CASE j # i /\ ~slots[i].live
      BY <2>1, <2>5
    <2> QED BY <2>3, <2>4, <2>5
  <1> HIDE DEF V
  <1>5. slots' \in Seq(Widget) /\ Len(slots') = Len(slots) /\ \A j \in 1..Len(slots) : slots'[j] = V(j)
    <2>1. Len(slots) \in Nat
      BY WindowFacts
    <2> QED BY <1>3, <1>4, <2>1
  <1>6. \A j \in 1..Len(slots) : slots'[j].settled /\ slots[j].page \in Live(core) =>
          last'[slots[j].page] = slots'[j].source
    BY <1>2, <1>4, <1>5, PlaceFacts
  <1>7. /\ web' \in [Ids -> MaybeUrls \cup {NoWeb}] /\ UrlsOK(last')
        /\ \A q \in Ids \ core.engine : web'[q] = NoWeb
    BY <1>2, WebFacts, WindowFacts, PlaceFacts
  <1>8. asked' \in 0..MaxAsked /\ due' \in BOOLEAN /\ pending' \subseteq pending /\ ~restoring
    BY <1>2, NotRestoring DEF IInv, ProcessOK
  <1>9. \A j \in 1..Len(slots) :
          /\ slots'[j].page = slots[j].page /\ slots'[j].held = slots[j].held
          /\ slots'[j].live = slots[j].live /\ slots'[j].shown = slots[j].shown
    BY <1>4, <1>5
  <1> QED BY <1>2, <1>5, <1>6, <1>7, <1>8, <1>9, CallbackStep

(* A tick whose control has gone.                                          *)
LEMMA LateTickStep ==
  ASSUME IInv, NEW t \in late, LateTick(t)
  PROVE  IInv' /\ TabStep
  <1>1. /\ up /\ late' = late \ {t} /\ pending' = pending \ {t.page}
        /\ UNCHANGED <<process, core, last, due, view, asked, disk>>
        /\ \/ /\ t.live /\ slots' = [j \in 1..Len(slots) |-> Outdone(slots[j], t.page)]
              /\ \E s \in {Blank, NoUrl} : web' = [web EXCEPT ![t.page] = s]
           \/ UNCHANGED <<slots, web>>
    BY DEF LateTick, Resolved
  <1>2. ~restoring /\ (t.live => t.page \in core.engine)
    BY WindowFacts DEF IInv, DownOK, Fits
  <1>3. /\ slots' \in Seq(Widget) /\ Len(slots') = Len(slots)
        /\ \A j \in 1..Len(slots) :
             /\ slots'[j].page = slots[j].page /\ slots'[j].held = slots[j].held
             /\ slots'[j].live = slots[j].live /\ slots'[j].shown = slots[j].shown
             /\ slots'[j].settled = slots[j].settled /\ slots'[j].source = slots[j].source
    <2>1. CASE UNCHANGED slots
      BY <2>1, WindowFacts
    <2>2. CASE slots' = [j \in 1..Len(slots) |-> Outdone(slots[j], t.page)]
      <3> DEFINE V(j) == Outdone(slots[j], t.page)
      <3>1. \A j \in 1..Len(slots) :
              /\ V(j) \in Widget /\ V(j).page = slots[j].page /\ V(j).shown = slots[j].shown
              /\ V(j).live = slots[j].live /\ V(j).held = slots[j].held
              /\ V(j).settled = slots[j].settled /\ V(j).source = slots[j].source
        BY WindowFacts, OutdoneOK
      <3>2. slots' = [j \in 1..Len(slots) |-> V(j)] /\ Len(slots) \in Nat
        BY <2>2, WindowFacts
      <3> HIDE DEF V
      <3>3. slots' \in Seq(Widget) /\ Len(slots') = Len(slots)
        BY <3>1, <3>2
      <3>4. \A j \in 1..Len(slots) : slots'[j] = V(j)
        BY <3>2
      <3> QED BY <3>1, <3>3, <3>4
    <2> QED BY <1>1, <2>1, <2>2
  <1>4. \A j \in 1..Len(slots) : slots'[j].settled /\ slots[j].page \in Live(core) =>
          last'[slots[j].page] = slots'[j].source
    BY <1>1, <1>3, PlaceFacts
  <1>5. /\ web' \in [Ids -> MaybeUrls \cup {NoWeb}] /\ UrlsOK(last')
        /\ \A q \in Ids \ core.engine : web'[q] = NoWeb
    BY <1>1, <1>2, WebFacts, WindowFacts DEF MaybeUrls
  <1>6. /\ asked' \in 0..MaxAsked /\ due' \in BOOLEAN
        /\ pending' \subseteq pending /\ late' \subseteq late
    BY <1>1 DEF IInv, ProcessOK
  <1> QED BY <1>1, <1>2, <1>3, <1>4, <1>5, <1>6, CallbackStep

LEMMA SourceChangedStep ==
  ASSUME IInv, NEW i, NEW u \in Urls, SourceChanged(i, u)
  PROVE  IInv' /\ TabStep
  <1> DEFINE w == [slots[i] EXCEPT !.source = u, !.going = NoUrl, !.settled = FALSE]
  <1>0. i \in 1..Len(slots) /\ slots \in Seq(Widget)
    BY WindowFacts DEF SourceChanged
  <1>1. /\ up /\ slots' = [slots EXCEPT ![i] = w]
        /\ web' = IF slots[i].live THEN [web EXCEPT ![slots[i].page] = u] ELSE web
        /\ UNCHANGED <<process, core, last, due, view, late, asked, pending, disk>>
    BY <1>0 DEF SourceChanged, window
  <1>2. slots[i] \in Widget /\ ~restoring
    BY <1>0, PlaceFacts, NotRestoring
  <1>3. /\ w \in Widget /\ w.page = slots[i].page /\ w.live = slots[i].live
        /\ w.shown = slots[i].shown /\ w.held = slots[i].held /\ w.settled = FALSE
    BY <1>2, SourceEdit
  <1> HIDE DEF w
  <1>4. /\ slots' \in Seq(Widget) /\ Len(slots') = Len(slots) /\ slots'[i] = w
        /\ \A j \in 1..Len(slots) \ {i} : slots'[j] = slots[j]
    BY <1>0, <1>1, <1>3, OneControl
  <1>5. \A j \in 1..Len(slots) :
          /\ slots'[j].page = slots[j].page /\ slots'[j].held = slots[j].held
          /\ slots'[j].live = slots[j].live /\ slots'[j].shown = slots[j].shown
    BY <1>3, <1>4
  <1>6. \A j \in 1..Len(slots) : slots'[j].settled /\ slots[j].page \in Live(core) =>
          last'[slots[j].page] = slots'[j].source
    <2> SUFFICES ASSUME NEW j \in 1..Len(slots), slots'[j].settled, slots[j].page \in Live(core)
                 PROVE  last'[slots[j].page] = slots'[j].source
      OBVIOUS
    <2>1. j # i /\ slots'[j] = slots[j]
      BY <1>3, <1>4
    <2> QED BY <1>1, <2>1, PlaceFacts
  <1>7. /\ web' \in [Ids -> MaybeUrls \cup {NoWeb}] /\ UrlsOK(last')
        /\ \A q \in Ids \ core.engine : web'[q] = NoWeb
    <2>1. u \in MaybeUrls
      BY DEF MaybeUrls
    <2> QED BY <1>0, <1>1, <2>1, WebFacts, WindowFacts, PlaceFacts
  <1>8. asked' \in 0..MaxAsked /\ due' \in BOOLEAN
    BY <1>1 DEF IInv, ProcessOK
  <1> QED BY <1>1, <1>2, <1>4, <1>5, <1>6, <1>7, <1>8, CallbackStep

(* reflect: the page's last_url, if it is open, is its control's now.      *)
LEMMA NavigationCompletedStep ==
  ASSUME IInv, NEW i, NavigationCompleted(i)
  PROVE  IInv' /\ TabStep
  <1> DEFINE p == slots[i].page
             V(j) == IF slots[j].page = p THEN [slots[j] EXCEPT !.settled = j = i] ELSE slots[j]
  <1>1. /\ up /\ i \in 1..Len(slots)
        /\ slots' = [j \in 1..Len(slots) |-> V(j)]
        /\ last' = [last EXCEPT ![p] = IF p \in Live(core) THEN slots[i].source ELSE @]
        /\ due' = (due \/ p = core.active)
        /\ UNCHANGED <<process, core, web, view, late, asked, pending, disk>>
    BY DEF NavigationCompleted, Reflect
  <1>2. ASSUME NEW j \in 1..Len(slots)
        PROVE  /\ V(j) \in Widget /\ V(j).page = slots[j].page /\ V(j).shown = slots[j].shown
               /\ V(j).live = slots[j].live /\ V(j).held = slots[j].held
               /\ V(j).source = slots[j].source
               /\ slots[j].page = p => V(j).settled = (j = i)
               /\ slots[j].page # p => V(j).settled = slots[j].settled
    <2>1. slots[j] \in Widget
      BY PlaceFacts
    <2>2. CASE slots[j].page = p
      <3> DEFINE b == j = i
                 v == [slots[j] EXCEPT !.settled = b]
      <3>1. b \in BOOLEAN
        OBVIOUS
      <3> HIDE DEF b
      <3>2. /\ v \in Widget /\ v.page = slots[j].page /\ v.live = slots[j].live
            /\ v.shown = slots[j].shown /\ v.held = slots[j].held /\ v.settled = b
            /\ v.source = slots[j].source
        BY <2>1, <3>1, SettledEdit
      <3>3. V(j) = v
        BY <2>2 DEF b
      <3> HIDE DEF v, V
      <3> QED BY <2>2, <3>2, <3>3 DEF b
    <2>3. CASE slots[j].page # p
      BY <2>1, <2>3
    <2> QED BY <2>2, <2>3
  <1>3. p \in Ids /\ slots[i].source \in MaybeUrls /\ UrlsOK(last) /\ Len(slots) \in Nat /\ ~restoring
    BY <1>1, PlaceFacts, WindowFacts, NotRestoring
  <1> HIDE DEF V
  <1>4. slots' \in Seq(Widget) /\ Len(slots') = Len(slots) /\ \A j \in 1..Len(slots) : slots'[j] = V(j)
    BY <1>1, <1>2, <1>3
  <1>5. /\ UrlsOK(last') /\ \A q \in Ids \ {p} : last'[q] = last[q]
        /\ p \in Live(core) => last'[p] = slots[i].source
    BY <1>1, <1>3 DEF UrlsOK
  <1>6. \A j \in 1..Len(slots) : slots'[j].settled /\ slots[j].page \in Live(core) =>
          last'[slots[j].page] = slots'[j].source
    <2> SUFFICES ASSUME NEW j \in 1..Len(slots), slots'[j].settled, slots[j].page \in Live(core)
                 PROVE  last'[slots[j].page] = slots'[j].source
      OBVIOUS
    <2>1. CASE slots[j].page = p
      <3>1. j = i
        BY <1>2, <1>4, <2>1
      <3> QED BY <1>2, <1>4, <1>5, <3>1
    <2>2. CASE slots[j].page # p
      <3>1. slots[j].settled /\ slots[j].page \in Ids
        BY <1>2, <1>4, <2>2, PlaceFacts
      <3> QED BY <1>2, <1>4, <1>5, <2>2, <3>1, PlaceFacts
    <2> QED BY <2>1, <2>2
  <1>7. /\ web' \in [Ids -> MaybeUrls \cup {NoWeb}]
        /\ \A q \in Ids \ core.engine : web'[q] = NoWeb
    BY <1>1, WebFacts
  <1>8. asked' \in 0..MaxAsked /\ due' \in BOOLEAN /\ (due => due')
    BY <1>1 DEF IInv, ProcessOK
  <1>9. \A j \in 1..Len(slots) :
          /\ slots'[j].page = slots[j].page /\ slots'[j].held = slots[j].held
          /\ slots'[j].live = slots[j].live /\ slots'[j].shown = slots[j].shown
    BY <1>2, <1>4
  <1> QED BY <1>1, <1>3, <1>4, <1>5, <1>6, <1>7, <1>8, <1>9, CallbackStep

LEMMA TitleChangedStep ==
  ASSUME IInv, NEW i, TitleChanged(i)
  PROVE  IInv' /\ TabStep
  <1>1. /\ up /\ i \in 1..Len(slots) /\ due' = (due \/ slots[i].page = core.active)
        /\ UNCHANGED <<process, core, last, web, view, slots, late, asked, pending>> /\ SaveSession
    BY DEF TitleChanged
  <1>2. Runs
    BY <1>1, NotRestoring DEF Runs
  <1>3. /\ CoreOK(core) /\ ActiveOK(core) /\ UrlsOK(last) /\ Fits(slots, core, last, web, late)
        /\ Anchored(core, view) /\ (~due => CaughtUp(slots, core))
    BY <1>2, WindowFacts DEF IInv, WindowOK
  <1>4. asked' \in 0..MaxAsked /\ pending' \subseteq 0 .. core'.next_id - 1 /\ due' \in BOOLEAN
    BY <1>1 DEF IInv, ProcessOK
  <1>5. Same(core, core')
    BY <1>1 DEF Same
  <1> QED BY <1>1, <1>2, <1>3, <1>4, <1>5, HandlerOK DEF TabsChange

LEMMA NewWindowRequestedStep ==
  ASSUME IInv, NEW i, NewWindowRequested(i)
  PROVE  IInv' /\ TabStep
  <1>1. /\ up /\ i \in 1..Len(slots) /\ asked < MaxAsked /\ asked' = asked + 1
        /\ UNCHANGED <<process, core, last, web, due, view, slots, late, pending, disk>>
    BY DEF NewWindowRequested, window
  <1>2. asked' \in 0..MaxAsked /\ due' \in BOOLEAN /\ ~restoring
    BY <1>1, ReactorBoundAssumption, NotRestoring DEF IInv, ProcessOK
  <1>3. /\ web' \in [Ids -> MaybeUrls \cup {NoWeb}] /\ UrlsOK(last')
        /\ \A q \in Ids \ core.engine : web'[q] = NoWeb
        /\ slots' \in Seq(Widget)
    BY <1>1, WebFacts, WindowFacts
  <1>4. \A j \in 1..Len(slots) : slots'[j].settled /\ slots[j].page \in Live(core) =>
          last'[slots[j].page] = slots'[j].source
    BY <1>1, PlaceFacts
  <1> QED BY <1>1, <1>2, <1>3, <1>4, CallbackStep

-----------------------------------------------------------------------------
(* Before, during and after the first render.                              *)

(* Where no control and no WebView is, none is wrong.                      *)
LEMMA EmptyFits ==
  ASSUME NEW s, s = <<>>, NEW l, NEW w, w = [p \in Ids |-> NoWeb], NEW t, t = {}, NEW c
  PROVE  Fits(s, c, l, w, t) /\ Len(s) = 0 /\ 1..Len(s) = {}
  <1>1. s \in Seq(Widget) /\ Len(s) = 0 /\ 1..0 = {} /\ 0 <= MaxPages
    BY ReactorBoundAssumption
  <1>2. ControlsOK(s, c.next_id)
    BY <1>1 DEF ControlsOK
  <1>3. w \in [Ids -> MaybeUrls \cup {NoWeb}] /\ \A p \in Ids \ c.engine : w[p] = NoWeb
    OBVIOUS
  <1> QED BY <1>1, <1>2, <1>3 DEF Fits

(* resolve_restore_plan: the URLs of the session, or the start page.       *)
LEMMA PlannedOK ==
  ASSUME FileOK(disk)
  PROVE  Planned \in Seq(MaybeUrls) /\ Len(Planned) \in Nat \ {0} /\ Len(Planned) <= MaxPages
  <1>1. CASE disk.pages = <<>>
    <2>1. StartPage \in MaybeUrls /\ Planned = <<StartPage>> /\ MaxPages \in Nat \ {0}
      BY <1>1, ReactorUrlsAssumption, ReactorBoundAssumption DEF MaybeUrls, Planned
    <2>2. <<StartPage>> \in Seq(MaybeUrls) /\ Len(<<StartPage>>) = 1
      BY <2>1
    <2> QED BY <2>1, <2>2
  <1>2. CASE disk.pages # <<>>
    <2> DEFINE ps == disk.pages
               w == [i \in 1..Len(ps) |-> ps[i].url]
    <2>1. /\ ps \in Seq([page : Ids, url : MaybeUrls]) /\ Len(ps) \in Nat \ {0}
          /\ Len(ps) <= MaxPages
      BY <1>2, LenProperties, EmptySeq DEF FileOK
    <2>2. \A i \in 1..Len(ps) : ps[i].url \in MaybeUrls
      <3> HIDE DEF ps
      <3>1. \A i \in 1..Len(ps) : ps[i] \in [page : Ids, url : MaybeUrls]
        BY <2>1, ElementOfSeq
      <3> QED BY <3>1
    <2>3. Planned = w
      BY <1>2 DEF Planned
    <2> HIDE DEF ps
    <2>4. w \in Seq(MaybeUrls) /\ Len(w) = Len(ps)
      BY <2>1, <2>2
    <2> QED BY <2>1, <2>3, <2>4
  <1> QED BY <1>1, <1>2

LEMMA LaunchStep ==
  ASSUME IInv, Launch
  PROVE  IInv' /\ TabStep
  <1>1. /\ ~up /\ up' = TRUE /\ restoring' = TRUE /\ plan' = Planned
        /\ UNCHANGED <<last, web, due, view, late, slots, asked, pending, disk>>
    BY DEF Launch, window
  <1>2. PICK limit \in Limits : core' = New(limit)
    BY DEF Launch
  <1>3. /\ core.next_id = 0 /\ core.pages = <<>> /\ core.active = NoPage
        /\ slots = <<>> /\ late = {} /\ web = [p \in Ids |-> NoWeb] /\ ~restoring
    BY <1>1 DEF IInv, DownOK
  <1>4. limit \in Nat \cup {Unlimited} /\ MaxPages \in Nat
    BY ReactorLimitsAssumption, ReactorBoundAssumption
  <1>5. /\ Consistent(core') /\ Live(core') = {} /\ core'.pages = <<>> /\ Len(core'.pages) = 0
        /\ core'.active = NoPage /\ core'.next_id = 0 /\ core'.limit = limit
        /\ core'.loaded = {} /\ core'.engine = {}
    BY <1>2, <1>4, NewOK
  <1>6. CoreOK(core') /\ ActiveOK(core')
    BY <1>4, <1>5 DEF CoreOK, ActiveOK
  <1>7. Planned \in Seq(MaybeUrls) /\ Len(Planned) \in Nat /\ Len(Planned) <= MaxPages
    BY PlannedOK DEF IInv
  <1>8. Planned' = Planned
    BY <1>1 DEF Planned
  <1>9. PlanOK' /\ DownOK' /\ Saved'
    BY <1>1, <1>3, <1>5, <1>7 DEF PlanOK, DownOK, Saved, Runs
  <1>10. RestoreSoFar'
    <2>1. Len(core'.pages) = 0 /\ 1..0 = {}
      BY <1>5
    <2>2. \A i \in 1..Len(plan') : plan'[i] = Planned'[0 + i]
      BY <1>1, <1>7, <1>8
    <2>3. 0 + Len(plan') = Len(Planned')
      BY <1>1, <1>7, <1>8
    <2> QED BY <2>1, <2>2, <2>3 DEF RestoreSoFar
  <1>11. ProcessOK' /\ UrlsOK(last') /\ FileOK(disk')
    <2>1. pending' \subseteq 0 .. core'.next_id - 1
      BY <1>1, <1>3, <1>5 DEF IInv, ProcessOK
    <2> QED BY <1>1, <2>1 DEF IInv, ProcessOK
  <1>12. WindowOK'
    <2>1. Fits(slots', core', last', web', late')
      BY <1>1, <1>3, EmptyFits
    <2>2. view'.active \in Ids \cup {NoPage} /\ view'.listed \subseteq Ids /\ ~Runs'
      BY <1>1 DEF IInv, WindowOK, Runs
    <2> QED BY <2>1, <2>2 DEF WindowOK
  <1>13. T!Start
    BY <1>1, <1>3, <1>5 DEF T!Start
  <1> QED BY <1>6, <1>9, <1>10, <1>11, <1>12, <1>13 DEF IInv, TabStep, T!TabsNext

(* A page of a restore: a tab more, at the URL the plan has for it.        *)
LEMMA RestorePageStep ==
  ASSUME IInv, RestorePage
  PROVE  IInv' /\ TabStep
  <1> DEFINE id == core.next_id
             n == Len(core.pages)
             ps == core'.pages
  <1>1. /\ up /\ restoring /\ plan # <<>> /\ plan' = Tail(plan)
        /\ DoAddPage(core, {}, Head(plan)) /\ SaveSession
        /\ UNCHANGED <<up, restoring, due, view, asked, pending>>
    BY DEF RestorePage
  <1>2. /\ plan \in Seq(MaybeUrls) /\ Head(plan) \in MaybeUrls /\ Head(plan) = plan[1]
        /\ Tail(plan) \in Seq(MaybeUrls) /\ Len(Tail(plan)) = Len(plan) - 1
        /\ Len(plan) \in Nat \ {0}
        /\ \A i \in 1..Len(Tail(plan)) : Tail(plan)[i] = plan[i + 1]
    BY <1>1, HeadTailProperties, EmptySeq, LenProperties DEF IInv, PlanOK
  <1>3. /\ id + Len(plan) <= MaxPages /\ id \in Nat /\ MaxPages \in Nat /\ CoreOK(core)
        /\ core.pages \in Seq(Nat) /\ n \in Nat /\ UrlsOK(last)
        /\ slots = <<>> /\ late = {} /\ web = [p \in Ids |-> NoWeb]
    BY <1>1, WindowFacts, CoreFacts, ReactorBoundAssumption DEF IInv, PlanOK, DownOK
  <1>4. id < MaxPages /\ id \in Ids /\ id \notin Live(core)
    BY <1>2, <1>3, WindowFacts DEF Ids
  <1>5. /\ CoreOK(core') /\ ActiveOK(core') /\ UrlsOK(last')
        /\ Fits(slots', core', last', web', late')
        /\ ps = Append(core.pages, id) /\ Live(core') = Live(core) \cup {id}
        /\ core'.active = id /\ core'.next_id = id + 1
        /\ last' = [last EXCEPT ![id] = Head(plan)]
        /\ slots' = <<>> /\ late' = {} /\ web' = web
    BY <1>1, <1>2, <1>3, <1>4, DoAddPageOK
  <1>6. WindowOK'
    <2>1. view'.active \in Ids \cup {NoPage} /\ view'.listed \subseteq Ids /\ ~Runs'
      BY <1>1 DEF IInv, WindowOK, Runs
    <2> QED BY <1>5, <2>1 DEF WindowOK
  <1>7. disk' = disk /\ FileOK(disk')
    BY <1>1, <1>5, SavedOK DEF IInv, Fits
  <1>8. PlanOK'
    BY <1>1, <1>2, <1>3, <1>5 DEF PlanOK
  <1>9. DownOK' /\ Saved'
    BY <1>1, <1>3, <1>5 DEF DownOK, Saved, Runs
  <1>10. ProcessOK'
    <2>1. asked' \in 0..MaxAsked /\ pending' \subseteq 0 .. core'.next_id - 1
      <3>1. core.next_id <= core'.next_id
        BY <1>3, <1>5
      <3> QED BY <1>1, <1>5, <3>1, Unmoved
    <2> QED BY <1>1, <2>1 DEF IInv, ProcessOK
  <1>11. RestoreSoFar'
    <2>1. Planned' = Planned
      BY <1>7 DEF Planned
    <2>2. /\ n + Len(plan) = Len(Planned)
          /\ \A i \in 1..n : last[core.pages[i]] = Planned[i]
          /\ \A i \in 1..Len(plan) : plan[i] = Planned[n + i]
      BY <1>1 DEF IInv, RestoreSoFar
    <2>3. /\ Len(ps) = n + 1 /\ ps[n + 1] = id /\ \A i \in 1..n : ps[i] = core.pages[i]
      BY <1>3, <1>5, ElementsAppend
    <2>4. \A i \in 1..n : core.pages[i] \in Live(core) /\ core.pages[i] \in Ids
      BY <1>3, CoreFacts DEF Live, Elements
    <2>5. last'[id] = Planned[n + 1]
      <3>1. 1 \in 1..Len(plan) /\ last'[id] = plan[1]
        BY <1>2, <1>3, <1>4, <1>5 DEF UrlsOK
      <3> QED BY <2>2, <3>1
    <2>6. \A i \in 1..n : last'[core.pages[i]] = last[core.pages[i]]
      BY <1>3, <1>4, <1>5, <2>4 DEF UrlsOK
    <2>7. \A i \in 1..Len(ps) : last'[ps[i]] = Planned'[i]
      <3> SUFFICES ASSUME NEW i \in 1 .. n + 1 PROVE last'[ps[i]] = Planned[i]
        BY <2>1, <2>3
      <3>1. CASE i = n + 1
        BY <2>3, <2>5, <3>1
      <3>2. CASE i \in 1..n
        BY <2>2, <2>3, <2>6, <3>2
      <3> QED BY <1>3, <3>1, <3>2
    <2>8. Len(ps) + Len(plan') = Len(Planned')
      BY <1>1, <1>2, <1>3, <2>1, <2>2, <2>3
    <2>9. \A i \in 1..Len(plan') : plan'[i] = Planned'[Len(ps) + i]
      <3> SUFFICES ASSUME NEW i \in 1..Len(Tail(plan)) PROVE Tail(plan)[i] = Planned[(n + 1) + i]
        BY <1>1, <2>1, <2>3
      <3> DEFINE rest == Len(Tail(plan))
      <3>1. rest = Len(plan) - 1 /\ i \in 1..rest /\ n \in Nat /\ Len(plan) \in Nat
        BY <1>2, <1>3
      <3> HIDE DEF rest, n
      <3>2. i + 1 \in 1..Len(plan) /\ n + (i + 1) = (n + 1) + i
        BY <3>1
      <3> QED BY <1>2, <2>2, <3>2 DEF n
    <2>10. core'.active \in Live(core')
      BY <1>5
    <2> HIDE DEF n, ps
    <2> QED BY <2>7, <2>8, <2>9, <2>10 DEF RestoreSoFar, ps
  <1>12. T!OpenTab
    BY <1>1, <1>4, <1>5, Mapping DEF T!OpenTab, Live
  <1> QED BY <1>1, <1>5, <1>6, <1>7, <1>8, <1>9, <1>10, <1>11, <1>12 DEF IInv, TabStep, T!TabsNext

(* The end of a restore: the page at the active index comes to the front,  *)
(* if there is one, and the file is written, with all the plan's URLs.     *)
LEMMA EndRestoreStep ==
  ASSUME IInv, EndRestore
  PROVE  /\ IInv' /\ TabStep
         /\ [n \in 1..Len(disk'.pages) |-> disk'.pages[n].url] = Planned
  <1> DEFINE k == Len(core.pages)
             u == UrlsOf(web', last')
  <1>1. /\ up /\ restoring /\ plan = <<>> /\ restoring' = FALSE /\ due' = TRUE /\ SaveSession
        /\ core' = IF PlannedActive \in 1..Len(core.pages)
                   THEN Switched(core, core.pages[PlannedActive]) ELSE core
        /\ slots' = Reconciled(core', NoPage)
        /\ view' = [active |-> NoPage, listed |-> Live(core)]
        /\ UNCHANGED <<up, plan, last, web, late, asked, pending>>
    BY DEF EndRestore
  <1>2. /\ CoreOK(core) /\ ActiveOK(core) /\ UrlsOK(last) /\ Fits(slots, core, last, web, late)
        /\ web = [p \in Ids |-> NoWeb] /\ FileOK(disk) /\ k \in Nat
        /\ Live(core) \subseteq Ids /\ core.pages \in Seq(Nat)
    BY <1>1, WindowFacts, CoreFacts DEF IInv, DownOK
  <1>3. /\ k = Len(Planned) /\ \A i \in 1..k : last[core.pages[i]] = Planned[i]
        /\ core.active \in Live(core) /\ k # 0
        /\ Planned \in Seq(MaybeUrls)
    <2>1. /\ k + Len(plan) = Len(Planned) /\ \A i \in 1..k : last[core.pages[i]] = Planned[i]
          /\ k > 0 => core.active \in Live(core)
      BY <1>1 DEF IInv, RestoreSoFar
    <2>2. Len(plan) = 0
      BY <1>1
    <2>3. Planned \in Seq(MaybeUrls) /\ Len(Planned) \in Nat \ {0}
      BY <1>2, PlannedOK
    <2> QED BY <1>2, <2>1, <2>2, <2>3
  <1>4. /\ CoreOK(core') /\ ActiveOK(core') /\ Live(core') = Live(core)
        /\ core'.pages = core.pages /\ core'.active \in Live(core)
        /\ core'.next_id = core.next_id /\ core.engine \subseteq core'.engine
    <2>1. CASE PlannedActive \in 1..Len(core.pages)
      <3>1. core.pages[PlannedActive] \in Live(core)
        BY <2>1 DEF Live, Elements
      <3>2. core.pages[PlannedActive] \in Ids
        BY <1>2, <3>1
      <3>3. core' = Switched(core, core.pages[PlannedActive])
        BY <1>1, <2>1
      <3> QED BY <1>2, <3>1, <3>2, <3>3, SwitchedOK
    <2>2. CASE PlannedActive \notin 1..Len(core.pages)
      BY <1>1, <1>2, <1>3, <2>2
    <2> QED BY <2>1, <2>2
  <1>5. Fits(slots', core', last', web', late')
    <2>1. Fits(slots, core', last, web, late)
      BY <1>2, <1>4, MoreEngines
    <2>2. Fits(slots', core', last, web, late)
      BY <1>1, <1>2, <1>4, <2>1, ReconciledOK
    <2> QED BY <1>1, <2>2
  <1>6. FileOK(disk') /\ FileTabs(disk') = TabsOf(core') /\ UrlsOK(last')
    BY <1>1, <1>2, <1>4, <1>5, SavedOK DEF Fits
  <1>7. Anchored(core', view')
    <2>1. core'.pages # <<>>
      <3>1. Len(<<>>) = 0
        OBVIOUS
      <3> QED BY <1>3, <1>4, <3>1
    <2> QED BY <1>1, <1>2, <1>4, <2>1 DEF Anchored
  <1>8. WindowOK'
    BY <1>1, <1>2, <1>5, <1>7 DEF WindowOK
  <1>9. ProcessOK'
    BY <1>1, <1>4 DEF IInv, ProcessOK
  <1>10. PlanOK' /\ DownOK' /\ Saved' /\ RestoreSoFar'
    BY <1>1, <1>6 DEF IInv, PlanOK, DownOK, Saved, RestoreSoFar
  <1>11. T!Finish
    BY <1>1, <1>4, Mapping DEF T!Finish, Live
  <1>12. FileTabs(disk') = T!Listed'
    BY <1>6, Mapping
  <1>13. [n \in 1..Len(disk'.pages) |-> disk'.pages[n].url] = Planned
    <2>1. \A p \in Ids : u[p] = last[p]
      BY <1>1, <1>2 DEF UrlsOf
    <2>2. disk' = SessionOf(core', u) /\ UrlsOK(u)
      BY <1>1, <1>4, <1>5, <1>6, SessionIs, UrlTyped DEF SaveSession, Fits
    <2> HIDE DEF u
    <2>3. Len(disk'.pages) = k /\ \A i \in 1..k : disk'.pages[i].url = u[core.pages[i]]
      BY <1>4, <2>2, SessionOK
    <2>4. \A i \in 1..k : core.pages[i] \in Ids
      BY <1>2 DEF Live, Elements
    <2>5. \A i \in 1..k : disk'.pages[i].url = Planned[i]
      BY <1>3, <2>1, <2>3, <2>4
    <2> HIDE DEF k
    <2>6. Planned = [i \in 1..k |-> Planned[i]]
      BY <1>3
    <2> QED BY <2>3, <2>5, <2>6
  <1> QED BY <1>1, <1>4, <1>6, <1>8, <1>9, <1>10, <1>11, <1>12, <1>13
          DEF IInv, TabStep, T!TabsNext, FileTabs

(* However a process ends, it leaves the file of the tabs that were open,  *)
(* or the one a restore was at work on.                                    *)
LEMMA GoneStep ==
  ASSUME IInv, up, Gone, FileOK(disk'), FileTabs(disk') = FileTabs(disk)
  PROVE  IInv' /\ TabStep
  <1>1. /\ up' = FALSE /\ restoring' = FALSE /\ due' = FALSE /\ plan' = <<>> /\ slots' = <<>>
        /\ core' = New(core.limit) /\ last' = [p \in Ids |-> NoUrl]
        /\ web' = [p \in Ids |-> NoWeb] /\ view' = [active |-> NoPage, listed |-> {}]
        /\ late' = {} /\ asked' = 0 /\ pending' = {}
    BY DEF Gone
  <1>2. /\ core.limit \in Nat \cup {Unlimited} /\ core.limit \in Limits
        /\ MaxPages \in Nat /\ MaxAsked \in Nat
    BY ReactorLimitsAssumption, ReactorBoundAssumption DEF IInv, CoreOK
  <1>3. /\ Consistent(core') /\ core'.limit = core.limit /\ core'.next_id = 0
        /\ core'.pages = <<>> /\ Len(core'.pages) = 0 /\ core'.active = NoPage
        /\ core'.loaded = {} /\ core'.engine = {} /\ Live(core') = {}
    BY <1>1, <1>2, NewOK
  <1>4. CoreOK(core') /\ ActiveOK(core')
    BY <1>2, <1>3 DEF CoreOK, ActiveOK
  <1>5. UrlsOK(last')
    BY <1>1 DEF UrlsOK, MaybeUrls
  <1>6. PlanOK'
    <2>1. <<>> \in Seq(MaybeUrls)
      OBVIOUS
    <2> QED BY <1>1, <2>1 DEF PlanOK
  <1>7. ProcessOK'
    <2>1. 0 \in 0..MaxAsked
      BY <1>2
    <2> QED BY <1>1, <2>1 DEF ProcessOK
  <1>10. DownOK' /\ Saved' /\ RestoreSoFar'
    BY <1>1, <1>3 DEF DownOK, Saved, RestoreSoFar, Runs
  <1>8. WindowOK'
    <2>1. Fits(slots', core', last', web', late')
      BY <1>1, EmptyFits
    <2>2. ~Runs' /\ view'.active \in Ids \cup {NoPage} /\ view'.listed \subseteq Ids
      BY <1>1 DEF Runs
    <2> QED BY <2>1, <2>2 DEF WindowOK
  <1>9. T!Die
    BY <1>1, <1>3 DEF T!Die, FileTabs
  <1> QED BY <1>4, <1>5, <1>6, <1>7, <1>8, <1>9, <1>10 DEF IInv, TabStep, T!TabsNext

(* Ctrl+Q: what it saves is in the file already; and the process killed.   *)
LEMMA QuitStep ==
  ASSUME IInv, Quit \/ Kill
  PROVE  IInv' /\ TabStep
  <1>1. CASE Quit
    <2>1. Runs /\ Gone /\ disk' = SessionOf(core, UrlsOf(web, last))
      BY <1>1, WindowFacts, SessionIs DEF Quit
    <2>2. CoreOK(core) /\ UrlsOK(UrlsOf(web, last))
      BY WindowFacts, UrlTyped DEF Fits
    <2>3. FileOK(disk') /\ FileTabs(disk') = TabsOf(core)
      BY <2>1, <2>2, SessionOK
    <2> QED BY <2>1, <2>3, GoneStep DEF IInv, Saved, Runs
  <1>2. CASE Kill
    <2>1. FileOK(disk') /\ FileTabs(disk') = FileTabs(disk)
      BY <1>2 DEF Kill, IInv
    <2> QED BY <1>2, <2>1, GoneStep DEF Kill
  <1> QED BY <1>1, <1>2

(* The state before the first launch.                                      *)
LEMMA InitOK ==
  ASSUME Init
  PROVE  IInv /\ T!TabsInit
  <1>1. PICK limit \in Limits : core = New(limit)
    BY DEF Init
  <1>2. limit \in Nat \cup {Unlimited} /\ MaxPages \in Nat /\ MaxAsked \in Nat
    BY ReactorLimitsAssumption, ReactorBoundAssumption
  <1>3. /\ Consistent(core) /\ core.limit = limit /\ core.next_id = 0
        /\ core.pages = <<>> /\ Len(core.pages) = 0 /\ core.active = NoPage
        /\ core.loaded = {} /\ core.engine = {} /\ Live(core) = {}
    BY <1>1, <1>2, NewOK
  <1>4. <<>> \in Seq(MaybeUrls) /\ <<>> \in Seq([page : Ids, url : MaybeUrls]) /\ Len(<<>>) = 0
    OBVIOUS
  <1>5. /\ disk.pages = <<>> /\ disk.active = 0 /\ ~up /\ ~restoring /\ slots = <<>>
        /\ plan = <<>> /\ late = {} /\ pending = {} /\ asked = 0 /\ due = FALSE
        /\ last = [p \in Ids |-> NoUrl] /\ web = [p \in Ids |-> NoWeb]
        /\ view = [active |-> NoPage, listed |-> {}]
    BY DEF Init
  <1>6. FileOK(disk)
    BY <1>2, <1>4, <1>5 DEF FileOK
  <1>7. CoreOK(core) /\ ActiveOK(core) /\ UrlsOK(last)
    BY <1>2, <1>3, <1>5 DEF CoreOK, ActiveOK, UrlsOK, MaybeUrls
  <1>8. ProcessOK
    <2>1. 0 \in 0..MaxAsked
      BY <1>2
    <2>2. up \in BOOLEAN /\ restoring \in BOOLEAN /\ due \in BOOLEAN
      BY Zenon DEF Init
    <2> QED BY <1>5, <2>1, <2>2 DEF ProcessOK
  <1>9. PlanOK /\ DownOK /\ Saved /\ RestoreSoFar
    BY <1>3, <1>4, <1>5 DEF PlanOK, DownOK, Saved, RestoreSoFar, Runs
  <1>10. WindowOK
    <2>1. Fits(slots, core, last, web, late)
      BY <1>5, EmptyFits
    <2>2. ~Runs /\ view.active \in Ids \cup {NoPage} /\ view.listed \subseteq Ids
      BY <1>5 DEF Runs
    <2> QED BY <2>1, <2>2 DEF WindowOK
  <1>11. FileTabs(disk) = [tabs |-> <<>>, front |-> 0]
    <2>1. [i \in 1..Len(disk.pages) |-> disk.pages[i].page] = <<>>
      BY <1>4, <1>5
    <2> QED BY <1>5, <2>1 DEF FileTabs
  <1>12. T!TabsInit
    BY <1>3, <1>5, <1>11 DEF T!TabsInit, FileTabs, Init
  <1> QED BY <1>6, <1>7, <1>8, <1>9, <1>10, <1>12 DEF IInv

(* Every step keeps the invariant, and is a step of Tabs or none.          *)
LEMMA StepOK ==
  ASSUME IInv, [Next]_vars
  PROVE  IInv' /\ TabStep
  <1>1. CASE \E u \in Urls : AddPageAndSwitch(u)
    BY <1>1, AddPageStep
  <1>2. CASE (\E id \in Ids : SwitchTo(id)) \/ NextPage \/ PreviousPage
    BY <1>2, SwitchToStep, KeyStep
  <1>3. CASE ClosePage
    BY <1>3, ClosePageStep
  <1>4. CASE \E limit \in Limits : SaveSettings(limit)
    BY <1>4, SaveSettingsStep
  <1>5. CASE Render \/ \E t \in late : LateTick(t)
    BY <1>5, RenderStep, LateTickStep
  <1>6. CASE \E i \in 1..MaxPages : Native(i)
    BY <1>6, OnReadyStep, ReadyTickStep, SourceChangedStep, NavigationCompletedStep,
       TitleChangedStep, NewWindowRequestedStep DEF Native
  <1>7. CASE NewWindowTick
    BY <1>7, NewWindowTickStep
  <1>8. CASE Launch \/ RestorePage \/ EndRestore
    BY <1>8, LaunchStep, RestorePageStep, EndRestoreStep
  <1>9. CASE Quit \/ Kill
    BY <1>9, QuitStep
  <1>10. CASE UNCHANGED vars
    <2>1. UNCHANGED T!tabsVars
      BY <1>10 DEF vars, T!tabsVars
    <2>2. /\ up' = up /\ core' = core /\ last' = last /\ web' = web /\ due' = due
          /\ view' = view /\ slots' = slots /\ late' = late /\ asked' = asked
          /\ pending' = pending /\ restoring' = restoring /\ plan' = plan /\ disk' = disk
      BY <1>10 DEF vars
    <2>3. ProcessOK' /\ CoreOK(core)' /\ ActiveOK(core)' /\ UrlsOK(last)' /\ FileOK(disk)'
      BY <2>2 DEF IInv, ProcessOK
    <2>4. PlanOK' /\ DownOK'
      BY <2>2 DEF IInv, PlanOK, DownOK
    <2>5. Saved' /\ RestoreSoFar'
      BY <2>2 DEF IInv, Saved, RestoreSoFar, Planned, Runs
    <2>6. /\ Fits(slots, core, last, web, late)' /\ CaughtUp(slots, core)' = CaughtUp(slots, core)
          /\ Anchored(core, view)' = Anchored(core, view) /\ Runs' = Runs
      BY <2>2 DEF IInv, WindowOK, Runs
    <2>7. WindowOK'
      BY <2>2, <2>6 DEF IInv, WindowOK
    <2>8. IInv'
      BY <2>3, <2>4, <2>5, <2>7 DEF IInv
    <2> QED BY <2>1, <2>8 DEF TabStep
  <1> QED BY <1>1, <1>2, <1>3, <1>4, <1>5, <1>6, <1>7, <1>8, <1>9, <1>10 DEF Next

-----------------------------------------------------------------------------
(* A page's URL.                                                           *)

(* A step in a running process leaves the last_url of a page that was open *)
(* and loses its engine as it is: only reflect writes one there, and it    *)
(* leaves the engines alone, and do_add_page that of a page it opens.      *)
LEMMA LastKept ==
  ASSUME IInv, Next, up, up', NEW p \in Live(core), p \in core.engine, p \notin core'.engine
  PROVE  last'[p] = last[p]
  <1>1. p \in Ids /\ p # core.next_id /\ UrlsOK(last)
    BY WindowFacts, CoreFacts
  <1>2. ASSUME NEW c, NEW closed, NEW u, DoAddPage(c, closed, u), c.next_id = core.next_id
        PROVE  last'[p] = last[p]
    BY <1>1, <1>2 DEF DoAddPage, UrlsOK
  <1>3. CASE \/ \E u \in Urls : AddPageAndSwitch(u)
             \/ RestorePage
    BY <1>2, <1>3 DEF AddPageAndSwitch, RestorePage
  <1>4. CASE NewWindowTick
    BY <1>1, <1>4 DEF NewWindowTick, UrlsOK
  <1>5. CASE ClosePage
    <2>1. Remove(core, view.active).next_id = core.next_id
      BY WindowFacts, RemovedOK
    <2> QED BY <1>2, <1>5, <2>1 DEF ClosePage, Replacement
  <1>6. CASE UNCHANGED last
    BY <1>6
  <1>7. CASE core' = core
    BY <1>7
  <1>8. CASE (\E id \in Ids : SwitchTo(id)) \/ NextPage \/ PreviousPage \/ EndRestore
    BY <1>6, <1>8 DEF SwitchTo, NextPage, PreviousPage, EndRestore
  <1>9. CASE (\E limit \in Limits : SaveSettings(limit)) \/ Render \/ Launch
    BY <1>6, <1>9 DEF SaveSettings, Render, Launch
  <1>10. CASE (\E i \in 1..MaxPages : Native(i)) \/ \E t \in late : LateTick(t)
    BY <1>7, <1>10 DEF Native, OnReady, ReadyTick, SourceChanged, NavigationCompleted,
       TitleChanged, NewWindowRequested, LateTick
  <1>11. CASE Quit \/ Kill
    BY <1>11 DEF Quit, Kill, Gone
  <1> QED BY <1>3, <1>4, <1>5, <1>8, <1>9, <1>10, <1>11 DEF Next

(* A page that loses its engine when its navigation is complete: its URL   *)
(* was in last_url too, and is there now.                                  *)
LEMMA UnloadedUrl ==
  ASSUME IInv, IInv', Next, up, up', NEW i \in 1..Len(slots),
         NEW p \in (core.engine \cap Live(core')) \ core'.engine, slots[i].page = p, slots[i].settled
  PROVE  CurrentUrl(p)' = slots[i].source
  <1>1. p \in core.engine /\ p \in Live(core) /\ p \in Ids /\ last[p] = slots[i].source
    BY PlaceFacts, WindowFacts
  <1>2. last'[p] = last[p]
    BY <1>1, LastKept
  <1>3. web'[p] = NoWeb
    BY <1>1 DEF IInv, WindowOK, Fits
  <1> QED BY <1>1, <1>2, <1>3 DEF CurrentUrl

-----------------------------------------------------------------------------
(* The invariant holds in every behaviour.                                 *)
LEMMA ReactorInvariant == Spec => []IInv
  <1>1. Init => IInv
    BY InitOK
  <1>2. IInv /\ [Next]_vars => IInv'
    BY StepOK
  <1> QED BY <1>1, <1>2, PTL DEF Spec

(* Every variable of the front end and of its session file has its type,   *)
(* in every behaviour: a page is in the Vec once and under an id of its    *)
(* own, and there are never more controls than pages a process can open.   *)
THEOREM ReactorTypesCorrect == Spec => []TypeOK
  <1>1. IInv => TypeOK
    <2> SUFFICES ASSUME IInv PROVE TypeOK
      OBVIOUS
    <2>1. CoreTypeOK(core) /\ IdsUnique(core) /\ AgesTotal(core)
      BY DEF IInv, CoreOK, Consistent
    <2>2. web \in [Ids -> Urls \cup {NoUrl, Blank, NoWeb}]
      BY DEF IInv, WindowOK, Fits, MaybeUrls
    <2> QED BY <2>1, <2>2 DEF IInv, TypeOK, CoreOK, ProcessOK, UrlsOK, ControlsOK, FileOK,
            PlanOK, WindowOK, Fits, MaybeUrls
  <1> QED BY <1>1, ReactorInvariant, PTL

(* However evictions, switches, also back to a page just evicted, popups   *)
(* and callbacks come between two renders, and although the reconciler may *)
(* keep a control for another page than its own: what a render leaves is   *)
(* as many controls as loaded pages, and a control that a page knows       *)
(* belongs to a loaded page and is visible just when that page is in front *)
(* (page_elements, set_visible).                                           *)
THEOREM ReactorControlsFollow == Spec => []ControlsFollowPages
  <1>1. IInv => ControlsFollowPages
    <2> SUFFICES ASSUME IInv, Runs, ~due
                 PROVE  /\ Len(slots) = Len(Loaded(core))
                        /\ \A n \in 1..Len(slots) :
                             slots[n].held => /\ slots[n].page \in core.engine
                                              /\ slots[n].shown <=> slots[n].page = core.active
                        /\ core.active \in Live(core) => core.active \in core.engine
      BY DEF ControlsFollowPages
    <2>1. CaughtUp(slots, core) /\ Fits(slots, core, last, web, late) /\ ActiveOK(core)
      BY DEF IInv, WindowOK
    <2> QED BY <2>1 DEF CaughtUp, Fits, ActiveOK
  <1> QED BY <1>1, ReactorInvariant, PTL

(* The window always has a page, so that no render takes it for a start    *)
(* and restores the session into it: whatever closures of an older render  *)
(* close_page and switch_to are called from.                               *)
THEOREM ReactorNeverEmpty == Spec => []NeverEmpty
  <1>1. IInv => NeverEmpty
    BY DEF IInv, WindowOK, Anchored, NeverEmpty
  <1> QED BY <1>1, ReactorInvariant, PTL

(* The handlers implement Tabs: at whatever moment the process dies, the   *)
(* session file names the open tabs in order with the one in front, or     *)
(* those a restore was at work on; and closing the tab in front brings the *)
(* first of the others there (save_session, close_page, restoring).        *)
THEOREM ReactorImplementsTabs == Spec => RefinesTabs
  <1>1. Init => T!TabsInit
    BY InitOK
  <1>2. IInv /\ [Next]_vars => [T!TabsNext]_(T!tabsVars)
    BY StepOK DEF TabStep
  <1> QED BY <1>1, <1>2, ReactorInvariant, PTL DEF Spec, RefinesTabs, T!TabsSpec

(* A page keeps its URL: when it is unloaded, whichever control completed  *)
(* its last navigation and whether that control has kept its place or not; *)
(* and in a restore, however many of the pages lose their engines in it    *)
(* (reflect, do_add_page, current_url).                                    *)
THEOREM ReactorKeepsUrls == Spec => UrlsAreKept
  <1> DEFINE Keeps ==
        up /\ up' =>
          /\ \A i \in 1..Len(slots), p \in (core.engine \cap Live(core')) \ core'.engine :
               slots[i].page = p /\ slots[i].settled => CurrentUrl(p)' = slots[i].source
          /\ restoring /\ ~restoring' =>
               [n \in 1..Len(disk'.pages) |-> disk'.pages[n].url] = Planned
  <1>1. IInv /\ IInv' /\ [Next]_vars => [Keeps]_vars
    <2> SUFFICES ASSUME IInv, IInv', Next, up, up'
                 PROVE  Keeps
      OBVIOUS
    <2>1. ASSUME NEW i \in 1..Len(slots),
                 NEW p \in (core.engine \cap Live(core')) \ core'.engine,
                 slots[i].page = p, slots[i].settled
          PROVE  CurrentUrl(p)' = slots[i].source
      BY <2>1, UnloadedUrl
    <2>2. ASSUME restoring, ~restoring'
          PROVE  [n \in 1..Len(disk'.pages) |-> disk'.pages[n].url] = Planned
      <3>1. ~Runs /\ ~(Quit \/ Kill)
        BY <2>2 DEF Runs, Quit, Kill, Gone
      <3>2. EndRestore
        BY <2>2, <3>1 DEF Next, AddPageAndSwitch, SwitchTo, NextPage, PreviousPage, ClosePage,
           SaveSettings, Render, Native, OnReady, ReadyTick, SourceChanged, NavigationCompleted,
           TitleChanged, NewWindowRequested, LateTick, NewWindowTick, Launch, RestorePage, process
      <3> QED BY <3>2, EndRestoreStep
    <2> QED BY <2>1, <2>2
  <1> QED BY <1>1, ReactorInvariant, PTL DEF Spec, UrlsAreKept

-----------------------------------------------------------------------------
(* The overlays of the Windows front end (module ReactorOverlays), with    *)
(* state of their own.                                                     *)

CONSTANTS
  Visited, NoText, Engines, DraftLimits, Actions, NoAction, Chords, MaxUnseen

VARIABLES
  pages, active, nextId, url, settings, bindings, ui, shown, enter, renderDue

Overlays == INSTANCE ReactorOverlays WITH Limits <- DraftLimits, due <- renderDue

(* What a render captured are ids that were given and URLs.                *)
Captured ==
  /\ shown.pages \in Seq(Overlays!Ids) /\ shown.url \in [Overlays!Ids -> Urls]
  /\ shown.start \in Urls

OverlaysInv == Overlays!TypeOK /\ Captured /\ Overlays!RenderIsDue

(* The pages, one by one.                                                  *)
PagesOK ==
  /\ pages \in Seq(Overlays!Ids) /\ Overlays!IsInjective(pages)
  /\ active \in Overlays!Ids /\ nextId \in 1..MaxPages
  /\ \A p \in Overlays!Range(pages) \cup {active} : p < nextId
  /\ url \in [Overlays!Ids -> Urls]

ClosesStep == \A p \in Overlays!Range(pages) : p \notin Overlays!Range(pages') => p = shown.active
OverlaysGood == OverlaysInv' /\ ClosesStep

LEMMA RangeOf ==
  ASSUME NEW X, NEW s \in Seq(X)
  PROVE  /\ DOMAIN s = 1..Len(s) /\ Len(s) \in Nat
         /\ \A x : x \in Overlays!Range(s) <=> \E i \in 1..Len(s) : s[i] = x
         /\ \A x \in Overlays!Range(s) : x \in X
         /\ Overlays!IsInjective(s) <=> \A i, j \in 1..Len(s) : s[i] = s[j] => i = j
  <1>1. DOMAIN s = 1..Len(s) /\ Len(s) \in Nat /\ \A i \in 1..Len(s) : s[i] \in X
    BY LenProperties, ElementOfSeq
  <1>2. \A x : x \in Overlays!Range(s) <=> \E i \in 1..Len(s) : s[i] = x
    BY <1>1 DEF Overlays!Range
  <1> QED BY <1>1, <1>2 DEF Overlays!IsInjective

LEMMA OverlaysFilter ==
  ASSUME NEW X, NEW s \in Seq(X), NEW S
  PROVE  LET t == Overlays!Filter(s, S)
         IN /\ t \in Seq(X)
            /\ \A x : x \in Overlays!Range(t) <=> x \in Overlays!Range(s) /\ x \in S
            /\ Overlays!IsInjective(s) => Overlays!IsInjective(t)
            /\ t # <<>> => t[1] \in Overlays!Range(t)
  <1> DEFINE t == Filter(s, S)
  <1>1. Overlays!Filter(s, S) = t
    BY DEF Overlays!Filter, Overlays!EntriesAt, Overlays!Places, Overlays!UpTo, Overlays!Cardinality,
           Filter, EntriesAt, Places, UpTo, Cardinality
  <1>2. /\ t \in Seq(X) /\ Len(t) \in Nat
        /\ \A n \in 1..Len(t) : \E i \in 1..Len(s) : t[n] = s[i] /\ s[i] \in S
        /\ \A i \in 1..Len(s) : s[i] \in S => \E n \in 1..Len(t) : t[n] = s[i]
        /\ (\A i, j \in 1..Len(s) : s[i] = s[j] => i = j) =>
             \A m, n \in 1..Len(t) : t[m] = t[n] => m = n
    BY FilterOK
  <1> HIDE DEF t
  <1>3. \A x : x \in Overlays!Range(s) <=> \E i \in 1..Len(s) : s[i] = x
    BY RangeOf
  <1>4. \A x : x \in Overlays!Range(t) <=> \E n \in 1..Len(t) : t[n] = x
    BY <1>2, RangeOf
  <1>5. ASSUME NEW x \in Overlays!Range(t) PROVE x \in Overlays!Range(s) /\ x \in S
    <2>1. PICK n \in 1..Len(t) : t[n] = x
      BY <1>4
    <2>2. PICK i \in 1..Len(s) : t[n] = s[i] /\ s[i] \in S
      BY <1>2
    <2> QED BY <1>3, <2>1, <2>2
  <1>6. ASSUME NEW x \in Overlays!Range(s), x \in S PROVE x \in Overlays!Range(t)
    <2>1. PICK i \in 1..Len(s) : s[i] = x
      BY <1>3
    <2>2. PICK n \in 1..Len(t) : t[n] = s[i]
      BY <1>2, <1>6, <2>1
    <2> QED BY <1>4, <2>1, <2>2
  <1>7. Overlays!IsInjective(s) => Overlays!IsInjective(t)
    BY <1>2, RangeOf
  <1>8. t # <<>> => t[1] \in Overlays!Range(t)
    <2>1. t # <<>> => 1 \in 1..Len(t)
      BY <1>2
    <2> QED BY <1>4, <2>1
  <1> QED BY <1>1, <1>2, <1>5, <1>6, <1>7, <1>8

LEMMA OverlaysAppend ==
  ASSUME NEW X, NEW s \in Seq(X), NEW e \in X
  PROVE  LET t == Append(s, e)
         IN /\ t \in Seq(X)
            /\ \A x : x \in Overlays!Range(t) <=> x \in Overlays!Range(s) \/ x = e
            /\ Overlays!IsInjective(s) /\ e \notin Overlays!Range(s) => Overlays!IsInjective(t)
  <1> DEFINE t == Append(s, e)
  <1>1. /\ t \in Seq(X) /\ Len(t) = Len(s) + 1 /\ Len(s) \in Nat
        /\ \A i \in 1..Len(s) : t[i] = s[i]
        /\ t[Len(s) + 1] = e
    BY AppendProperties, LenProperties
  <1> HIDE DEF t
  <1>2. \A x : x \in Overlays!Range(s) <=> \E i \in 1..Len(s) : s[i] = x
    BY RangeOf
  <1>3. \A x : x \in Overlays!Range(t) <=> \E n \in 1..Len(t) : t[n] = x
    BY <1>1, RangeOf
  <1>4. \A n \in 1..Len(t) : n \in 1..Len(s) \/ n = Len(s) + 1
    BY <1>1
  <1>5. \A n \in 1..Len(s) : n \in 1..Len(t)
    BY <1>1
  <1>6. Len(s) + 1 \in 1..Len(t)
    BY <1>1
  <1>7. \A x : x \in Overlays!Range(t) <=> x \in Overlays!Range(s) \/ x = e
    BY <1>1, <1>2, <1>3, <1>4, <1>5, <1>6
  <1>8. ASSUME Overlays!IsInjective(s), e \notin Overlays!Range(s) PROVE Overlays!IsInjective(t)
    <2>1. \A i, j \in 1..Len(s) : s[i] = s[j] => i = j
      BY <1>8, RangeOf
    <2>2. \A i, j \in 1..Len(t) : t[i] = t[j] => i = j
      BY <1>1, <1>2, <1>4, <1>8, <2>1
    <2> QED BY <1>1, <2>2, RangeOf
  <1> QED BY <1>1, <1>7, <1>8 DEF t

(* What the invariant says of the types.                                   *)
LEMMA OverlaysTypes ==
  ASSUME Overlays!OverlaysAssumption, OverlaysInv
  PROVE  /\ PagesOK /\ MaxPages \in Nat \ {0} /\ MaxUnseen \in Nat \ {0}
         /\ Overlays!Ids = 0 .. MaxPages - 1
         /\ settings \in Overlays!Settings /\ bindings \in [Actions -> SUBSET Chords]
         /\ ui \in Overlays!UIs /\ shown.ui \in Overlays!UIs
         /\ shown.ui.overlay \in Overlays!Overlays /\ shown.ui.query \in Urls \cup {NoText}
         /\ shown.ui.drafts \in Overlays!Drafts
         /\ ui.drafts \in Overlays!Drafts /\ ui.query \in Urls \cup {NoText}
         /\ Overlays!Range(shown.pages) \subseteq 0 .. nextId - 1
         /\ shown.pages \in Seq(Overlays!Ids) /\ shown.url \in [Overlays!Ids -> Urls]
         /\ shown.start \in Urls /\ settings.start \in Urls
         /\ enter \in Urls \cup {NoText} /\ renderDue \in 0 .. MaxUnseen + 1
         /\ \A p \in Overlays!Range(pages) : p \in Overlays!Ids
  <1>1. ui \in Overlays!UIs /\ shown.ui \in Overlays!UIs /\ settings \in Overlays!Settings
    BY DEF OverlaysInv, Overlays!TypeOK
  <1>2. \A v \in Overlays!UIs : /\ v.overlay \in Overlays!Overlays
                               /\ v.query \in Urls \cup {NoText} /\ v.drafts \in Overlays!Drafts
    BY DEF Overlays!UIs, Overlays!Texts
  <1>3. settings.start \in Urls
    BY <1>1 DEF Overlays!Settings
  <1>4. pages \in Seq(Overlays!Ids)
    BY DEF OverlaysInv, Overlays!TypeOK
  <1>5. \A p \in Overlays!Range(pages) : p \in Overlays!Ids
    BY <1>4, RangeOf
  <1> QED BY <1>1, <1>2, <1>3, <1>5
          DEF OverlaysInv, Overlays!TypeOK, Captured, PagesOK, Overlays!OverlaysAssumption,
              Overlays!Ids, Overlays!Texts

(* A handler that keeps the types makes a render due, or nothing is to be  *)
(* told.                                                                   *)
LEMMA HandlerGood ==
  ASSUME Overlays!OverlaysAssumption, OverlaysInv, UNCHANGED <<shown, enter>>,
         PagesOK', nextId' >= nextId,
         settings' \in Overlays!Settings, bindings' \in [Actions -> SUBSET Chords],
         ui' \in Overlays!UIs, renderDue <= MaxUnseen,
         \/ renderDue' = renderDue + 1
         \/ renderDue' = 0 /\ renderDue = 0 /\ Overlays!Told(Overlays!View)' = Overlays!Told(Overlays!View),
         ClosesStep
  PROVE  OverlaysGood
  <1> USE OverlaysTypes
  <1>1. renderDue' \in 0 .. MaxUnseen + 1 /\ (renderDue' = 0 => renderDue = 0 /\ Overlays!Told(Overlays!View)' = Overlays!Told(Overlays!View))
    OBVIOUS
  <1>2. nextId \in Nat /\ nextId' \in Nat
    BY DEF PagesOK
  <1>3. Overlays!Range(shown'.pages) \subseteq 0 .. nextId' - 1
    BY <1>2
  <1>4. Overlays!TypeOK'
    BY <1>1, <1>3 DEF Overlays!TypeOK, PagesOK, Overlays!Texts
  <1>5. Captured'
    BY DEF Captured
  <1>6. Overlays!RenderIsDue'
    <2>1. renderDue = 0 => Overlays!Told(shown) = Overlays!Told(Overlays!View)
      BY DEF OverlaysInv, Overlays!RenderIsDue
    <2>2. Overlays!Told(shown)' = Overlays!Told(shown)
      BY DEF Overlays!Told
    <2>3. enter # NoText => shown.ui.overlay = "switcher" /\ shown.ui.query = enter
      BY DEF OverlaysInv, Overlays!RenderIsDue
    <2> QED BY <1>1, <2>1, <2>2, <2>3 DEF Overlays!RenderIsDue
  <1> QED BY <1>4, <1>5, <1>6 DEF OverlaysGood, OverlaysInv

(* A handler of the overlays' own state, dispatched.                       *)
LEMMA SetsGood ==
  ASSUME Overlays!OverlaysAssumption, OverlaysInv, UNCHANGED <<shown, enter>>,
         UNCHANGED <<pages, active, nextId, url>>, UNCHANGED <<settings, bindings>>,
         NEW new \in Overlays!UIs, Overlays!Sets(new), renderDue <= MaxUnseen
  PROVE  OverlaysGood
  <1> USE OverlaysTypes
  <1>1. PagesOK' /\ nextId' >= nextId
    BY DEF PagesOK
  <1>2. ui' = new /\ renderDue' = IF new # ui \/ renderDue > 0 THEN renderDue + 1 ELSE 0
    BY DEF Overlays!Sets, Overlays!Makes
  <1>3. \/ renderDue' = renderDue + 1
        \/ renderDue' = 0 /\ renderDue = 0 /\ Overlays!Told(Overlays!View)' = Overlays!Told(Overlays!View)
    <2>1. CASE new # ui \/ renderDue > 0
      BY <1>2, <2>1
    <2>2. CASE ~(new # ui \/ renderDue > 0)
      <3>1. renderDue = 0 /\ renderDue' = 0 /\ ui' = ui
        BY <1>2, <2>2
      <3> QED BY <3>1 DEF Overlays!Told, Overlays!View
    <2> QED BY <2>1, <2>2
  <1>4. ClosesStep
    BY DEF ClosesStep, Overlays!Range
  <1> QED BY <1>1, <1>2, <1>3, <1>4, HandlerGood

(* switch_to, in pages without some of those there were.                   *)
LEMMA SwitchToGood ==
  ASSUME Overlays!OverlaysAssumption, OverlaysInv, UNCHANGED <<shown, enter>>,
         UNCHANGED <<settings, bindings>>, renderDue <= MaxUnseen,
         NEW ps \in Seq(Overlays!Ids), Overlays!IsInjective(ps),
         \A p \in Overlays!Range(ps) : p \in Overlays!Range(pages),
         \A p \in Overlays!Range(pages) : p \notin Overlays!Range(ps) => p = shown.active,
         NEW id \in Overlays!Ids, id < nextId, Overlays!SwitchTo(ps, id)
  PROVE  OverlaysGood
  <1> USE OverlaysTypes
  <1>1. /\ pages' = ps /\ active' = id /\ ui' = Overlays!Without /\ UNCHANGED <<nextId, url>>
        /\ renderDue' = renderDue + 1
    BY DEF Overlays!SwitchTo, Overlays!Bump, Overlays!Makes
  <1>2. PagesOK' /\ nextId' >= nextId
    BY <1>1 DEF PagesOK
  <1>3. ui' \in Overlays!UIs
    BY <1>1 DEF Overlays!Without, Overlays!UIs, Overlays!Overlays
  <1>4. ClosesStep
    BY <1>1 DEF ClosesStep
  <1> QED BY <1>1, <1>2, <1>3, <1>4, HandlerGood

(* add_page_and_switch, likewise.                                          *)
LEMMA AddPageGood ==
  ASSUME Overlays!OverlaysAssumption, OverlaysInv, UNCHANGED <<shown, enter>>,
         UNCHANGED <<settings, bindings>>, renderDue <= MaxUnseen,
         NEW ps \in Seq(Overlays!Ids), Overlays!IsInjective(ps),
         \A p \in Overlays!Range(ps) : p \in Overlays!Range(pages),
         \A p \in Overlays!Range(pages) : p \notin Overlays!Range(ps) => p = shown.active,
         NEW u \in Urls, Overlays!AddPageAndSwitch(ps, u)
  PROVE  OverlaysGood
  <1> USE OverlaysTypes
  <1>1. /\ nextId < MaxPages /\ pages' = Append(ps, nextId) /\ active' = nextId
        /\ nextId' = nextId + 1 /\ url' = [url EXCEPT ![nextId] = u] /\ ui' = Overlays!Without
        /\ renderDue' = renderDue + 1
    BY DEF Overlays!AddPageAndSwitch, Overlays!Bump, Overlays!Makes
  <1>2. nextId \in Overlays!Ids /\ nextId \in Nat /\ nextId \notin Overlays!Range(ps)
    <2>1. nextId \in 1..MaxPages
      BY DEF PagesOK
    <2>2. nextId \in Overlays!Ids /\ nextId \in Nat
      BY <1>1, <2>1, MaxPages \in Nat \ {0} DEF Overlays!Ids
    <2>3. \A p \in Overlays!Range(pages) : p < nextId
      BY DEF PagesOK
    <2>4. nextId \notin Overlays!Range(pages)
      BY <2>2, <2>3
    <2> QED BY <2>2, <2>4
  <1>3. /\ pages' \in Seq(Overlays!Ids)
        /\ \A x : x \in Overlays!Range(pages') <=> x \in Overlays!Range(ps) \/ x = nextId
        /\ Overlays!IsInjective(pages')
    BY <1>1, <1>2, OverlaysAppend
  <1>4. nextId' \in 1..MaxPages /\ active' \in Overlays!Ids /\ nextId' >= nextId
    BY <1>1, <1>2 DEF PagesOK
  <1>5. \A p \in Overlays!Range(pages') \cup {active'} : p < nextId'
    BY <1>1, <1>2, <1>3 DEF PagesOK
  <1>6. url' \in [Overlays!Ids -> Urls]
    BY <1>1, <1>2 DEF PagesOK
  <1>7. PagesOK'
    BY <1>3, <1>4, <1>5, <1>6 DEF PagesOK, Overlays!Ids
  <1>8. ui' \in Overlays!UIs
    BY <1>1 DEF Overlays!Without, Overlays!UIs, Overlays!Overlays
  <1>9. ClosesStep
    BY <1>3 DEF ClosesStep
  <1> QED BY <1>1, <1>4, <1>7, <1>8, <1>9, HandlerGood

(* close_page.                                                             *)
LEMMA ClosePageGood ==
  ASSUME Overlays!OverlaysAssumption, OverlaysInv, UNCHANGED <<shown, enter>>,
         UNCHANGED <<settings, bindings>>, renderDue <= MaxUnseen,
         Overlays!ClosePage(shown.active)
  PROVE  OverlaysGood
  <1> USE OverlaysTypes
  <1> DEFINE id == shown.active
             rest == Overlays!Filter(pages, Overlays!Ids \ {id})
  <1>1. IF id # active
        THEN pages' = rest /\ Overlays!Bump /\ UNCHANGED <<active, nextId, url, ui>>
        ELSE IF rest # <<>> THEN Overlays!SwitchTo(rest, rest[1])
             ELSE Overlays!AddPageAndSwitch(rest, settings.start)
    BY DEF Overlays!ClosePage
  <1>2. /\ rest \in Seq(Overlays!Ids)
        /\ \A x : x \in Overlays!Range(rest) <=> x \in Overlays!Range(pages) /\ x \in Overlays!Ids \ {id}
        /\ Overlays!IsInjective(pages) => Overlays!IsInjective(rest)
        /\ rest # <<>> => rest[1] \in Overlays!Range(rest)
    BY OverlaysFilter DEF PagesOK
  <1> HIDE DEF rest
  <1>3. /\ Overlays!IsInjective(rest)
        /\ \A p \in Overlays!Range(rest) : p \in Overlays!Range(pages) /\ p \in Overlays!Ids /\ p < nextId
        /\ \A p \in Overlays!Range(pages) : p \notin Overlays!Range(rest) => p = shown.active
    BY <1>2 DEF PagesOK
  <1> HIDE DEF id
  <1>4. CASE id # active
    <2>1. pages' = rest /\ renderDue' = renderDue + 1 /\ UNCHANGED <<active, nextId, url, ui>>
      BY <1>1, <1>4 DEF Overlays!Bump, Overlays!Makes
    <2>2. PagesOK' /\ nextId' >= nextId
      BY <1>2, <1>3, <2>1 DEF PagesOK
    <2>3. ClosesStep
      BY <1>3, <2>1 DEF ClosesStep
    <2> QED BY <2>1, <2>2, <2>3, HandlerGood
  <1>5. CASE id = active /\ rest # <<>>
    <2>1. Overlays!SwitchTo(rest, rest[1])
      BY <1>1, <1>5
    <2>2. rest[1] \in Overlays!Ids /\ rest[1] < nextId
      BY <1>2, <1>3, <1>5
    <2> QED BY <1>2, <1>3, <2>1, <2>2, SwitchToGood
  <1>6. CASE id = active /\ rest = <<>>
    <2>1. Overlays!AddPageAndSwitch(rest, settings.start)
      BY <1>1, <1>6
    <2> QED BY <1>2, <1>3, <2>1, AddPageGood
  <1> QED BY <1>4, <1>5, <1>6

(* The rows are those of SwitcherRows.                                     *)
LEMMA OverlaysRows ==
  ASSUME NEW matching, NEW openUrls, NEW anyQuery, NEW history, NEW bookmarked, NEW similar
  PROVE  Overlays!BuildSwitcherRows(matching, openUrls, anyQuery, history, bookmarked, similar)
           = Switcher!BuildSwitcherRows(matching, openUrls, anyQuery, history, bookmarked, similar)
  <1>1. \A f, seen : Overlays!Unseen(f, seen) = Switcher!Unseen(f, seen)
    BY DEF Overlays!Unseen, Overlays!FirstPlaces, Overlays!EntriesAt, Overlays!UpTo, Overlays!Cardinality,
           Switcher!Unseen, Switcher!FirstPlaces, Switcher!EntriesAt, Switcher!UpTo, Switcher!Cardinality
  <1>2. \A l, k, of : Overlays!Group(l, k, of) = Switcher!Group(l, k, of)
    BY DEF Overlays!Group, Overlays!Header, Overlays!Row, Switcher!Group, Switcher!Header, Switcher!Row
  <1>3. \A f : Overlays!Range(f) = Switcher!Range(f)
    BY DEF Overlays!Range, Switcher!Range
  <1>4. Overlays!Row("add", NoRow) = Switcher!Row("add", NoRow)
    BY DEF Overlays!Row, Switcher!Row
  <1> QED BY <1>1, <1>2, <1>3, <1>4
          DEF Overlays!BuildSwitcherRows, Switcher!BuildSwitcherRows

(* A tile of the switcher is of a page that was open when it was rendered, *)
(* or of a URL.                                                            *)
LEMMA OverlaysTile ==
  ASSUME Overlays!OverlaysAssumption, OverlaysInv, NEW i
  PROVE  LET to == Overlays!ActivateRow(Overlays!Tiles(shown), i, shown.start)
         IN \/ to = NoRow
            \/ to.kind = "switch" /\ to.of \in Overlays!Ids /\ to.of < nextId
            \/ to.kind = "new" /\ to.of \in Urls
  <1> USE OverlaysTypes
  <1> DEFINE P == Overlays!Range(shown.pages)
             q == shown.ui.query
             m == Overlays!Matching(shown.pages, shown.url, q)
             h == Overlays!Filter(Visited, {q})
             o == {shown.url[p] : p \in P}
             rows == Overlays!Tiles(shown)
  <1>1. rows = Overlays!BuildSwitcherRows(m, o, q # NoText, h, <<>>, <<>>)
    BY DEF Overlays!Tiles
  <1> HIDE DEF rows
  <1>2. m \in Seq(P)
    <2>1. /\ m \in Seq(Overlays!Ids)
          /\ \A x : x \in Overlays!Range(m) => x \in P
      BY OverlaysFilter DEF Overlays!Matching
    <2> HIDE DEF m, P
    <2>2. \A n \in 1..Len(m) : m[n] \in P
      BY <2>1, RangeOf
    <2> QED BY <2>1, <2>2, EntriesIn
  <1>3. h \in Seq(Urls)
    BY OverlaysFilter DEF Overlays!OverlaysAssumption
  <1> HIDE DEF m, h, o, P, q
  <1>4. rows \in Seq(RowsOf(P, Urls))
    <2>1. <<>> \in Seq(Urls)
      OBVIOUS
    <2>2. rows = Switcher!BuildSwitcherRows(m, o, q # NoText, h, <<>>, <<>>)
      BY <1>1, OverlaysRows
    <2> QED BY <1>2, <1>3, <2>1, <2>2, BuiltRows
  <1>5. Overlays!ActivateRow(rows, i, shown.start) = Switcher!ActivateRow(rows, i, shown.start)
    BY DEF Overlays!ActivateRow, Overlays!Row, Switcher!ActivateRow, Switcher!Row
  <1>6. LET to == Switcher!ActivateRow(rows, i, shown.start)
        IN \/ to = NoRow
           \/ to.kind = "switch" /\ to.of \in P
           \/ to.kind = "new" /\ to.of \in Urls
    BY <1>4, ActivatedRow
  <1>7. \A p \in P : p \in Overlays!Ids /\ p < nextId
    <2>1. \A p \in P : p \in 0 .. nextId - 1
      BY DEF P
    <2>2. nextId \in 1..MaxPages
      BY DEF PagesOK
    <2> QED BY <2>1, <2>2
  <1> QED BY <1>5, <1>6, <1>7 DEF rows

LEMMA SelectTileGood ==
  ASSUME Overlays!OverlaysAssumption, OverlaysInv, NEW i, Overlays!SelectTile(i)
  PROVE  OverlaysGood
  <1> USE OverlaysTypes
  <1> DEFINE to == Overlays!ActivateRow(Overlays!Tiles(shown), i, shown.start)
  <1>1. /\ UNCHANGED <<shown, enter>> /\ UNCHANGED <<settings, bindings>> /\ renderDue <= MaxUnseen
        /\ IF to = NoRow THEN Overlays!Sets(ui) /\ UNCHANGED <<pages, active, nextId, url>>
           ELSE IF to.kind = "switch" THEN Overlays!SwitchTo(pages, to.of)
           ELSE Overlays!AddPageAndSwitch(pages, to.of)
    BY DEF Overlays!SelectTile, Overlays!On, Overlays!Runs, Overlays!window, Overlays!stores, Overlays!core
  <1>2. \/ to = NoRow
        \/ to.kind = "switch" /\ to.of \in Overlays!Ids /\ to.of < nextId
        \/ to.kind = "new" /\ to.of \in Urls
    BY OverlaysTile
  <1> HIDE DEF to
  <1>3. /\ pages \in Seq(Overlays!Ids) /\ Overlays!IsInjective(pages)
    BY DEF PagesOK
  <1>4. CASE to = NoRow
    <2>1. Overlays!Sets(ui) /\ UNCHANGED <<pages, active, nextId, url>>
      BY <1>1, <1>4
    <2>2. ui \in Overlays!UIs
      OBVIOUS
    <2> QED BY <1>1, <2>1, <2>2, SetsGood
  <1>5. CASE to # NoRow /\ to.kind = "switch" /\ to.of \in Overlays!Ids /\ to.of < nextId
    <2>1. Overlays!SwitchTo(pages, to.of)
      BY <1>1, <1>5
    <2> QED BY <1>1, <1>3, <1>5, <2>1, SwitchToGood
  <1>6. CASE to # NoRow /\ to.kind = "new" /\ to.of \in Urls
    <2>1. Overlays!AddPageAndSwitch(pages, to.of)
      BY <1>1, <1>6
    <2> QED BY <1>1, <1>3, <1>6, <2>1, AddPageGood
  <1> QED BY <1>2, <1>4, <1>5, <1>6

LEMMA SearchGood ==
  ASSUME Overlays!OverlaysAssumption, OverlaysInv,
         Overlays!ForceNewPageFromSearch \/ Overlays!ActivateSearch
  PROVE  OverlaysGood
  <1> USE OverlaysTypes
  <1>1. /\ UNCHANGED <<shown, enter>> /\ UNCHANGED <<settings, bindings>> /\ renderDue <= MaxUnseen
    BY DEF Overlays!ForceNewPageFromSearch, Overlays!ActivateSearch, Overlays!On, Overlays!Runs,
           Overlays!window, Overlays!stores
  <1>2. /\ pages \in Seq(Overlays!Ids) /\ Overlays!IsInjective(pages)
    BY DEF PagesOK
  <1>3. CASE Overlays!ForceNewPageFromSearch
    <2>1. Overlays!AddPageAndSwitch(pages, shown.ui.query) /\ shown.ui.query \in Urls
      BY <1>3 DEF Overlays!ForceNewPageFromSearch
    <2> QED BY <1>1, <1>2, <2>1, AddPageGood
  <1>4. CASE Overlays!ActivateSearch
    <2> DEFINE m == Overlays!Matching(pages, url, enter)
    <2>1. /\ enter \in Urls
          /\ IF Len(m) = 1 THEN Overlays!SwitchTo(pages, m[1]) ELSE Overlays!AddPageAndSwitch(pages, enter)
      BY <1>4 DEF Overlays!ActivateSearch
    <2>2. /\ m \in Seq(Overlays!Ids)
          /\ \A x : x \in Overlays!Range(m) => x \in Overlays!Range(pages)
          /\ m # <<>> => m[1] \in Overlays!Range(m)
      BY <1>2, OverlaysFilter DEF Overlays!Matching
    <2> HIDE DEF m
    <2>3. CASE Len(m) = 1
      <3>0. m # <<>>
        <4>1. Len(<<>>) # 1
          OBVIOUS
        <4> QED BY <2>3, <4>1
      <3>1. m[1] \in Overlays!Range(pages)
        BY <2>2, <3>0
      <3>2. m[1] \in Overlays!Ids /\ m[1] < nextId
        BY <3>1 DEF PagesOK
      <3> QED BY <1>1, <1>2, <2>1, <2>3, <3>2, SwitchToGood
    <2>4. CASE Len(m) # 1
      BY <1>1, <1>2, <2>1, <2>4, AddPageGood
    <2> QED BY <2>3, <2>4
  <1> QED BY <1>3, <1>4

(* The states of the overlays that the handlers set.                       *)
LEMMA OverlayStates ==
  ASSUME Overlays!OverlaysAssumption, OverlaysInv
  PROVE  /\ Overlays!Without \in Overlays!UIs
         /\ \A o \in Overlays!Overlays : [ui EXCEPT !.overlay = o] \in Overlays!UIs
         /\ \A t \in Overlays!Texts : /\ [ui EXCEPT !.query = t] \in Overlays!UIs
                                   /\ [ui EXCEPT !.query = t, !.overlay = "switcher"] \in Overlays!UIs
         /\ \A d \in Overlays!Drafts : /\ [ui EXCEPT !.drafts = d] \in Overlays!UIs
                                    /\ [ui EXCEPT !.listening = NoAction, !.drafts = d,
                                                  !.overlay = "settings"] \in Overlays!UIs
         /\ \A a \in Actions \cup {NoAction}, t \in Chords \cup {NoText} :
              /\ [ui EXCEPT !.text = t] \in Overlays!UIs
              /\ [ui EXCEPT !.text = t, !.listening = a] \in Overlays!UIs
              /\ [ui EXCEPT !.listening = a, !.text = t] \in Overlays!UIs
  <1> USE OverlaysTypes DEF Overlays!UIs, Overlays!Overlays, Overlays!Texts
  <1>1. /\ Overlays!Without \in Overlays!UIs
        /\ \A o \in Overlays!Overlays : [ui EXCEPT !.overlay = o] \in Overlays!UIs
    BY DEF Overlays!Without
  <1>2. \A t \in Overlays!Texts : /\ [ui EXCEPT !.query = t] \in Overlays!UIs
                               /\ [ui EXCEPT !.query = t, !.overlay = "switcher"] \in Overlays!UIs
    OBVIOUS
  <1>3. \A d \in Overlays!Drafts : /\ [ui EXCEPT !.drafts = d] \in Overlays!UIs
                                /\ [ui EXCEPT !.listening = NoAction, !.drafts = d,
                                              !.overlay = "settings"] \in Overlays!UIs
    OBVIOUS
  <1>4. \A a \in Actions \cup {NoAction}, t \in Chords \cup {NoText} :
          /\ [ui EXCEPT !.text = t] \in Overlays!UIs
          /\ [ui EXCEPT !.text = t, !.listening = a] \in Overlays!UIs
          /\ [ui EXCEPT !.listening = a, !.text = t] \in Overlays!UIs
    OBVIOUS
  <1> QED BY <1>1, <1>2, <1>3, <1>4

LEMMA OpenSwitcherGood ==
  ASSUME Overlays!OverlaysAssumption, OverlaysInv, UNCHANGED <<shown, enter>>,
         UNCHANGED <<pages, active, nextId, url>>, UNCHANGED <<settings, bindings>>,
         Overlays!OpenSwitcher, renderDue <= MaxUnseen
  PROVE  OverlaysGood
  <1>1. PICK new : new = [ui EXCEPT !.query = NoText, !.overlay = "switcher"]
    OBVIOUS
  <1>2. new \in Overlays!UIs
    BY <1>1, OverlayStates DEF Overlays!Texts
  <1>3. Overlays!Sets(new)
    BY <1>1 DEF Overlays!OpenSwitcher
  <1> QED BY <1>2, <1>3, SetsGood

LEMMA OpenSettingsGood ==
  ASSUME Overlays!OverlaysAssumption, OverlaysInv, UNCHANGED <<shown, enter>>,
         UNCHANGED <<pages, active, nextId, url>>, UNCHANGED <<settings, bindings>>,
         Overlays!OpenSettings, renderDue <= MaxUnseen
  PROVE  OverlaysGood
  <1>1. PICK d : d = Overlays!LoadedDrafts(settings)
    OBVIOUS
  <1>2. PICK new : new = [ui EXCEPT !.listening = NoAction, !.drafts = d, !.overlay = "settings"]
    OBVIOUS
  <1>3. d \in Overlays!Drafts
    <2>1. /\ settings.start \in Urls /\ settings.engine \in 1..Engines
          /\ settings.limit \in DraftLimits \cup {1, Unlimited}
      BY OverlaysTypes DEF Overlays!Settings
    <2>2. PICK u : u = (settings.limit = Unlimited)
      OBVIOUS
    <2>3. u \in BOOLEAN
      BY <2>2
    <2>4. PICK l : l = IF u THEN NoText ELSE settings.limit
      OBVIOUS
    <2>5. l \in DraftLimits \cup {1, NoText}
      BY <2>1, <2>2, <2>4
    <2>6. d = [start |-> settings.start, engine |-> settings.engine, unlimited |-> u, limit |-> l]
      BY <1>1, <2>2, <2>4 DEF Overlays!LoadedDrafts
    <2> QED BY <2>1, <2>3, <2>5, <2>6 DEF Overlays!Drafts
  <1>4. new \in Overlays!UIs
    BY <1>2, <1>3, OverlayStates
  <1>5. Overlays!Sets(new)
    BY <1>1, <1>2 DEF Overlays!OpenSettings
  <1> QED BY <1>4, <1>5, SetsGood

(* The handlers that set the overlays' own state alone.                    *)
LEMMA OwnStateGood ==
  ASSUME Overlays!OverlaysAssumption, OverlaysInv,
         \/ Overlays!ToggleSwitcher \/ Overlays!TitleChipClicked
         \/ \E t \in Overlays!Texts : Overlays!TypeQuery(t)
         \/ Overlays!CloseAnyOverlay \/ Overlays!ToggleSettings
         \/ \E d \in Overlays!Drafts : Overlays!EditDraft(d)
         \/ \E a \in Actions : Overlays!AddBinding(a)
         \/ \E t \in Chords \cup {NoText} : Overlays!TypeBinding(t)
         \/ Overlays!ToggleProfile \/ Overlays!ProfileChosen
  PROVE  OverlaysGood
  <1> USE OverlaysTypes DEF Overlays!window, Overlays!stores, Overlays!core, Overlays!On, Overlays!Runs
  <1>1. CASE Overlays!ToggleSwitcher
    <2>1. /\ renderDue <= MaxUnseen /\ UNCHANGED <<shown, enter>>
          /\ UNCHANGED <<pages, active, nextId, url>> /\ UNCHANGED <<settings, bindings>>
          /\ Overlays!Sets(Overlays!Without) \/ Overlays!OpenSwitcher
      BY <1>1 DEF Overlays!ToggleSwitcher
    <2> QED BY <2>1, SetsGood, OpenSwitcherGood, OverlayStates
  <1>2. CASE Overlays!TitleChipClicked
    <2>1. PICK new : new = [ui EXCEPT !.query = Overlays!CurrentUrl(shown.active), !.overlay = "switcher"]
      OBVIOUS
    <2>2. Overlays!CurrentUrl(shown.active) \in Overlays!Texts
      BY DEF Overlays!CurrentUrl, PagesOK, Overlays!Texts
    <2>3. new \in Overlays!UIs
      BY <2>1, <2>2, OverlayStates
    <2>4. /\ renderDue <= MaxUnseen /\ UNCHANGED <<shown, enter>>
          /\ UNCHANGED <<pages, active, nextId, url>> /\ UNCHANGED <<settings, bindings>>
          /\ Overlays!Sets(new)
      BY <1>2, <2>1 DEF Overlays!TitleChipClicked
    <2> QED BY <2>3, <2>4, SetsGood
  <1>3. ASSUME NEW t \in Overlays!Texts, Overlays!TypeQuery(t) PROVE OverlaysGood
    <2>1. PICK new : new = [ui EXCEPT !.query = t]
      OBVIOUS
    <2>2. new \in Overlays!UIs
      BY <2>1, OverlayStates
    <2>3. /\ renderDue <= MaxUnseen /\ UNCHANGED <<shown, enter>>
          /\ UNCHANGED <<pages, active, nextId, url>> /\ UNCHANGED <<settings, bindings>>
          /\ Overlays!Sets(new)
      BY <1>3, <2>1 DEF Overlays!TypeQuery
    <2> QED BY <2>2, <2>3, SetsGood
  <1>4. CASE Overlays!CloseAnyOverlay
    <2>1. /\ renderDue <= MaxUnseen /\ UNCHANGED <<shown, enter>>
          /\ UNCHANGED <<pages, active, nextId, url>> /\ UNCHANGED <<settings, bindings>>
          /\ Overlays!Sets(Overlays!Without)
      BY <1>4 DEF Overlays!CloseAnyOverlay
    <2> QED BY <2>1, SetsGood, OverlayStates
  <1>5. CASE Overlays!ToggleSettings
    <2>1. /\ renderDue <= MaxUnseen /\ UNCHANGED <<shown, enter>>
          /\ UNCHANGED <<pages, active, nextId, url>> /\ UNCHANGED <<settings, bindings>>
          /\ Overlays!Sets(Overlays!Without) \/ Overlays!OpenSettings
      BY <1>5 DEF Overlays!ToggleSettings
    <2> QED BY <2>1, SetsGood, OpenSettingsGood, OverlayStates
  <1>6. ASSUME NEW d \in Overlays!Drafts, Overlays!EditDraft(d) PROVE OverlaysGood
    <2>1. PICK new : new = [ui EXCEPT !.drafts = d]
      OBVIOUS
    <2>2. new \in Overlays!UIs
      BY <2>1, OverlayStates
    <2>3. /\ renderDue <= MaxUnseen /\ UNCHANGED <<shown, enter>>
          /\ UNCHANGED <<pages, active, nextId, url>> /\ UNCHANGED <<settings, bindings>>
          /\ Overlays!Sets(new)
      BY <1>6, <2>1 DEF Overlays!EditDraft
    <2> QED BY <2>2, <2>3, SetsGood
  <1>7. ASSUME NEW a \in Actions, Overlays!AddBinding(a) PROVE OverlaysGood
    <2>1. PICK new : new = [ui EXCEPT !.text = NoText, !.listening = a]
      OBVIOUS
    <2>2. new \in Overlays!UIs
      BY <2>1, OverlayStates
    <2>3. /\ renderDue <= MaxUnseen /\ UNCHANGED <<shown, enter>>
          /\ UNCHANGED <<pages, active, nextId, url>> /\ UNCHANGED <<settings, bindings>>
          /\ Overlays!Sets(new)
      BY <1>7, <2>1 DEF Overlays!AddBinding
    <2> QED BY <2>2, <2>3, SetsGood
  <1>8. ASSUME NEW t \in Chords \cup {NoText}, Overlays!TypeBinding(t) PROVE OverlaysGood
    <2>1. PICK new : new = [ui EXCEPT !.text = t]
      OBVIOUS
    <2>2. new \in Overlays!UIs
      BY <2>1, OverlayStates
    <2>3. /\ renderDue <= MaxUnseen /\ UNCHANGED <<shown, enter>>
          /\ UNCHANGED <<pages, active, nextId, url>> /\ UNCHANGED <<settings, bindings>>
          /\ Overlays!Sets(new)
      BY <1>8, <2>1 DEF Overlays!TypeBinding
    <2> QED BY <2>2, <2>3, SetsGood
  <1>9. CASE Overlays!ToggleProfile
    <2>1. PICK o \in {"none", "profile"} : o = IF shown.ui.overlay = "profile" THEN "none" ELSE "profile"
      OBVIOUS
    <2>2. PICK new : new = [ui EXCEPT !.overlay = o]
      OBVIOUS
    <2>3. new \in Overlays!UIs
      BY <2>2, OverlayStates DEF Overlays!Overlays
    <2>4. /\ renderDue <= MaxUnseen /\ UNCHANGED <<shown, enter>>
          /\ UNCHANGED <<pages, active, nextId, url>> /\ UNCHANGED <<settings, bindings>>
          /\ Overlays!Sets(new)
      BY <1>9, <2>1, <2>2 DEF Overlays!ToggleProfile
    <2> QED BY <2>3, <2>4, SetsGood
  <1>10. CASE Overlays!ProfileChosen
    <2>1. /\ renderDue <= MaxUnseen /\ UNCHANGED <<shown, enter>>
          /\ UNCHANGED <<pages, active, nextId, url>> /\ UNCHANGED <<settings, bindings>>
          /\ Overlays!Sets(ui) \/ Overlays!Sets(Overlays!Without)
      BY <1>10 DEF Overlays!ProfileChosen
    <2>2. ui \in Overlays!UIs
      OBVIOUS
    <2> QED BY <2>1, <2>2, SetsGood, OverlayStates
  <1> QED BY <1>1, <1>2, <1>3, <1>4, <1>5, <1>6, <1>7, <1>8, <1>9, <1>10

(* The stores behind the settings and the key bindings.                    *)
LEMMA StoresGood ==
  ASSUME Overlays!OverlaysAssumption, OverlaysInv,
         \/ Overlays!SaveSettings \/ Overlays!CommitBinding
         \/ \E a \in Actions, c \in Chords : Overlays!RemoveBinding(a, c)
  PROVE  OverlaysGood
  <1> USE OverlaysTypes DEF Overlays!window, Overlays!stores, Overlays!core, Overlays!On, Overlays!Runs
  <1>0. ASSUME UNCHANGED <<pages, active, nextId, url>> PROVE PagesOK' /\ nextId' >= nextId /\ ClosesStep
    <2>1. PagesOK' /\ nextId' >= nextId
      BY <1>0 DEF PagesOK
    <2>2. ClosesStep
      BY <1>0 DEF ClosesStep, Overlays!Range
    <2> QED BY <2>1, <2>2
  <1>1. CASE Overlays!SaveSettings
    <2> DEFINE d == shown.ui.drafts
    <2>1. /\ UNCHANGED <<shown, enter>> /\ UNCHANGED <<pages, active, nextId, url>> /\ UNCHANGED bindings
          /\ renderDue <= MaxUnseen /\ renderDue' = renderDue + 1
          /\ settings' = [start |-> d.start, engine |-> d.engine, limit |-> Overlays!NewLimit(d)]
          /\ ui' = Overlays!Without
      BY <1>1 DEF Overlays!SaveSettings, Overlays!Bump, Overlays!Makes
    <2>2. /\ d.start \in Urls /\ d.engine \in 1..Engines /\ d.limit \in DraftLimits \cup {1, NoText}
      BY DEF Overlays!Drafts
    <2>3. Overlays!NewLimit(d) \in DraftLimits \cup {1, Unlimited}
      <3>1. DraftLimits \subseteq Nat
        BY DEF Overlays!OverlaysAssumption
      <3>2. PICK l : l = d.limit
        OBVIOUS
      <3>3. l = NoText \/ l \in DraftLimits \/ l = 1
        BY <2>2, <3>2
      <3>4. Overlays!NewLimit(d) = IF d.unlimited \/ l = NoText THEN Unlimited ELSE IF l < 1 THEN 1 ELSE l
        BY <3>2 DEF Overlays!NewLimit, Overlays!Largest
      <3> QED BY <3>1, <3>3, <3>4
    <2>4. settings' \in Overlays!Settings
      BY <2>1, <2>2, <2>3 DEF Overlays!Settings
    <2> HIDE DEF d
    <2> QED BY <1>0, <2>1, <2>4, HandlerGood, OverlayStates
  <1>2. CASE Overlays!CommitBinding
    <2> DEFINE a == shown.ui.listening
               c == shown.ui.text
    <2>1. /\ UNCHANGED <<shown, enter>> /\ UNCHANGED <<pages, active, nextId, url>> /\ UNCHANGED settings
          /\ renderDue <= MaxUnseen /\ renderDue' = renderDue + 1
          /\ bindings' = IF c = NoText THEN bindings ELSE [bindings EXCEPT ![a] = @ \cup {c}]
          /\ ui' = [ui EXCEPT !.listening = NoAction, !.text = NoText]
      BY <1>2 DEF Overlays!CommitBinding, Overlays!Bump, Overlays!Makes
    <2>2. c \in Chords \cup {NoText}
      BY DEF Overlays!UIs
    <2>3. bindings' \in [Actions -> SUBSET Chords]
      BY <2>1, <2>2
    <2>4. ui' \in Overlays!UIs
      BY <2>1, OverlayStates
    <2> HIDE DEF a, c
    <2> QED BY <1>0, <2>1, <2>3, <2>4, HandlerGood
  <1>3. ASSUME NEW a \in Actions, NEW c \in Chords, Overlays!RemoveBinding(a, c) PROVE OverlaysGood
    <2>1. /\ UNCHANGED <<shown, enter>> /\ UNCHANGED <<pages, active, nextId, url>>
          /\ UNCHANGED <<settings, ui>>
          /\ renderDue <= MaxUnseen /\ renderDue' = renderDue + 1
          /\ bindings' = [bindings EXCEPT ![a] = @ \ {c}]
      BY <1>3 DEF Overlays!RemoveBinding, Overlays!Bump, Overlays!Makes
    <2>2. bindings' \in [Actions -> SUBSET Chords]
      BY <2>1
    <2> QED BY <1>0, <2>1, <2>2, HandlerGood
  <1> QED BY <1>1, <1>2, <1>3

(* Cycling goes to an open page.                                           *)
LEMMA NeighboursOpen ==
  ASSUME Overlays!OverlaysAssumption, OverlaysInv, NEW id \in Overlays!Neighbours
  PROVE  id \in Overlays!Range(pages)
  <1> USE OverlaysTypes
  <1> DEFINE n == Len(pages)
             i == Overlays!Place(active)
  <1>1. active \in Overlays!Range(pages) /\ id \in {pages[(i % n) + 1], pages[((i + n - 2) % n) + 1]}
    BY DEF Overlays!Neighbours
  <1>2. pages \in Seq(Overlays!Ids)
    BY DEF PagesOK
  <1>3. n \in Nat /\ \A x : x \in Overlays!Range(pages) <=> \E j \in 1..n : pages[j] = x
    BY <1>2, RangeOf
  <1>4. \E j \in 1..n : pages[j] = active
    BY <1>1, <1>3
  <1>5. i \in 1..n /\ n # 0
    BY <1>3, <1>4 DEF Overlays!Place
  <1> HIDE DEF n, i
  <1>6. (i % n) + 1 = IF i = n THEN 1 ELSE i + 1
    BY <1>3, <1>5, AfterInRing
  <1>7. ((i + n - 2) % n) + 1 = IF i = 1 THEN n ELSE i - 1
    BY <1>3, <1>5, BeforeInRing
  <1>8. (i % n) + 1 \in 1..n /\ ((i + n - 2) % n) + 1 \in 1..n
    BY <1>3, <1>5, <1>6, <1>7
  <1> QED BY <1>1, <1>3, <1>8

LEMMA DispatchGood ==
  ASSUME Overlays!OverlaysAssumption, OverlaysInv,
         NEW a \in {"ClosePage", "OpenSwitcher", "OpenSettings", "OpenProfilePicker", "NextPage"},
         Overlays!DispatchAction(a)
  PROVE  OverlaysGood
  <1> USE OverlaysTypes DEF Overlays!window, Overlays!stores, Overlays!core, Overlays!On, Overlays!Runs
  <1>1. /\ renderDue <= MaxUnseen /\ UNCHANGED <<shown, enter>> /\ UNCHANGED <<settings, bindings>>
    BY DEF Overlays!DispatchAction
  <1>2. CASE a = "ClosePage"
    <2>1. Overlays!ClosePage(shown.active)
      BY <1>2 DEF Overlays!DispatchAction, Overlays!ClosePageChord
    <2> QED BY <1>1, <2>1, ClosePageGood
  <1>3. CASE a = "OpenSwitcher"
    <2>1. Overlays!OpenSwitcher /\ UNCHANGED <<pages, active, nextId, url>>
      BY <1>3 DEF Overlays!DispatchAction
    <2> QED BY <1>1, <2>1, OpenSwitcherGood
  <1>4. CASE a = "OpenSettings"
    <2>1. Overlays!OpenSettings /\ UNCHANGED <<pages, active, nextId, url>>
      BY <1>4 DEF Overlays!DispatchAction
    <2> QED BY <1>1, <2>1, OpenSettingsGood
  <1>5. CASE a = "OpenProfilePicker"
    <2>1. PICK new : new = [ui EXCEPT !.overlay = "profile"]
      OBVIOUS
    <2>2. Overlays!Sets(new) /\ UNCHANGED <<pages, active, nextId, url>>
      BY <1>5, <2>1 DEF Overlays!DispatchAction
    <2>3. new \in Overlays!UIs
      BY <2>1, OverlayStates DEF Overlays!Overlays
    <2> QED BY <1>1, <2>2, <2>3, SetsGood
  <1>6. CASE a = "NextPage"
    <2>1. PICK id \in Overlays!Neighbours : Overlays!SwitchTo(pages, id)
      BY <1>6 DEF Overlays!DispatchAction
    <2>2. id \in Overlays!Range(pages)
      BY <2>1, NeighboursOpen
    <2>3. id \in Overlays!Ids /\ id < nextId /\ pages \in Seq(Overlays!Ids) /\ Overlays!IsInjective(pages)
      BY <2>2 DEF PagesOK
    <2> QED BY <1>1, <2>1, <2>3, SwitchToGood
  <1> QED BY <1>2, <1>3, <1>4, <1>5, <1>6

LEMMA NavigatedGood ==
  ASSUME Overlays!OverlaysAssumption, OverlaysInv,
         NEW p \in Overlays!Ids, NEW u \in Urls, Overlays!Navigated(p, u)
  PROVE  OverlaysGood
  <1> USE OverlaysTypes DEF Overlays!window, Overlays!stores, Overlays!Runs
  <1>1. /\ renderDue <= MaxUnseen /\ UNCHANGED <<shown, enter>> /\ UNCHANGED <<settings, bindings>>
        /\ UNCHANGED <<pages, active, nextId, ui>> /\ url' = [url EXCEPT ![p] = u]
        /\ renderDue' = IF p = active \/ renderDue > 0 THEN renderDue + 1 ELSE 0
    BY DEF Overlays!Navigated, Overlays!Bump, Overlays!Makes
  <1>2. PagesOK' /\ nextId' >= nextId
    BY <1>1 DEF PagesOK
  <1>3. ClosesStep
    BY <1>1 DEF ClosesStep, Overlays!Range
  <1>4. \/ renderDue' = renderDue + 1
        \/ renderDue' = 0 /\ renderDue = 0 /\ Overlays!Told(Overlays!View)' = Overlays!Told(Overlays!View)
    <2>1. CASE p = active \/ renderDue > 0
      BY <1>1, <2>1
    <2>2. CASE ~(p = active \/ renderDue > 0)
      <3>1. renderDue = 0 /\ renderDue' = 0 /\ url'[active] = url[active]
        BY <1>1, <2>2 DEF PagesOK
      <3> QED BY <1>1, <3>1 DEF Overlays!Told, Overlays!View
    <2> QED BY <2>1, <2>2
  <1>5. settings' \in Overlays!Settings /\ bindings' \in [Actions -> SUBSET Chords] /\ ui' \in Overlays!UIs
    BY <1>1
  <1> QED BY <1>1, <1>2, <1>3, <1>4, <1>5, HandlerGood

LEMMA NewWindowGood ==
  ASSUME Overlays!OverlaysAssumption, OverlaysInv, NEW u \in Urls, Overlays!NewWindow(u)
  PROVE  OverlaysGood
  <1> USE OverlaysTypes DEF Overlays!window, Overlays!stores, Overlays!Runs
  <1>1. /\ renderDue <= MaxUnseen /\ UNCHANGED <<shown, enter>> /\ UNCHANGED <<settings, bindings>>
        /\ UNCHANGED <<active, ui>> /\ url' = [url EXCEPT ![nextId] = u]
        /\ nextId < MaxPages /\ pages' = Append(pages, nextId) /\ nextId' = nextId + 1
        /\ renderDue' = renderDue + 1
    BY DEF Overlays!NewWindow, Overlays!Bump, Overlays!Makes
  <1>2. nextId \in Overlays!Ids /\ nextId \in Nat /\ nextId \notin Overlays!Range(pages)
    <2>1. nextId \in 1..MaxPages
      BY DEF PagesOK
    <2>2. nextId \in Overlays!Ids /\ nextId \in Nat
      BY <1>1, <2>1, MaxPages \in Nat \ {0} DEF Overlays!Ids
    <2>3. \A p \in Overlays!Range(pages) : p < nextId
      BY DEF PagesOK
    <2>4. nextId \notin Overlays!Range(pages)
      BY <2>2, <2>3
    <2> QED BY <2>2, <2>4
  <1>3. /\ pages' \in Seq(Overlays!Ids)
        /\ \A x : x \in Overlays!Range(pages') <=> x \in Overlays!Range(pages) \/ x = nextId
        /\ Overlays!IsInjective(pages')
    BY <1>1, <1>2, OverlaysAppend DEF PagesOK
  <1>4. nextId' \in 1..MaxPages /\ nextId' >= nextId
    BY <1>1, <1>2 DEF PagesOK
  <1>5. \A p \in Overlays!Range(pages') \cup {active'} : p < nextId'
    <2>1. \A p \in Overlays!Range(pages) \cup {active} : p \in Nat /\ p < nextId
      BY DEF PagesOK
    <2>2. ASSUME NEW p \in Overlays!Range(pages') \cup {active'} PROVE p < nextId'
      <3>1. p \in Overlays!Range(pages) \cup {active} \/ p = nextId
        BY <1>1, <1>3
      <3>2. CASE p \in Overlays!Range(pages) \cup {active}
        <4>1. p \in Nat /\ p < nextId
          BY <2>1, <3>2
        <4> QED BY <1>1, <1>2, <4>1
      <3>3. CASE p = nextId
        BY <1>1, <1>2, <3>3
      <3> QED BY <3>1, <3>2, <3>3
    <2> QED BY <2>2
  <1>6. url' \in [Overlays!Ids -> Urls] /\ active' \in Overlays!Ids
    BY <1>1, <1>2 DEF PagesOK
  <1>7. PagesOK'
    BY <1>3, <1>4, <1>5, <1>6 DEF PagesOK, Overlays!Ids
  <1>8. ClosesStep
    BY <1>3 DEF ClosesStep
  <1>9. settings' \in Overlays!Settings /\ bindings' \in [Actions -> SUBSET Chords] /\ ui' \in Overlays!UIs
    BY <1>1
  <1> QED BY <1>1, <1>4, <1>7, <1>8, <1>9, HandlerGood

(* A render captures the state there is.                                   *)
LEMMA RenderGood ==
  ASSUME Overlays!OverlaysAssumption, OverlaysInv, Overlays!Render
  PROVE  OverlaysGood
  <1> USE OverlaysTypes
  <1>1. /\ UNCHANGED <<pages, active, nextId, url>> /\ UNCHANGED <<settings, bindings>> /\ ui' = ui
        /\ shown' = Overlays!View /\ renderDue' = 0
        /\ enter' = IF ui.overlay = "switcher" THEN ui.query ELSE NoText
    BY DEF Overlays!Render, Overlays!RefreshEnter, Overlays!core, Overlays!stores
  <1>2. /\ shown'.ui = ui /\ shown'.active = active /\ shown'.pages = pages
        /\ shown'.url = url /\ shown'.start = settings.start /\ shown'.bindings = bindings
    BY <1>1 DEF Overlays!View
  <1>3. \A p \in Overlays!Range(pages) : p \in 0 .. nextId - 1
    BY DEF PagesOK
  <1>4. Overlays!TypeOK'
    <2>1. PagesOK'
      BY <1>1 DEF PagesOK
    <2>2. Overlays!Range(shown'.pages) = Overlays!Range(pages)
      BY <1>2
    <2>3. enter' \in Overlays!Texts
      BY <1>1 DEF Overlays!Texts
    <2> QED BY <1>1, <1>2, <1>3, <2>1, <2>2, <2>3 DEF Overlays!TypeOK, PagesOK
  <1>5. Captured'
    BY <1>1, <1>2 DEF Captured, PagesOK
  <1>6. Overlays!RenderIsDue'
    <2>1. Overlays!View' = shown'
      BY <1>1 DEF Overlays!View
    <2>2. Overlays!Told(shown)' = Overlays!Told(Overlays!View)'
      BY <2>1 DEF Overlays!Told
    <2> QED BY <1>1, <1>2, <2>2 DEF Overlays!RenderIsDue
  <1>7. ClosesStep
    BY <1>1 DEF ClosesStep, Overlays!Range
  <1> QED BY <1>4, <1>5, <1>6, <1>7 DEF OverlaysGood, OverlaysInv

LEMMA InitOverlays ==
  ASSUME Overlays!OverlaysAssumption, Overlays!Init
  PROVE  OverlaysInv
  <1> USE DEF Overlays!Init, Overlays!OverlaysAssumption
  <1>1. Overlays!Ids = 0 .. MaxPages - 1 /\ MaxPages \in Nat /\ 0 \in Overlays!Ids
    BY DEF Overlays!Ids
  <1>2. /\ pages = <<0>> /\ active = 0 /\ nextId = 1 /\ url \in [Overlays!Ids -> Urls]
        /\ url[0] \in Urls
    BY <1>1
  <1>3. pages \in Seq(Overlays!Ids) /\ Overlays!IsInjective(pages) /\ \A p : p \in Overlays!Range(pages) <=> p = 0
    BY <1>1, <1>2 DEF Overlays!IsInjective, Overlays!Range
  <1>4. settings \in Overlays!Settings /\ bindings \in [Actions -> SUBSET Chords]
    BY <1>2 DEF Overlays!Settings
  <1>5. ui \in Overlays!UIs
    BY <1>2 DEF Overlays!UIs, Overlays!Drafts, Overlays!Overlays, Overlays!Texts
  <1>6. /\ shown = Overlays!View /\ shown.ui = ui /\ shown.active = active /\ shown.pages = pages
        /\ shown.url = url /\ shown.start = settings.start /\ shown.bindings = bindings
    BY DEF Overlays!View
  <1>7. enter = NoText /\ renderDue = 0 /\ MaxUnseen \in Nat
    OBVIOUS
  <1>8. settings.start \in Urls
    BY <1>4 DEF Overlays!Settings
  <1> HIDE DEF Overlays!Init
  <1>9. Overlays!TypeOK
    BY <1>1, <1>2, <1>3, <1>4, <1>5, <1>6, <1>7 DEF Overlays!TypeOK, Overlays!Texts
  <1>10. Captured
    BY <1>2, <1>3, <1>6, <1>8 DEF Captured
  <1>11. Overlays!RenderIsDue
    BY <1>6, <1>7 DEF Overlays!RenderIsDue
  <1> QED BY <1>9, <1>10, <1>11 DEF OverlaysInv

LEMMA OverlaysInductive ==
  ASSUME Overlays!OverlaysAssumption, OverlaysInv, [Overlays!Next]_Overlays!vars
  PROVE  OverlaysInv' /\ (ClosesStep \/ UNCHANGED Overlays!vars)
  <1>1. CASE UNCHANGED Overlays!vars
    <2>1. UNCHANGED <<pages, active, nextId, url, settings, bindings, ui, shown, enter, renderDue>>
      BY <1>1 DEF Overlays!vars
    <2>2. Overlays!TypeOK' /\ Captured'
      BY <2>1 DEF OverlaysInv, Overlays!TypeOK, Captured
    <2>3. Overlays!RenderIsDue'
      BY <2>1 DEF OverlaysInv, Overlays!RenderIsDue, Overlays!Told, Overlays!View
    <2> QED BY <1>1, <2>2, <2>3 DEF OverlaysInv
  <1>2. CASE Overlays!Next
    <2>1. OverlaysGood
      BY <1>2, OwnStateGood, SearchGood, SelectTileGood, StoresGood, DispatchGood,
         NavigatedGood, NewWindowGood, RenderGood DEF Overlays!Next
    <2> QED BY <2>1 DEF OverlaysGood
  <1> QED BY <1>1, <1>2

(* The overlays' state keeps its types, and what a render captured too,    *)
(* for any number of pages and handlers ahead of a render (app).           *)
THEOREM OverlaysTypesCorrect ==
  ASSUME Overlays!OverlaysAssumption
  PROVE  Overlays!Spec => []Overlays!TypeOK
  <1>1. OverlaysInv => Overlays!TypeOK
    BY DEF OverlaysInv
  <1> QED BY <1>1, InitOverlays, OverlaysInductive, PTL DEF Overlays!Spec

(* Unless a render is due the window tells the state as it is, whichever   *)
(* handler or native callback changed it last, and Enter acts on the text  *)
(* the switcher shows (bump, enter_action).                                *)
THEOREM OverlaysRenderIsDue ==
  ASSUME Overlays!OverlaysAssumption
  PROVE  Overlays!Spec => []Overlays!RenderIsDue
  <1>1. OverlaysInv => Overlays!RenderIsDue
    BY DEF OverlaysInv
  <1> QED BY <1>1, InitOverlays, OverlaysInductive, PTL DEF Overlays!Spec

(* Only the page that the window shows is closed, however fast the keys    *)
(* are (dispatch_action, close_page).                                      *)
THEOREM OverlaysCloseTheShown ==
  ASSUME Overlays!OverlaysAssumption
  PROVE  Overlays!Spec => Overlays!OnlyTheShownPageCloses
  <1>1. ASSUME OverlaysInv, [Overlays!Next]_Overlays!vars
        PROVE  [\A p \in Overlays!Range(pages) :
                   p \notin Overlays!Range(pages') => p = shown.active]_Overlays!vars
    BY <1>1, OverlaysInductive DEF ClosesStep
  <1> QED BY <1>1, InitOverlays, OverlaysInductive, PTL
          DEF Overlays!Spec, Overlays!OnlyTheShownPageCloses
=============================================================================
