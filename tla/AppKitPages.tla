----------------------------- MODULE AppKitPages ----------------------------
(***************************************************************************)
(* The AppKit front end's pages (browser-macos-appkit, AppState): the same *)
(* PageManager as GtkPages, with other handlers around it.  Nothing nests  *)
(* here: building an engine does not run the event loop, so a handler is   *)
(* one action, and only a restore, in whose middle the process may be      *)
(* killed, is one action per page.  Launched with a link, the process is   *)
(* only the window that asks for a profile; the process that one starts    *)
(* is given the link again.                                                *)
(*                                                                         *)
(* Page.last_url is never assigned by this crate (unload_engines drops the *)
(* engine as it is, insert stores the empty string), so a page without an  *)
(* engine has no URL.  Nor has an engine one until its navigation starts:  *)
(* WKWebView.URL is nil, and it may be so still when the handler that made *)
(* the engine saves the session.                                           *)
(***************************************************************************)
EXTENDS PageManagerOps

CONSTANTS
  Urls,            (* URLs a page can be at *)
  StartPage,       (* settings.start_page *)
  HomeUrl,         (* HOME_URL, for a page rebuilt without a URL *)
  NoUrl,           (* "": the URL of an evicted page, or of one not yet navigated *)
  Limits,          (* the values of max_loaded_pages the user sets *)
  MaxPages         (* bound: ids a process allocates *)

ASSUME AppKitUrlsAssumption == {StartPage, HomeUrl} \subseteq Urls /\ NoUrl \notin Urls
ASSUME AppKitLimitsAssumption == Limits # {} /\ Limits \subseteq Nat \cup {Unlimited}
ASSUME AppKitBoundAssumption == MaxPages \in Nat \ {0}

VARIABLES
  process,     (* none, or what it shows: the chooser, a prompt or the window *)
  history,     (* the URLs the profile's database has a row for *)
  sealed,      (* the database: not yet there, plain, or encrypted *)
  marked,      (* Profile::has_passphrase *)
  core,        (* AppState.core *)
  url,         (* the URL each live engine reports, once it does *)
  containers,  (* the ids AppState.containers has an NSView for *)
  visible,     (* those of them that are not hidden *)
  stray,       (* content_view has a subview no page knows of *)
  restoring,   (* AppState.restoring *)
  plan,        (* the URLs a restore has still to open *)
  failed,      (* for the properties: an engine of this process failed to build *)
  disk         (* the session file *)

pageVars    == <<core, url, containers, visible, stray, restoring, plan, failed>>
profileVars == <<history, sealed, marked>>
vars == <<process, profileVars, pageVars, disk>>

Ids == 0 .. MaxPages - 1

-----------------------------------------------------------------------------
(* Page::current_url.                                                      *)
CurrentUrl(p) == IF p \in core.engine THEN url[p] ELSE NoUrl

(* build_session; the id tells which page an entry stands for.             *)
Session ==
  [pages |-> [i \in 1..Len(core.pages) |->
                [page |-> core.pages[i], url |-> CurrentUrl(core.pages[i])]],
   active |-> IF core.active \in Live(core) THEN Position(core, core.active) ELSE 0]

SaveSession == disk' = IF restoring' THEN disk ELSE Session'

(* At the top of the run loop.                                             *)
Up == process = "window"
Ready == Up /\ ~restoring

(* Mutant: the bookkeeping of an eviction without the teardown.            *)
UnloadNothing(c, gone) == c
(* unload_engines: the engines go, URL and all, ...                        *)
Unload(c, gone) == [c EXCEPT !.engine = @ \ gone]
Without(u, gone) == [p \in Ids |-> IF p \in gone THEN NoUrl ELSE u[p]]

(* set_active up to its save: id's container is the only one not hidden.   *)
Show(c, k, id) ==
  /\ core' = SetActive(c, id)
  /\ containers' = k
  /\ visible' = k \cap {id}

(* current_url, read in the handler that has just asked for u.             *)
Reported(u) == {u, NoUrl}

-----------------------------------------------------------------------------
(* add_page, on the core c and the containers k its caller has made.       *)
Added(c, k, u) ==
  LET id == c.next_id
      d == Inserted(AllocateId(c), id)
      gone == Evicted(d)
  IN /\ Show(Unload(Enforced(d), gone), (k \ gone) \cup {id}, id)
     /\ \E w \in Reported(u) : url' = [Without(url, gone) EXCEPT ![id] = w]
     /\ UNCHANGED <<stray, failed>>

(* Mutant: the container is registered before its engine is there.         *)
NotAddedRegistered(c, k) ==
  /\ core' = AllocateId(c)
  /\ containers' = k \cup {c.next_id}
  /\ visible' = (visible \cap k) \cup {c.next_id}
  /\ stray' = stray /\ failed' = TRUE
  /\ UNCHANGED url

(* The engine could not be built: its container stays in content_view.     *)
NotAdded(c, k) ==
  /\ core' = AllocateId(c)
  /\ containers' = k
  /\ visible' = visible \cap k
  /\ stray' = TRUE /\ failed' = TRUE
  /\ UNCHANGED url

AddPage(u) ==
  /\ Ready
  /\ core.next_id < MaxPages
  /\ Added(core, containers, u) \/ NotAdded(core, containers)
  /\ UNCHANGED <<process, profileVars, restoring, plan>>
  /\ SaveSession

(* Mutant: a tab opened by a page is saved with the next change.           *)
AddPageRelatedUnsaved ==
  LET id == core.next_id
      d == InsertedBackground(AllocateId(core), id)
      gone == Evicted(d)
  IN /\ Ready
     /\ core.engine # {} /\ core.next_id < MaxPages
     /\ core' = Unload(Enforced(d), gone)
     /\ url' = Without(url, gone)
     /\ containers' = (containers \ gone) \cup {id}
     /\ visible' = (visible \ gone) \cup {id}
     /\ UNCHANGED <<process, profileVars, stray, restoring, plan, failed, disk>>

(* add_page_related, for WebKit's request of a page, which WebKit itself   *)
(* navigates afterwards: the container, which nothing hides, is registered *)
(* after the unloading, in which the new page itself may have lost its     *)
(* engine.                                                                 *)
AddPageRelated ==
  LET id == core.next_id
      d == InsertedBackground(AllocateId(core), id)
      gone == Evicted(d)
  IN /\ Ready
     /\ core.engine # {} /\ core.next_id < MaxPages
     /\ \/ /\ core' = Unload(Enforced(d), gone)
           /\ url' = Without(url, gone)
           /\ containers' = (containers \ gone) \cup {id}
           /\ visible' = (visible \ gone) \cup {id}
           /\ UNCHANGED <<stray, failed>>
        \/ NotAdded(core, containers)
     /\ UNCHANGED <<process, profileVars, restoring, plan>>
     /\ SaveSession

(* switch_to: ensure_engine_loaded, in a new container that replaces any   *)
(* old one, then set_active whether or not there is an engine now.         *)
ShowReloaded(id) ==
  \/ /\ id \in core.engine
     /\ Show(core, containers, id)
     /\ UNCHANGED <<url, stray, failed>>
  \/ /\ id \notin core.engine
     /\ Show(InstallEngine(core, id), containers \cup {id}, id)
     /\ \E w \in Reported(HomeUrl) : url' = [url EXCEPT ![id] = w]
     /\ stray' = (stray \/ id \in containers)
     /\ UNCHANGED failed
  \/ /\ id \notin core.engine
     /\ Show(core, containers, id)
     /\ stray' = TRUE /\ failed' = TRUE
     /\ UNCHANGED url

SwitchTo(id) ==
  /\ Ready
  /\ id \in Live(core)
  /\ ShowReloaded(id)
  /\ UNCHANGED <<process, profileVars, restoring, plan>>
  /\ SaveSession

SwitchToNextPage ==
  /\ NextPageId(core) # NoPage
  /\ SwitchTo(NextPageId(core))

SwitchToPreviousPage ==
  /\ PreviousPageId(core) # NoPage
  /\ SwitchTo(PreviousPageId(core))

(* close_page: of the active id, by key, whatever it names, or of a row.   *)
(* The page that comes to the front gets no engine.                        *)
ClosePage(id) ==
  LET c == Remove(core, id)
      k == containers \ {id}
  IN /\ Ready
     /\ id \in Live(core) \cup {core.active}
     /\ \/ /\ id # core.active
           /\ core' = c /\ containers' = k /\ visible' = visible \ {id}
           /\ url' = Without(url, {id})
           /\ UNCHANGED <<stray, failed>>
        \/ /\ id = core.active /\ c.pages # <<>>
           /\ Show(c, k, c.pages[1])
           /\ url' = Without(url, {id})
           /\ UNCHANGED <<stray, failed>>
        \/ /\ id = core.active /\ c.pages = <<>> /\ core.next_id < MaxPages
           /\ \/ /\ Added(c, k, StartPage)
              \/ /\ NotAdded(c, k)
     /\ UNCHANGED <<process, profileVars, restoring, plan>>
     /\ SaveSession

(* save_settings, as far as pages go: nothing is saved here.               *)
SetLimit(limit) ==
  LET c == Relimited(core, limit)
  IN /\ Ready
     /\ core' = Unload(Enforced(c), Evicted(c))
     /\ url' = Without(url, Evicted(c))
     /\ containers' = containers \ Evicted(c)
     /\ visible' = visible \ Evicted(c)
     /\ UNCHANGED <<process, profileVars, stray, restoring, plan, failed, disk>>

(* A page navigates: no handler runs for that.                             *)
Navigate(p, u) ==
  /\ Ready
  /\ p \in core.engine
  /\ url' = [url EXCEPT ![p] = u]
  /\ UNCHANGED <<process, profileVars, core, containers, visible, stray, restoring, plan, failed,
                 disk>>

(* HistoryStore::record_visit: a URL has one row, however often visited.   *)
RecordVisit(u) == history' = history \cup {u}

(* A title arrives: the visit is recorded and the session saved.           *)
TitleChanged(p) ==
  /\ Ready
  /\ p \in core.engine
  /\ RecordVisit(url[p]) \/ UNCHANGED history
  /\ UNCHANGED <<process, sealed, marked, pageVars>>
  /\ SaveSession

-----------------------------------------------------------------------------
(* open_start_page_or_restored_session: the plan, ...                      *)
Planned == IF disk.pages = <<>> THEN <<StartPage>>
           ELSE [i \in 1..Len(disk.pages) |-> disk.pages[i].url]
PlannedActive == IF disk.pages = <<>> THEN 1 ELSE disk.active

StartWindow ==
  /\ process' = "window" /\ restoring' = TRUE
  /\ plan' = Planned
  /\ UNCHANGED <<core, url, containers, visible, stray, failed, disk>>

(* ... a real page for each URL of it, one after the other in front, ...   *)
RestorePage ==
  /\ Up /\ restoring /\ plan # <<>>
  /\ plan' = Tail(plan)
  /\ Added(core, containers, Head(plan)) \/ NotAdded(core, containers)
  /\ UNCHANGED <<process, profileVars, restoring>>
  /\ SaveSession

(* Mutant: the active index is not looked up.                              *)
EndRestoreInFront ==
  /\ Up /\ restoring /\ plan = <<>>
  /\ restoring' = FALSE
  /\ UNCHANGED <<process, profileVars, core, url, containers, visible, stray, plan, failed>>
  /\ SaveSession

(* ... and the page at the active index of those that opened.              *)
EndRestore ==
  /\ Up /\ restoring /\ plan = <<>>
  /\ restoring' = FALSE
  /\ \/ /\ PlannedActive \in 1..Len(core.pages)
        /\ Show(core, containers, core.pages[PlannedActive])
     \/ /\ PlannedActive \notin 1..Len(core.pages)
        /\ UNCHANGED <<core, containers, visible>>
  /\ UNCHANGED <<process, profileVars, url, stray, plan, failed>>
  /\ SaveSession

-----------------------------------------------------------------------------
(* main, with a link: run_chooser.                                         *)
LaunchWithLink ==
  /\ process = "none"
  /\ process' = "chooser"
  /\ UNCHANGED <<profileVars, pageVars, disk>>

(* cancelChooser and windowWillClose.  openChooser instead starts a        *)
(* process with the same link, and so one that shows the chooser again.    *)
CancelChooser ==
  /\ process = "chooser"
  /\ process' = "none"
  /\ UNCHANGED <<profileVars, pageVars, disk>>

(* open_history asks for a passphrase if the profile has one or is to get  *)
(* one, ...                                                                *)
LaunchAsking(setup) ==
  /\ process = "none"
  /\ setup \/ marked
  /\ process' = "prompt"
  /\ UNCHANGED <<profileVars, pageVars, disk>>

(* ... again and again until one opens the database, or makes it, which    *)
(* none does with a plain one; the marker may fail to be written, ...      *)
Confirm ==
  /\ process = "prompt"
  /\ sealed # "plain"
  /\ sealed' = "encrypted"
  /\ marked' \in {marked, TRUE}
  /\ UNCHANGED history
  /\ StartWindow

CancelPrompt ==
  /\ process = "prompt"
  /\ process' = "none"
  /\ UNCHANGED <<profileVars, pageVars, disk>>

(* ... and else opens it as it is, which fails if it is encrypted.         *)
Launch ==
  /\ process = "none"
  /\ ~marked /\ sealed # "encrypted"
  /\ sealed' = "plain"
  /\ UNCHANGED <<history, marked>>
  /\ StartWindow

(* What is left of a process: the files, and the limit, a setting.         *)
Gone ==
  /\ process' = "none" /\ UNCHANGED profileVars
  /\ restoring' = FALSE /\ plan' = <<>>
  /\ core' = New(core.limit)
  /\ url' = [p \in Ids |-> NoUrl]
  /\ containers' = {} /\ visible' = {}
  /\ stray' = FALSE /\ failed' = FALSE

(* windowWillClose saves and terminates.                                   *)
WindowWillClose == Ready /\ Gone /\ disk' = Session

Kill == Up /\ Gone /\ UNCHANGED disk

Init ==
  /\ process = "none"
  /\ history = {} /\ sealed = "absent" /\ marked = FALSE
  /\ \E limit \in Limits : core = New(limit)
  /\ url = [p \in Ids |-> NoUrl]
  /\ containers = {} /\ visible = {}
  /\ stray = FALSE /\ restoring = FALSE /\ failed = FALSE
  /\ plan = <<>>
  /\ disk = [pages |-> <<>>, active |-> 0]

Next ==
  \/ \E u \in Urls : AddPage(u)
  \/ AddPageRelated
  \/ \E id \in Ids : SwitchTo(id)
  \/ SwitchToNextPage
  \/ SwitchToPreviousPage
  \/ \E id \in Ids \cup {NoPage} : ClosePage(id)
  \/ \E limit \in Limits : SetLimit(limit)
  \/ \E p \in Ids, u \in Urls : Navigate(p, u)
  \/ \E p \in Ids : TitleChanged(p)
  \/ LaunchWithLink \/ CancelChooser
  \/ \E setup \in BOOLEAN : LaunchAsking(setup)
  \/ Confirm \/ CancelPrompt
  \/ Launch
  \/ RestorePage
  \/ EndRestore
  \/ WindowWillClose
  \/ Kill

Spec == Init /\ [][Next]_vars

-----------------------------------------------------------------------------
TypeOK ==
  /\ process \in {"none", "chooser", "prompt", "window"}
  /\ history \subseteq Urls \cup {NoUrl} /\ sealed \in {"absent", "plain", "encrypted"} /\ marked \in BOOLEAN
  /\ stray \in BOOLEAN /\ restoring \in BOOLEAN /\ failed \in BOOLEAN
  /\ CoreTypeOK(core) /\ IdsUnique(core) /\ AgesTotal(core)
  /\ core.limit \in Limits /\ core.next_id <= MaxPages
  /\ url \in [Ids -> Urls \cup {NoUrl}]
  /\ visible \subseteq containers /\ containers \subseteq Live(core)
  /\ plan \in Seq(Urls \cup {NoUrl})
  /\ disk.pages \in Seq([page : Ids, url : Urls \cup {NoUrl}])
  /\ disk.active \in 0 .. Len(disk.pages)

(* Engines, views and the limit agree, whatever fails to build and in      *)
(* whatever order pages are evicted and come back: every engine has its    *)
(* container and counts against the limit, and the page in front is        *)
(* visible if it has an engine (unload_engines, ensure_engine_loaded,      *)
(* set_active, add_page_related).                                          *)
WebviewsFollowPages ==
  /\ core.engine \subseteq core.loaded \cap containers
  /\ core.active \in core.engine => core.active \in visible

(* The tabs and the file behave as Tabs promises: a process killed at any  *)
(* moment has left the open tabs, in order, with the one in front, or, in  *)
(* the middle of a restore, those it was restoring (save_session in        *)
(* set_active, close_page, add_page_related; restoring).                   *)
T == INSTANCE Tabs WITH
       up <- Up, TabIds <- Ids, loading <- restoring,
       tabs <- core.pages, front <- core.active,
       file <- [tabs |-> [i \in 1..Len(disk.pages) |-> disk.pages[i].page],
                front |-> disk.active]

RefinesTabs == T!TabsSpec

(* If every page of a session could be opened, they are all back when the  *)
(* restore ends, in their order and with the same one in front.  What is   *)
(* saved then has no URL for those that did not fit within the limit, and  *)
(* for each of the others its own, or none if its navigation has not begun *)
(* (open_start_page_or_restored_session, insert, unload_engines).          *)
RestoreIsFaithful ==
  [][restoring /\ ~restoring' /\ Up' /\ ~failed =>
       /\ Len(disk'.pages) = Len(Planned)
       /\ PlannedActive # 0 => disk'.active = PlannedActive
       /\ \A i \in 1..Len(Planned) :
            disk'.pages[i].url \in
              IF core.limit # Unlimited /\ i + Allowance(core) <= Len(Planned)
              THEN {NoUrl} ELSE Reported(Planned[i])]_vars
=============================================================================
