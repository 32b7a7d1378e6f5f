------------------------------ MODULE GtkPages ------------------------------
(***************************************************************************)
(* The GTK front end's pages (browser-linux-gtk3, AppState): the           *)
(* PageManager it owns, the native engines and stack containers, and the   *)
(* session file, from one launch of the process to the next.               *)
(*                                                                         *)
(* Everything runs on the GTK thread, one handler at a time, with one      *)
(* exception that shapes this module: building an engine (WryEngine::new)  *)
(* runs the main loop until no event is pending, and so dispatches other   *)
(* handlers in the middle of the one that builds.  A handler is one action *)
(* here, except that one which builds an engine is two: it starts with the *)
(* allocation and the container, and a Finish or Fail action does the rest *)
(* when the loop has drained.  `build' is the handler suspended in between.*)
(*                                                                         *)
(* web_context is mutably borrowed from start to finish of a build, so a   *)
(* nested handler that starts a build of its own panics inside a GTK       *)
(* callback, which aborts the process.                                     *)
(***************************************************************************)
EXTENDS PageManagerOps

CONSTANTS
  Urls,            (* URLs a page can be at *)
  StartPage,       (* settings.start_page *)
  NoUrl,           (* "": the URL of a view nothing was loaded into, an empty last_url *)
  Limits,          (* the values of max_loaded_pages the user sets *)
  MaxPages         (* bound: ids a process allocates *)

ASSUME UrlsAssumption == StartPage \in Urls /\ NoUrl \notin Urls
ASSUME GtkLimitsAssumption == Limits # {} /\ Limits \subseteq Nat \cup {Unlimited}
ASSUME GtkBoundAssumption == MaxPages \in Nat \ {0}

VARIABLES
  up,          (* the process runs *)
  core,        (* AppState.core *)
  url,         (* the URL of each live engine *)
  lastUrl,     (* Page.last_url *)
  containers,  (* ids with a container in the stack *)
  shown,       (* the stack's visible child *)
  build,       (* the handler suspended in WryEngine::new *)
  restoring,   (* AppState.restoring *)
  quitting,    (* gtk::main_quit was called *)
  failed,      (* for the properties: an engine of this process failed to build *)
  disk         (* the session file *)

vars ==
  <<up, core, url, lastUrl, containers, shown, build, restoring, quitting, failed, disk>>

Ids == 0 .. MaxPages - 1
Origins == {"ui", "rpc"}

(* What a suspended handler has yet to do: the kind of engine it builds,   *)
(* for which page and URL, whether an internal RPC call started it, what   *)
(* its caller does next, and the pages a restore has still to register.    *)
Handlers ==
  [kind : {"none", "page", "related", "reload", "chrome"},
   page : Ids \cup {NoPage}, url : Urls \cup {NoUrl}, origin : Origins,
   caller : {"open", "close", "restore"}, rest : Seq(Urls \cup {NoUrl})]

NoBuild == [kind |-> "none", page |-> NoPage, url |-> NoUrl, origin |-> "ui",
            caller |-> "open", rest |-> <<>>]
Idle == build = NoBuild

-----------------------------------------------------------------------------
(* Page::current_url.                                                      *)
CurrentUrl(p) == IF p \in core.engine THEN url[p] ELSE lastUrl[p]

(* build_session.  The file holds URLs (and titles) only; the id is kept   *)
(* here to tell which page a saved entry stands for.                       *)
Session ==
  [pages |-> [i \in 1..Len(core.pages) |->
                [page |-> core.pages[i], url |-> CurrentUrl(core.pages[i])]],
   active |-> IF core.active \in Live(core) THEN Position(core, core.active) ELSE 0]

NoSession == [pages |-> <<>>, active |-> 0]

(* save_session, after the rest of the handler.                            *)
SaveSession == disk' = IF restoring' THEN disk ELSE Session'

(* gtk::Stack: the first container becomes visible by itself, removing the *)
(* visible one leaves none, and asking for an unknown name does nothing.   *)
StackAdd(s, id) == IF s = NoPage THEN id ELSE s
StackRemove(s, id) == IF s = id THEN NoPage ELSE s
StackShow(k, s, id) == IF id \in k THEN id ELSE s

(* Mutant: a page keeps the URL of its first unloading.                    *)
FrozenOnce(c, u, gone) ==
  [p \in Ids |-> IF p \in gone \cap c.engine /\ lastUrl[p] = NoUrl THEN u[p] ELSE lastUrl[p]]
(* unload_engines on the pages `gone': each freezes its URL and drops its  *)
(* engine.  c is the core and u the engines' URLs when it is called.       *)
Unload(c, gone) == [c EXCEPT !.engine = @ \ gone]
Frozen(c, u, gone) ==
  [p \in Ids |-> IF p \in gone \cap c.engine THEN u[p] ELSE lastUrl[p]]
Without(u, gone) == [p \in Ids |-> IF p \in gone THEN NoUrl ELSE u[p]]

(* add_unloaded_page for n more pages of the restore plan.                 *)
Registered(c, n) ==
  LET new == c.next_id .. c.next_id + n - 1
  IN [c EXCEPT !.pages = @ \o [i \in 1..n |-> c.next_id + i - 1],
               !.accessed = [q \in Live(c) \cup new |->
                               IF q \in new THEN Len(c.pages) + 1 + q - c.next_id
                               ELSE c.accessed[q]],
               !.next_id = @ + n]

-----------------------------------------------------------------------------
(* Mutant: handlers start also after gtk::main has been told to return.    *)
MayRunAfterQuit(origin) ==
  /\ up
  /\ ~Idle => ~(origin = "rpc" /\ build.origin = "rpc")

(* Whose turn it is: at the top of the main loop any handler may run until *)
(* gtk::main returns; inside a build any but a second internal RPC call,   *)
(* whose channel source is not dispatched while it is being dispatched.    *)
MayRun(origin) ==
  /\ up
  /\ Idle => ~quitting
  /\ ~Idle => ~(origin = "rpc" /\ build.origin = "rpc")

(* What is left of a process: the session file, and the limit, which the   *)
(* settings keep.                                                          *)
Gone ==
  /\ up' = FALSE
  /\ core' = New(core.limit)
  /\ url' = [p \in Ids |-> NoUrl] /\ lastUrl' = [p \in Ids |-> NoUrl]
  /\ containers' = {} /\ shown' = NoPage
  /\ build' = NoBuild
  /\ restoring' = FALSE /\ quitting' = FALSE /\ failed' = FALSE
  /\ UNCHANGED disk

(* WryEngine::new is called; c, k and s are the core, the containers and   *)
(* the visible child the handler has made of them by then.  Inside another *)
(* build the context is already mutably borrowed, and the process aborts.  *)
StartBuild(c, k, s, handler) ==
  \/ /\ Idle
     /\ core' = c /\ containers' = k /\ shown' = s
     /\ build' = handler
     /\ UNCHANGED <<up, url, lastUrl, restoring, quitting, failed, disk>>
  \/ ~Idle /\ Gone

(* add_page up to the engine.                                              *)
StartAddPage(c, k, s, u, origin, caller, rest) ==
  /\ c.next_id < MaxPages
  /\ StartBuild(AllocateId(c), k \cup {c.next_id}, StackAdd(s, c.next_id),
                [kind |-> "page", page |-> c.next_id, url |-> u, origin |-> origin,
                 caller |-> caller, rest |-> rest])

(* set_active, in the same terms: it first rebuilds the engine of a page   *)
(* that lost its own (ensure_engine_loaded).                               *)
Activate(c, k, s, id, origin, caller) ==
  \/ /\ id \in Live(c) \ c.engine /\ id \in k
     /\ StartBuild(c, k, s,
                   [kind |-> "reload", page |-> id, url |-> lastUrl[id],
                    origin |-> origin, caller |-> caller, rest |-> <<>>])
  \/ /\ ~(id \in Live(c) \ c.engine /\ id \in k)
     /\ core' = SetActive(c, id)
     /\ containers' = k
     /\ shown' = StackShow(k, s, id)
     /\ UNCHANGED <<up, url, lastUrl, build, restoring, quitting, failed>>
     /\ SaveSession

-----------------------------------------------------------------------------
(* The handlers.                                                           *)

(* A new page from the address bar or from an internal page.               *)
AddPage(u, origin) ==
  /\ MayRun(origin)
  /\ StartAddPage(core, containers, shown, u, origin, "open", <<>>)

(* WebKit's create signal on a live page, with a user gesture behind it:   *)
(* add_page_related.  The new view has no URL: WebKit navigates it itself  *)
(* once the signal's handler has returned (new_related).                   *)
AddPageRelated ==
  /\ MayRun("ui")
  /\ core.engine # {}
  /\ core.next_id < MaxPages
  /\ StartBuild(AllocateId(core), containers \cup {core.next_id},
                StackAdd(shown, core.next_id),
                [kind |-> "related", page |-> core.next_id, url |-> NoUrl, origin |-> "ui",
                 caller |-> "open", rest |-> <<>>])

(* The switcher's webview on first use, and the profile menu's every time. *)
OpenChrome ==
  /\ MayRun("ui")
  /\ StartBuild(core, containers, shown, [NoBuild EXCEPT !.kind = "chrome"])

(* An id that some list of pages has named: not one whose engine is still  *)
(* being built for the first time.                                         *)
Named ==
  {id \in 0 .. core.next_id - 1 :
     ~(build.kind \in {"page", "related"} /\ id = build.page)}

(* switch_to: from the address bar a page that is open, from the switcher  *)
(* one that was when the switcher listed it.                               *)
SwitchTo(id, origin) ==
  /\ MayRun(origin)
  /\ origin = "ui" => id \in Live(core)
  /\ Activate(core, containers, shown, id, origin, "open")

SwitchToNextPage ==
  /\ MayRun("ui")
  /\ NextPageId(core) # NoPage
  /\ Activate(core, containers, shown, NextPageId(core), "ui", "open")

SwitchToPreviousPage ==
  /\ MayRun("ui")
  /\ PreviousPageId(core) # NoPage
  /\ Activate(core, containers, shown, PreviousPageId(core), "ui", "open")

(* close_page with its removals done: it shows the first page left, or     *)
(* opens the start page when none is.                                      *)
AfterClosing(c, k, s, id, origin) ==
  \/ /\ id # core.active
     /\ core' = c /\ containers' = k /\ shown' = s
     /\ UNCHANGED <<up, url, lastUrl, build, restoring, quitting, failed>>
     /\ SaveSession
  \/ /\ id = core.active /\ c.pages # <<>>
     /\ Activate(c, k, s, c.pages[1], origin, "close")
  \/ /\ id = core.active /\ c.pages = <<>>
     /\ StartAddPage(c, k, s, StartPage, origin, "close", <<>>)

(* Mutant: the container stays in the stack.                               *)
ClosePageKeepingContainer(id, origin) ==
  /\ MayRun(origin)
  /\ origin = "ui" => id = core.active
  /\ AfterClosing(Remove(core, id), containers, shown, id, origin)

(* close_page: the key closes whatever active_id names, the switcher a     *)
(* page it listed.                                                         *)
ClosePage(id, origin) ==
  /\ MayRun(origin)
  /\ origin = "ui" => id = core.active
  /\ AfterClosing(Remove(core, id), containers \ {id},
                  IF id \in containers THEN StackRemove(shown, id) ELSE shown, id, origin)

(* set_max_loaded_pages, from the settings page.                           *)
SetLimit(limit) ==
  /\ MayRun("rpc")
  /\ LET c == Relimited(core, limit)
     IN /\ core' = Unload(Enforced(c), Evicted(c))
        /\ lastUrl' = Frozen(c, url, Evicted(c))
        /\ url' = Without(url, Evicted(c))
  /\ UNCHANGED <<up, containers, shown, build, restoring, quitting, failed, disk>>

(* A page navigates: its URL changes, and no handler runs for that.        *)
Navigate(p, u) ==
  /\ up
  /\ p \in core.engine
  /\ url' = [url EXCEPT ![p] = u]
  /\ UNCHANGED <<up, core, lastUrl, containers, shown, build, restoring, quitting, failed, disk>>

(* A title arrives, of a live page or of the one being built.              *)
TitleChanged ==
  /\ MayRun("ui")
  /\ core.engine # {} \/ build.kind \in {"page", "related", "reload"}
  /\ UNCHANGED <<up, core, url, lastUrl, containers, shown, build, restoring, quitting, failed>>
  /\ SaveSession

(* quit.  A plain launch restores before gtk::main, where main_quit has no *)
(* loop to end; after a passphrase prompt it has.                          *)
Quit ==
  /\ MayRun("ui")
  /\ quitting' \in IF restoring THEN {quitting, TRUE} ELSE {TRUE}
  /\ UNCHANGED <<up, core, url, lastUrl, containers, shown, build, restoring, failed>>
  /\ SaveSession
-----------------------------------------------------------------------------
(* The rest of a handler, once WryEngine::new has returned an engine.      *)

(* What a restore does after its active page, engine or no engine: it      *)
(* registers the pages that come after it, and may save from then on.      *)
(* c is the core by then and l its last_urls; for any other caller there   *)
(* are no such pages.                                                      *)
RegisterRest(c, l) ==
  LET new == c.next_id .. c.next_id + Len(build.rest) - 1
  IN /\ core' = Registered(c, Len(build.rest))
     /\ lastUrl' = [p \in Ids |-> IF p \in new THEN build.rest[p - c.next_id + 1] ELSE l[p]]
     /\ containers' = containers \cup new
     /\ restoring' = (restoring /\ build.caller # "restore")

FinishAddPage ==
  LET id == build.page
      c == Inserted(core, id)
      u == [url EXCEPT ![id] = build.url]
  IN /\ up /\ build.kind = "page"
     /\ RegisterRest(SetActive(Unload(Enforced(c), Evicted(c)), id), Frozen(c, u, Evicted(c)))
     /\ url' = Without(u, Evicted(c))
     /\ shown' = StackShow(containers, shown, id)
     /\ build' = NoBuild
     /\ UNCHANGED <<up, quitting, failed>>
     /\ SaveSession

(* Mutant: a page opened by another is saved with the next change.         *)
FinishAddPageRelatedUnsaved ==
  LET id == build.page
      c == InsertedBackground(core, id)
  IN /\ up /\ build.kind = "related"
     /\ core' = Unload(Enforced(c), Evicted(c))
     /\ lastUrl' = Frozen(c, url, Evicted(c))
     /\ url' = Without(url, Evicted(c))
     /\ build' = NoBuild
     /\ UNCHANGED <<up, containers, shown, restoring, quitting, failed, disk>>

FinishAddPageRelated ==
  LET id == build.page
      c == InsertedBackground(core, id)
  IN /\ up /\ build.kind = "related"
     /\ core' = Unload(Enforced(c), Evicted(c))
     /\ lastUrl' = Frozen(c, url, Evicted(c))
     /\ url' = Without(url, Evicted(c))
     /\ build' = NoBuild
     /\ UNCHANGED <<up, containers, shown, restoring, quitting, failed>>
     /\ SaveSession

(* The page may have been closed meanwhile: install_engine then drops the  *)
(* engine, and set_active goes on all the same.                            *)
FinishReload ==
  LET id == build.page
  IN /\ up /\ build.kind = "reload"
     /\ core' = SetActive(InstallEngine(core, id), id)
     /\ url' = IF id \in Live(core) THEN [url EXCEPT ![id] = build.url] ELSE url
     /\ shown' = StackShow(containers, shown, id)
     /\ build' = NoBuild
     /\ UNCHANGED <<up, lastUrl, containers, restoring, quitting, failed>>
     /\ SaveSession

FinishChrome ==
  /\ up /\ build.kind = "chrome"
  /\ build' = NoBuild
  /\ UNCHANGED <<up, core, url, lastUrl, containers, shown, restoring, quitting, failed, disk>>

(* The rest of a handler, once WryEngine::new has returned an error.       *)

(* Mutant: a restore ends where its active page fails to open.             *)
FailAddPageAborting ==
  /\ up /\ build.kind = "page"
  /\ build' = NoBuild /\ failed' = TRUE
  /\ restoring' = FALSE
  /\ UNCHANGED <<up, core, url, lastUrl, containers, shown, quitting>>
  /\ SaveSession

FailAddPage ==
  /\ up /\ build.kind = "page"
  /\ build' = NoBuild /\ failed' = TRUE
  /\ UNCHANGED <<up, url, shown, quitting>>
  /\ \/ /\ build.caller = "open"
        /\ UNCHANGED <<core, lastUrl, containers, restoring, disk>>
     \/ /\ build.caller \in {"close", "restore"}
        /\ RegisterRest(core, lastUrl)
        /\ SaveSession

FailAddPageRelated ==
  /\ up /\ build.kind \in {"related", "chrome"}
  /\ build' = NoBuild /\ failed' = TRUE
  /\ UNCHANGED <<up, core, url, lastUrl, containers, shown, restoring, quitting, disk>>

FailReload ==
  /\ up /\ build.kind = "reload"
  /\ core' = SetActive(core, build.page)
  /\ shown' = StackShow(containers, shown, build.page)
  /\ build' = NoBuild /\ failed' = TRUE
  /\ UNCHANGED <<up, url, lastUrl, containers, restoring, quitting>>
  /\ SaveSession

EndBuild ==
  \/ FinishAddPage \/ FinishAddPageRelated \/ FinishReload \/ FinishChrome
  \/ FailAddPage \/ FailAddPageRelated \/ FailReload

-----------------------------------------------------------------------------
(* The process.                                                            *)

(* A new process registers the pages before its first real one, and is     *)
(* then suspended in the engine of that one.                               *)
Launch(before, first, caller, rest) ==
  LET n == Len(before)
  IN /\ ~up
     /\ up' = TRUE
     /\ core' = AllocateId(Registered(New(core.limit), n))
     /\ url' = [p \in Ids |-> NoUrl]
     /\ lastUrl' = [p \in Ids |-> IF p < n THEN before[p + 1] ELSE NoUrl]
     /\ containers' = 0..n
     /\ shown' = 0
     /\ build' = [kind |-> "page", page |-> n, url |-> first, origin |-> "ui",
                  caller |-> caller, rest |-> rest]
     /\ restoring' = (caller = "restore")
     /\ quitting' = FALSE /\ failed' = FALSE
     /\ UNCHANGED disk

(* open_start_page_or_restored_session, on resolve_restore_plan.           *)
Restore ==
  LET urls == IF disk.pages = <<>> THEN <<StartPage>>
              ELSE [i \in 1..Len(disk.pages) |-> disk.pages[i].url]
      active == IF disk.active = 0 THEN 1 ELSE disk.active
  IN Launch(SubSeq(urls, 1, active - 1), urls[active], "restore",
            SubSeq(urls, active + 1, Len(urls)))

(* show_external_link_chooser: the profile's window opens on a link alone. *)
OpenLink(u) == Launch(<<>>, u, "open", <<>>)

(* gtk::main returns once the handler that quit, and any it is nested in,  *)
(* have returned.                                                          *)
Exit == up /\ Idle /\ quitting /\ Gone

(* The system kills the process, between two handlers or inside a build.   *)
Kill == up /\ Gone

Init ==
  /\ up = FALSE
  /\ \E limit \in Limits : core = New(limit)
  /\ url = [p \in Ids |-> NoUrl]
  /\ lastUrl = [p \in Ids |-> NoUrl]
  /\ containers = {}
  /\ shown = NoPage
  /\ build = NoBuild
  /\ restoring = FALSE
  /\ quitting = FALSE /\ failed = FALSE
  /\ disk = NoSession

Next ==
  \/ \E u \in Urls, origin \in Origins : AddPage(u, origin)
  \/ AddPageRelated
  \/ OpenChrome
  \/ \E id \in Named, origin \in Origins : SwitchTo(id, origin)
  \/ SwitchToNextPage
  \/ SwitchToPreviousPage
  \/ \E id \in Named \cup {NoPage}, origin \in Origins : ClosePage(id, origin)
  \/ \E limit \in Limits : SetLimit(limit)
  \/ \E p \in Ids, u \in Urls : Navigate(p, u)
  \/ TitleChanged
  \/ Quit
  \/ EndBuild
  \/ Restore
  \/ \E u \in Urls : OpenLink(u)
  \/ Exit
  \/ Kill

Spec == Init /\ [][Next]_vars

(* A build ends, as the queue of pending events does, and gtk::main        *)
(* returns once it has been told to and its handlers are done.             *)
FairSpec == Spec /\ WF_vars(EndBuild) /\ WF_vars(Exit)

-----------------------------------------------------------------------------
(* Every variable has its type; an id under construction is not in the Vec *)
(* and has its container.                                                  *)
TypeOK ==
  /\ up \in BOOLEAN /\ restoring \in BOOLEAN /\ quitting \in BOOLEAN /\ failed \in BOOLEAN
  /\ CoreTypeOK(core) /\ IdsUnique(core) /\ AgesTotal(core)
  /\ core.limit \in Limits /\ core.next_id <= MaxPages
  /\ url \in [Ids -> Urls \cup {NoUrl}] /\ lastUrl \in [Ids -> Urls \cup {NoUrl}]
  /\ containers \subseteq Ids /\ shown \in containers \cup {NoPage}
  /\ build \in Handlers
  /\ build.kind \in {"page", "related"} =>
       build.page \in (containers \cap 0 .. core.next_id - 1) \ Live(core)
  /\ disk.pages \in Seq([page : Ids, url : Urls \cup {NoUrl}])
  /\ disk.active \in 0 .. Len(disk.pages)

(* A page that holds an engine counts against the limit, also while a      *)
(* build is under way: no webview outlives its page's eviction             *)
(* (unload_engines after insert, insert_background, set_max_loaded_pages;  *)
(* install_engine before set_active).                                      *)
EngineIsLoaded == core.engine \subseteq core.loaded

(* A page can always be shown and rebuilt: its container is there for as   *)
(* long as it is in the Vec (add_page, add_unloaded_page, close_page).     *)
PagesHaveContainers == Live(core) \subseteq containers

SavedPages == {disk.pages[i].page : i \in 1..Len(disk.pages)}

(* At every moment the process can die, in the middle of a build too, the  *)
(* session file holds every page that is open; until a restore is complete *)
(* it holds the session being restored (save_session, restoring).          *)
OpenPagesSaved == ~restoring => Live(core) \subseteq SavedPages

(* Between two handlers the file lists exactly the open pages, in order,   *)
(* with the active one marked (save_session in set_active, close_page,     *)
(* add_page_related and at the end of a restore).  A link that fails to    *)
(* open leaves a window without pages, and the file alone.                 *)
IdleSessionMatches ==
  up /\ Idle /\ core.pages # <<>> =>
    /\ [i \in 1..Len(disk.pages) |-> disk.pages[i].page] = core.pages
    /\ disk.active = Session.active

(* Between two handlers the stack shows the page active_id names, if there *)
(* is one by that id (set_active, close_page).                             *)
IdleShowsActive == up /\ Idle /\ core.active \in Live(core) => shown = core.active

(* Unless an engine has failed to build, the page in front has one, counts *)
(* against the limit, and no page is marked loaded without one             *)
(* (ensure_engine_loaded in set_active).                                   *)
IdleActiveHasEngine ==
  up /\ Idle /\ ~failed =>
    /\ core.active \in Live(core) => core.active \in core.engine
    /\ core.loaded = core.engine

(* Unless an engine has failed to build, there is a container for each     *)
(* open page and the one being built, and none left over (close_page).     *)
NoStrayContainers ==
  ~failed => containers = Live(core) \cup
    (IF build.kind \in {"page", "related"} THEN {build.page} ELSE {})

(* The window and its file follow the pages it lists: none of the above is *)
(* broken by a build that fails, by a handler that runs nested in a build, *)
(* by a kill or by the restore that follows it.                            *)
WindowFollowsPages ==
  /\ EngineIsLoaded /\ PagesHaveContainers /\ NoStrayContainers
  /\ IdleSessionMatches /\ IdleShowsActive /\ IdleActiveHasEngine

-----------------------------------------------------------------------------
(* Unloading a page and bringing it back does not change the URL it is at  *)
(* (last_url, unload_engines, ensure_engine_loaded).                       *)
UnloadingKeepsUrl ==
  [][up /\ up' =>
       \A p \in Live(core) \cap Live(core') :
          (p \in core.engine) # (p \in core'.engine) => CurrentUrl(p)' = CurrentUrl(p)]_vars

(* Until a restore is complete the session it reads stays on disk, and     *)
(* when it is, every tab after the active one is back under its URL,       *)
(* whether or not the active one could be opened                           *)
(* (open_start_page_or_restored_session).                                  *)
RestoreKeepsOtherTabs ==
  [][restoring =>
       \/ disk' = disk
       \/ LET n == Len(build.rest)
              old == Len(disk.pages) - n
              new == Len(disk'.pages) - n
          IN /\ ~restoring'
             /\ n > 0 => /\ new >= 0
                         /\ \A i \in 1..n : disk'.pages[new + i].url = disk.pages[old + i].url]_vars

(* A window that has been told to quit ends, whatever build it is in the   *)
(* middle of, under the fairness of its main loop (main_quit, EndBuild).   *)
QuitEnds == up /\ quitting ~> ~up

-----------------------------------------------------------------------------
(* Sentences of the code that TLC refutes when they are added to the      *)
(* run (README, "What the code does not keep").                            *)

(* "Only ever `None` for a non-foreground page - the active page is never  *)
(* unloaded" (Page.engine).                                                *)
ActiveNeverWithoutEngine ==
  up /\ Idle /\ core.active \in Live(core) => core.active \in core.engine

(* "the session on disk is meant to always already reflect current state"  *)
(* (save_session).                                                         *)
SessionReflectsState == up /\ Idle => disk = Session

(* The last_url of an unloaded page is "the only source of truth for the   *)
(* URL" (Page.last_url): a page opened by another and evicted, or saved,   *)
(* before WebKit has navigated it comes back blank.                        *)
UnloadedPagesHaveUrl == \A p \in Live(core) \ core.engine : lastUrl[p] \in Urls
=============================================================================
