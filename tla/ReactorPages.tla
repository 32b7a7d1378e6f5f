---------------------------- MODULE ReactorPages ----------------------------
(***************************************************************************)
(* The Windows front end's pages (browser-windows-reactor).  The window is *)
(* a function of the state: a handler changes the core and bumps a         *)
(* counter, and a render that follows makes one WebView2 element per       *)
(* loaded page.  The elements have no keys (with_key is a no-op on them),  *)
(* so the reconciler matches them with the controls there are by their     *)
(* place, and leaves a control it has matched alone, whichever page it was *)
(* mounted for: once a page that is not the last has lost its engine or is *)
(* closed, controls and pages are out of line, and `slots' says which page *)
(* each control really belongs to.  A control is usable only after its     *)
(* mount: EnsureCoreWebView2Async calls on_ready, which puts its work off  *)
(* to a timer tick.  The URL of a page is therefore kept twice, in the     *)
(* WebView that its engine holds and in last_url.                          *)
(*                                                                         *)
(* External, from how the crate uses it: a render mounts and unmounts      *)
(* controls at once; what the user does runs a closure of the last render  *)
(* and may come before a render that is due; a control that goes before it *)
(* was ready never is; a WebView whose control has gone fires no events,   *)
(* and tells its last Source or nothing.                                   *)
(***************************************************************************)
EXTENDS PageManagerOps, VecFilter

CONSTANTS
  Urls,            (* URLs a page can be at *)
  StartPage,       (* settings.start_page *)
  HomeUrl,         (* HOME_URL *)
  NoUrl,           (* the empty string *)
  Blank,           (* what a new control says its Source is *)
  NoWeb,           (* the engine holds no WebView *)
  Limits,          (* the values of max_loaded_pages the user sets *)
  MaxPages,        (* bound: ids a process allocates *)
  MaxAsked         (* bound: new-window requests waiting for their tick *)

ASSUME ReactorUrlsAssumption ==
         /\ {StartPage, HomeUrl} \subseteq Urls
         /\ NoUrl \notin Urls /\ Blank \notin Urls /\ NoUrl # Blank
         /\ NoWeb \notin Urls \cup {NoUrl, Blank}
ASSUME ReactorLimitsAssumption == Limits # {} /\ Limits \subseteq Nat \cup {Unlimited}
ASSUME ReactorBoundAssumption == MaxPages \in Nat \ {0} /\ MaxAsked \in Nat

VARIABLES
  up,          (* the process runs *)
  core,        (* core; active_id and active_id_ref follow its active_id *)
  last,        (* last_url of the open pages *)
  web,         (* the Source of the WebView a page's engine holds, or NoWeb *)
  due,         (* a render is due *)
  view,        (* what the closures of the last render know *)
  slots,       (* the WebView2 controls, in the grid's order *)
  late,        (* the on_ready ticks whose control has gone *)
  asked,       (* new-window requests whose tick is still to come *)
  pending,     (* the keys of pending_new_windows *)
  restoring,   (* restoring *)
  plan,        (* the URLs a restore has still to open *)
  disk         (* the session file *)

vars == <<up, core, last, web, due, view, slots, late, asked, pending, restoring, plan, disk>>
process == <<up, restoring, plan>>
window == <<due, view, late>>

Ids == 0 .. MaxPages - 1

(* A control.  `live': its cells are those of the engine its page has now; *)
(* `held': xaml_handle is this control; `settled': it completed the last   *)
(* navigation that one of its page's controls has completed.               *)
Widget == [page : Ids, live : BOOLEAN, held : BOOLEAN, shown : BOOLEAN, settled : BOOLEAN,
           stage : {"mounting", "deferred", "ready", "replaced"},
           source : Urls \cup {Blank}, going : Urls \cup {Blank, NoUrl}]

-----------------------------------------------------------------------------
(* Page::current_url: an engine that holds no WebView yet fails.           *)
CurrentUrl(p) == IF web[p] = NoWeb THEN last[p] ELSE web[p]

(* save_session                                                            *)
Session ==
  [pages |-> [i \in 1..Len(core.pages) |->
                [page |-> core.pages[i], url |-> CurrentUrl(core.pages[i])]],
   active |-> IF core.active \in Live(core) THEN Position(core, core.active) ELSE 0]
SaveSession == disk' = IF restoring' THEN disk ELSE Session'

(* take_engine of the evicted, and the engines of the closed: their        *)
(* controls stay until a render unmounts them, if one does.                *)
Unload(c, gone) == [c EXCEPT !.engine = @ \ gone]
Orphaned(s, gone) ==
  [i \in 1..Len(s) |-> IF s[i].page \in gone
                       THEN [s[i] EXCEPT !.live = FALSE, !.held = FALSE] ELSE s[i]]
DropEngines(gone) ==
  /\ slots' = Orphaned(slots, gone)
  /\ late' = {[t EXCEPT !.live = @ /\ t.page \notin gone] : t \in late}
  /\ web' = [p \in Ids |-> IF p \in gone THEN NoWeb ELSE web[p]]

(* Mutant: the id is looked at, not allocated.                             *)
DoAddPagePeeking(c, closed, url) ==
  LET id == c.next_id
      d == Inserted(c, id)
  IN /\ core' = Unload(Enforced(d), Evicted(d))
     /\ last' = [last EXCEPT ![id] = url]
     /\ DropEngines(closed \cup Evicted(d))

(* do_add_page, on the core c its caller has left, with pages just closed. *)
DoAddPage(c, closed, url) ==
  LET id == c.next_id
      d == Inserted(AllocateId(c), id)
  IN /\ core' = Unload(Enforced(d), Evicted(d))
     /\ last' = [last EXCEPT ![id] = url]
     /\ DropEngines(closed \cup Evicted(d))

(* ensure_engine_loaded, which leaves a page alone that is not there, and  *)
(* set_active of switch_to.                                                *)
Switched(c, id) == SetActive(IF id \in c.engine THEN c ELSE InstallEngine(c, id), id)

-----------------------------------------------------------------------------
(* What the user does, through the closures of the last render.            *)
Runs == up /\ ~restoring

AddPageAndSwitch(url) ==
  /\ Runs /\ core.next_id < MaxPages
  /\ DoAddPage(core, {}, url)
  /\ due' = TRUE
  /\ UNCHANGED <<process, view, asked, pending>>
  /\ SaveSession

(* switch_to, of a page there is (Enter, the keys) or of a tile, whose     *)
(* page may have been closed since it was rendered.                        *)
SwitchTo(id) ==
  /\ Runs
  /\ id \in view.listed \cup Live(core)
  /\ core' = Switched(core, id)
  /\ due' = TRUE
  /\ UNCHANGED <<process, last, web, view, slots, late, asked, pending>>
  /\ SaveSession

NextPage == NextPageId(core) # NoPage /\ SwitchTo(NextPageId(core))
PreviousPage == PreviousPageId(core) # NoPage /\ SwitchTo(PreviousPageId(core))

(* Mutant: nothing comes in the place of the last page.                    *)
NoReplacement(c, id) == core' = c /\ DropEngines({id}) /\ UNCHANGED last
(* add_page_and_switch(start_page)                                         *)
Replacement(c, id) == c.next_id < MaxPages /\ DoAddPage(c, {id}, StartPage)

(* close_page, which only a key reaches, with the id that was active when  *)
(* the window was rendered.                                                *)
ClosePage ==
  LET id == view.active
      c == Remove(core, id)
  IN /\ Runs
     /\ \/ /\ id # core.active
           /\ core' = c /\ DropEngines({id}) /\ UNCHANGED last
        \/ /\ id = core.active /\ c.pages # <<>>
           /\ core' = Switched(c, c.pages[1]) /\ DropEngines({id}) /\ UNCHANGED last
        \/ /\ id = core.active /\ c.pages = <<>>
           /\ Replacement(c, id)
     /\ due' = TRUE
     /\ UNCHANGED <<process, view, asked, pending>>
     /\ SaveSession

(* save_settings, as far as pages go: nothing is saved here.               *)
SaveSettings(limit) ==
  LET c == Relimited(core, limit)
  IN /\ Runs
     /\ core' = Unload(Enforced(c), Evicted(c))
     /\ DropEngines(Evicted(c))
     /\ due' = TRUE
     /\ UNCHANGED <<process, last, view, asked, pending, disk>>

-----------------------------------------------------------------------------
(* A render: page_elements, of the loaded pages, and the reconciler.       *)
Loaded(c) == Filter(c.pages, c.loaded)

(* A control is mounted with the last_url of the page it is for.           *)
Mounted(p, front) ==
  [page |-> p, live |-> TRUE, held |-> TRUE, shown |-> p = front, settled |-> FALSE,
   stage |-> "mounting", source |-> Blank,
   going |-> IF last[p] = NoUrl THEN HomeUrl ELSE last[p]]

(* Mutant: a control is shown or collapsed when it is mounted, not again.  *)
SetVisibleOnce(w, front) == w
(* page_element, for a control that is there: xaml_handle's is shown or    *)
(* collapsed.                                                              *)
SetVisible(w, front) == IF w.held THEN [w EXCEPT !.shown = w.page = front] ELSE w

(* The controls to unmount, and the pages whose xaml_handle changes: with  *)
(* the mount of a control for them, or the unmount of one of theirs.       *)
Unmounted(c) == {i \in 1..Len(slots) : i > Len(Loaded(c))}
Rehandled(c) ==
  {Loaded(c)[n] : n \in {m \in 1..Len(Loaded(c)) : m > Len(slots)}}
    \cup {slots[i].page : i \in {j \in Unmounted(c) : slots[j].live}}

Reconciled(c, front) ==
  [n \in 1..Len(Loaded(c)) |->
     IF n > Len(slots) THEN Mounted(Loaded(c)[n], front)
     ELSE [SetVisible(slots[n], front) EXCEPT !.held = @ /\ slots[n].page \notin Rehandled(c)]]

(* An engine keeps the WebView of a control that is unmounted.             *)
Render ==
  /\ Runs /\ due
  /\ due' = FALSE
  /\ view' = [active |-> core.active, listed |-> Live(core)]
  /\ slots' = Reconciled(core, core.active)
  /\ late' = late \cup {[page |-> slots[i].page, live |-> slots[i].live] :
                          i \in {j \in Unmounted(core) : slots[j].stage = "deferred"}}
  /\ \E mute \in SUBSET {slots[i].page : i \in {j \in Unmounted(core) :
                           slots[j].live /\ slots[j].stage = "ready"}} :
       web' = [p \in Ids |-> IF p \in mute THEN NoUrl ELSE web[p]]
  /\ UNCHANGED <<process, core, last, asked, pending, disk>>

-----------------------------------------------------------------------------
(* What the controls do: on_ready ...                                      *)
OnReady(i) ==
  /\ up /\ i \in 1..Len(slots)
  /\ slots[i].stage = "mounting"
  /\ slots' = [slots EXCEPT ![i].stage = "deferred"]
  /\ UNCHANGED <<process, core, last, web, window, asked, pending, disk>>

(* Mutant: the entry is looked up, not removed.                            *)
LookedUp(p) == pending
(* A pending new-window request is completed by the page it waits for.     *)
Resolved(p) == pending \ {p}

(* A tick puts a WebView into the cells of its page's engine: one that was *)
(* there is lost, and its callbacks with it.                               *)
Outdone(w, p) == IF w.live /\ w.page = p /\ w.stage = "ready"
                 THEN [w EXCEPT !.stage = "replaced"] ELSE w

(* ... and its tick (run_deferred_callbacks), whose nested message pump    *)
(* comes before all it does.  A page some new-window request waits for is  *)
(* handed over, and WebView2 takes it where the opener asked.              *)
ReadyTick(i) ==
  LET p == slots[i].page
  IN /\ up /\ i \in 1..Len(slots)
     /\ slots[i].stage = "deferred"
     /\ pending' = Resolved(p)
     /\ \E u \in Urls :
          slots' = [j \in 1..Len(slots) |->
            IF j = i THEN [slots[i] EXCEPT !.stage = "ready",
                                           !.going = IF p \in pending THEN u ELSE @]
            ELSE IF slots[i].live THEN Outdone(slots[j], p) ELSE slots[j]]
     /\ web' = IF slots[i].live THEN [web EXCEPT ![p] = slots[i].source] ELSE web
     /\ UNCHANGED <<process, core, last, window, asked, disk>>

(* The same, when the control has gone since.                              *)
LateTick(t) ==
  /\ up /\ t \in late
  /\ late' = late \ {t}
  /\ pending' = Resolved(t.page)
  /\ \/ /\ t.live
        /\ slots' = [j \in 1..Len(slots) |-> Outdone(slots[j], t.page)]
        /\ \E s \in {Blank, NoUrl} : web' = [web EXCEPT ![t.page] = s]
     \/ ~t.live /\ UNCHANGED <<slots, web>>
  /\ UNCHANGED <<process, core, last, due, view, asked, disk>>

(* Source changes; a move within the document completes no navigation.     *)
SourceChanged(i, u) ==
  /\ up /\ i \in 1..Len(slots)
  /\ slots[i].stage = "ready" /\ slots[i].going \in {u, NoUrl}
  /\ slots' = [slots EXCEPT ![i].source = u, ![i].going = NoUrl, ![i].settled = FALSE]
  /\ web' = IF slots[i].live THEN [web EXCEPT ![slots[i].page] = u] ELSE web
  /\ UNCHANGED <<process, core, last, window, asked, pending, disk>>

(* Mutant: the page's URL is left to the moment it is unloaded.            *)
ReflectTitle(i) == UNCHANGED last
(* reflect: page_mut finds the page only while it is open.                 *)
Reflect(i) ==
  last' = [last EXCEPT ![slots[i].page] = IF slots[i].page \in Live(core)
                                          THEN slots[i].source ELSE @]

NavigationCompleted(i) ==
  /\ up /\ i \in 1..Len(slots)
  /\ slots[i].stage = "ready" /\ slots[i].going = NoUrl
  /\ slots' = [j \in 1..Len(slots) |->
                 IF slots[j].page = slots[i].page THEN [slots[j] EXCEPT !.settled = j = i] ELSE slots[j]]
  /\ Reflect(i)
  /\ due' = (due \/ slots[i].page = core.active)
  /\ UNCHANGED <<process, core, web, view, late, asked, pending, disk>>

TitleChanged(i) ==
  /\ up /\ i \in 1..Len(slots)
  /\ slots[i].stage = "ready"
  /\ due' = (due \/ slots[i].page = core.active)
  /\ UNCHANGED <<process, core, last, web, view, slots, late, asked, pending>>
  /\ SaveSession

(* new_window_requested by a click, which takes a deferral at once ...     *)
NewWindowRequested(i) ==
  /\ up /\ i \in 1..Len(slots)
  /\ slots[i].stage = "ready" /\ asked < MaxAsked
  /\ asked' = asked + 1
  /\ UNCHANGED <<process, core, last, web, window, slots, pending, disk>>

(* Mutant: a background tab is left to the next save.                      *)
SaveNothing == UNCHANGED disk
SaveBackground == SaveSession

(* ... and in a tick gets a background page to wait for, without a URL.    *)
NewWindowTick ==
  LET id == core.next_id
      d == InsertedBackground(AllocateId(core), id)
  IN /\ Runs /\ asked > 0 /\ id < MaxPages
     /\ asked' = asked - 1
     /\ core' = Unload(Enforced(d), Evicted(d))
     /\ DropEngines(Evicted(d))
     /\ last' = [last EXCEPT ![id] = NoUrl]
     /\ pending' = pending \cup {id}
     /\ due' = TRUE
     /\ UNCHANGED <<process, view>>
     /\ SaveBackground

-----------------------------------------------------------------------------
(* The first render: resolve_restore_plan, do_add_page for each URL, ...   *)
Planned == IF disk.pages = <<>> THEN <<StartPage>>
           ELSE [i \in 1..Len(disk.pages) |-> disk.pages[i].url]
PlannedActive == IF disk.pages = <<>> THEN 1 ELSE disk.active

(* The settings may have been changed since, by another process.           *)
Launch ==
  /\ ~up
  /\ up' = TRUE /\ restoring' = TRUE
  /\ plan' = Planned
  /\ \E limit \in Limits : core' = New(limit)
  /\ UNCHANGED <<last, web, window, slots, asked, pending, disk>>

RestorePage ==
  /\ up /\ restoring /\ plan # <<>>
  /\ plan' = Tail(plan)
  /\ DoAddPage(core, {}, Head(plan))
  /\ UNCHANGED <<up, restoring, due, view, asked, pending>>
  /\ SaveSession

(* ... switch_to the one that was active, the first save, and the rest of  *)
(* the render, in which active_id is still what it was when it began.      *)
EndRestore ==
  /\ up /\ restoring /\ plan = <<>>
  /\ restoring' = FALSE /\ due' = TRUE
  /\ core' = IF PlannedActive \in 1..Len(core.pages)
             THEN Switched(core, core.pages[PlannedActive]) ELSE core
  /\ slots' = Reconciled(core', NoPage)
  /\ view' = [active |-> NoPage, listed |-> Live(core)]
  /\ UNCHANGED <<up, plan, last, web, late, asked, pending>>
  /\ SaveSession

Gone ==
  /\ up' = FALSE /\ restoring' = FALSE /\ due' = FALSE
  /\ plan' = <<>> /\ slots' = <<>>
  /\ core' = New(core.limit)
  /\ last' = [p \in Ids |-> NoUrl] /\ web' = [p \in Ids |-> NoWeb]
  /\ view' = [active |-> NoPage, listed |-> {}]
  /\ late' = {} /\ asked' = 0 /\ pending' = {}

(* Ctrl+Q saves and exits; the window's own close button just ends it all. *)
Quit == Runs /\ Gone /\ disk' = Session
Kill == up /\ Gone /\ UNCHANGED disk

Init ==
  /\ up = FALSE /\ restoring = FALSE /\ due = FALSE
  /\ plan = <<>> /\ slots = <<>>
  /\ \E limit \in Limits : core = New(limit)
  /\ last = [p \in Ids |-> NoUrl] /\ web = [p \in Ids |-> NoWeb]
  /\ view = [active |-> NoPage, listed |-> {}]
  /\ late = {} /\ asked = 0 /\ pending = {}
  /\ disk = [pages |-> <<>>, active |-> 0]

Native(i) ==
  \/ OnReady(i)
  \/ ReadyTick(i)
  \/ \E u \in Urls : SourceChanged(i, u)
  \/ NavigationCompleted(i)
  \/ TitleChanged(i)
  \/ NewWindowRequested(i)

Next ==
  \/ \E u \in Urls : AddPageAndSwitch(u)
  \/ \E id \in Ids : SwitchTo(id)
  \/ NextPage
  \/ PreviousPage
  \/ ClosePage
  \/ \E limit \in Limits : SaveSettings(limit)
  \/ Render
  \/ \E i \in 1..MaxPages : Native(i)
  \/ \E t \in late : LateTick(t)
  \/ NewWindowTick
  \/ Launch
  \/ RestorePage
  \/ EndRestore
  \/ Quit
  \/ Kill

(* The message loop runs what is due: a render, on_ready (WebView2 starts) *)
(* and the timer's ticks.                                                  *)
Fairness ==
  /\ WF_vars(Render)
  /\ \A p \in Ids :
       /\ WF_vars(\E i \in 1..Len(slots) : slots[i].page = p /\ OnReady(i))
       /\ WF_vars(\E i \in 1..Len(slots) : slots[i].page = p /\ ReadyTick(i))

Spec == Init /\ [][Next]_vars /\ Fairness

-----------------------------------------------------------------------------
TypeOK ==
  /\ up \in BOOLEAN /\ restoring \in BOOLEAN /\ due \in BOOLEAN
  /\ CoreTypeOK(core) /\ IdsUnique(core) /\ AgesTotal(core)
  /\ core.limit \in Limits /\ core.next_id <= MaxPages
  /\ last \in [Ids -> Urls \cup {NoUrl, Blank}]
  /\ web \in [Ids -> Urls \cup {NoUrl, Blank, NoWeb}]
  /\ view.active \in Ids \cup {NoPage} /\ view.listed \subseteq Ids
  /\ slots \in Seq(Widget) /\ Len(slots) <= MaxPages
  /\ late \subseteq [page : Ids, live : BOOLEAN] /\ pending \subseteq 0 .. core.next_id - 1
  /\ asked \in 0..MaxAsked
  /\ plan \in Seq(Urls \cup {NoUrl, Blank})
  /\ disk.pages \in Seq([page : Ids, url : Urls \cup {NoUrl, Blank}])
  /\ disk.active \in 0 .. Len(disk.pages)

(* Once a render has caught up there are as many controls as loaded pages, *)
(* though they may not be theirs; a control that a page knows belongs to a *)
(* loaded page and is visible just when that page is in front; and the     *)
(* page in front, if it is still open, has an engine - however evictions,  *)
(* switches, also back to a page just evicted, and popups came between two *)
(* renders (page_elements, set_visible, ensure_engine_loaded).             *)
ControlsFollowPages ==
  Runs /\ ~due =>
    /\ Len(slots) = Len(Loaded(core))
    /\ \A n \in 1..Len(slots) :
         slots[n].held => /\ slots[n].page \in core.engine
                          /\ slots[n].shown <=> slots[n].page = core.active
    /\ core.active \in Live(core) => core.active \in core.engine

(* The window is never left without a page, which the next render would    *)
(* take for a start and restore the session again: neither by a key that   *)
(* closes the page of an older render nor by a tile whose page has gone    *)
(* (close_page, switch_to, core.is_empty() in app).                        *)
NeverEmpty == Runs => core.pages # <<>>

(* The tabs and the file behave as Tabs promises, though no hook sees the  *)
(* window close: save_session in every handler, a new background page's    *)
(* tick included, and none while restoring.                                *)
T == INSTANCE Tabs WITH
       TabIds <- Ids, loading <- restoring,
       tabs <- core.pages, front <- core.active,
       file <- [tabs |-> [i \in 1..Len(disk.pages) |-> disk.pages[i].page],
                front |-> disk.active]

RefinesTabs == T!TabsSpec

(* A page keeps its URL through what happens to its controls: when it is   *)
(* unloaded it stays where the control was that completed its page's last  *)
(* navigation, if that has not moved on since, and a restore ends with     *)
(* every page at the URL it was saved with, loaded or not (reflect's       *)
(* last_url, do_add_page, current_url).                                    *)
UrlsAreKept ==
  [][up /\ up' =>
       /\ \A i \in 1..Len(slots), p \in (core.engine \cap Live(core')) \ core'.engine :
            slots[i].page = p /\ slots[i].settled => CurrentUrl(p)' = slots[i].source
       /\ restoring /\ ~restoring' =>
            [n \in 1..Len(disk'.pages) |-> disk'.pages[n].url] = Planned]_vars

(* Until a page that is not the last loses its control's place, by being   *)
(* closed or evicted, each control is that of the loaded page in its place.*)
InLine ==
  \A n \in 1..Len(slots) :
    n <= Len(Loaded(core)) /\ slots[n].page = Loaded(core)[n] /\ slots[n].held

(* A page that a new-window request waits for gets its control, and the    *)
(* request is answered, unless controls and pages get out of line or the   *)
(* page loses its engine (do_add_page_pending_new_window, on_ready).  Out  *)
(* of line the request may wait for ever: see PendingOnlyInFlight.         *)
PopupsAreHandedOver ==
  \A p \in Ids : p \in pending ~> p \notin pending \/ p \notin core.engine \/ ~InLine

-----------------------------------------------------------------------------
(* Sentences of the code that TLC refutes when they are added to the run   *)
(* (README, "What the code does not keep").                                *)

(* "entries are removed as soon as they're resolved, so this only ever     *)
(* holds genuinely in-flight requests" (pending_new_windows): the page     *)
(* each entry waits for can still become ready.                            *)
PendingOnlyInFlight ==
  Runs /\ ~due =>
    \A p \in pending : \/ \E i \in 1..Len(slots) : slots[i].page = p
                       \/ \E t \in late : t.page = p

(* "every *loaded* page's `webview(..)` element stays mounted" (module     *)
(* comment): after a render each engine still has its control.             *)
LoadedStayMounted ==
  Runs /\ ~due =>
    \A p \in core.engine : \E i \in 1..Len(slots) : slots[i].page = p /\ slots[i].live

(* "real show/hide, not mount/unmount" (module comment): after a render    *)
(* no page but the one in front is seen.                                   *)
OnlyTheFrontIsSeen ==
  Runs /\ ~due => \A i \in 1..Len(slots) : slots[i].shown => slots[i].page = core.active
=============================================================================
