--------------------------- MODULE ReactorOverlays --------------------------
(***************************************************************************)
(* The Windows front end's overlays (browser-windows-reactor): the page    *)
(* switcher, the settings with the key bindings, and the profile picker.   *)
(*                                                                         *)
(* The window is a function of the state, computed by a render.  What the  *)
(* user then clicks or presses runs a closure of that render, which has    *)
(* the values of reactive state as they were (the overlay, the texts, the  *)
(* active page) beside references to what is live (the core, the settings, *)
(* the key bindings).  `shown' is what the last render captured.           *)
(*                                                                         *)
(* A render is due once a setter gives reactive state another value, or    *)
(* bump is called; what is not reactive needs the bump.  External, from    *)
(* how the crate uses it: setters called in a native callback, outside the *)
(* dispatch of reactor's own events, make no render due by themselves      *)
(* (enter_subscription's comment); the user and native callbacks may be    *)
(* faster than a render that is due.                                       *)
(*                                                                         *)
(* ReactorPages has the pages' controls and the session; a page here is    *)
(* its id and URL, which also stands for its title.                        *)
(***************************************************************************)
EXTENDS SwitcherRows

CONSTANTS
  Urls,          (* URLs of pages, and what the user types *)
  Visited,       (* what the history store holds, a sequence of URLs *)
  NoText,        (* the empty text *)
  Engines,       (* how many search engines there are *)
  Limits,        (* numbers the user gives as the limit *)
  Unlimited,     (* no limit *)
  Actions,       (* actions whose key bindings the user edits *)
  NoAction,
  Chords,        (* key chords *)
  MaxPages,      (* bound: ids a process allocates *)
  MaxUnseen      (* bound: handlers that run although a render is due *)

ASSUME OverlaysAssumption ==
         /\ NoText \notin Urls /\ Visited \in Seq(Urls)
         /\ Engines \in Nat \ {0}
         /\ Limits \subseteq Nat /\ Unlimited \notin Nat /\ NoText \notin Nat
         /\ NoAction \notin Actions
         /\ MaxPages \in Nat \ {0} /\ MaxUnseen \in Nat \ {0}

VARIABLES
  pages,       (* core: the open pages, in order *)
  active,      (* core's active id, and the reactive active_id *)
  nextId,      (* core's next_id *)
  url,         (* the URL of each page *)
  settings,    (* shared.settings *)
  bindings,    (* keybindings *)
  ui,          (* the other reactive state *)
  shown,       (* what the last render captured *)
  enter,       (* enter_action: the text it acts on, or NoText for None *)
  due          (* 0, or: a render is due, and how many handlers it has seen run *)

vars == <<pages, active, nextId, url, settings, bindings, ui, shown, enter, due>>

Ids == 0..MaxPages - 1
Texts == Urls \cup {NoText}
Overlays == {"none", "switcher", "settings", "profile"}
Settings == [start : Urls, engine : 1..Engines, limit : Limits \cup {1, Unlimited}]
(* The drafts: the fields of the settings overlay while they are edited.   *)
Drafts == [start : Urls, engine : 1..Engines, unlimited : BOOLEAN, limit : Limits \cup {1, NoText}]
UIs == [overlay : Overlays, query : Texts, drafts : Drafts,
        listening : Actions \cup {NoAction}, text : Chords \cup {NoText}]

-----------------------------------------------------------------------------
(* What app captures when it renders.                                      *)
View == [ui |-> ui, active |-> active, pages |-> pages,
         url |-> url, start |-> settings.start, bindings |-> bindings]

(* matching_ids: no page matches every text but the empty one.             *)
Matching(ps, at, text) == Filter(ps, {p \in Ids : text \in {NoText, at[p]}})

(* The tiles of a rendered switcher.                                       *)
Tiles(v) ==
  LET q == v.ui.query
  IN BuildSwitcherRows(Matching(v.pages, v.url, q), {v.url[p] : p \in Range(v.pages)},
                       q # NoText, Filter(Visited, {q}), <<>>, <<>>)

(* A closure of the last render runs; those of an overlay, if it shows it. *)
Runs == due =< MaxUnseen
On(overlay) == Runs /\ shown.ui.overlay = overlay

(* It makes a render due, or there may be one due already.                 *)
Makes(one) == due' = IF one \/ due > 0 THEN due + 1 ELSE 0

(* Mutant: the generation is the one that an earlier handler wrote.        *)
BumpAgain == Makes(FALSE)
(* bump: a generation that was never written before.                       *)
Bump == Makes(TRUE)

(* The setters of a handler that reactor dispatches.                       *)
Sets(new) == ui' = new /\ Makes(new # ui)
Without == [ui EXCEPT !.overlay = "none"]

(* switch_to, in pages that its caller leaves; any id will do.             *)
SwitchTo(ps, id) ==
  /\ pages' = ps /\ active' = id
  /\ ui' = Without
  /\ Bump
  /\ UNCHANGED <<nextId, url>>

(* add_page_and_switch                                                     *)
AddPageAndSwitch(ps, u) ==
  /\ nextId < MaxPages
  /\ pages' = Append(ps, nextId) /\ active' = nextId /\ nextId' = nextId + 1
  /\ url' = [url EXCEPT ![nextId] = u]
  /\ ui' = Without
  /\ Bump

(* close_page, of the page that was active when the chord was rendered.    *)
ClosePage(id) ==
  LET rest == Filter(pages, Ids \ {id})
  IN IF id # active
     THEN pages' = rest /\ Bump /\ UNCHANGED <<active, nextId, url, ui>>
     ELSE IF rest # <<>> THEN SwitchTo(rest, rest[1])
          ELSE AddPageAndSwitch(rest, settings.start)

core == <<pages, active, nextId, url>>
stores == <<settings, bindings>>
window == <<shown, enter>>

-----------------------------------------------------------------------------
(* The switcher                                                            *)

OpenSwitcher == Sets([ui EXCEPT !.query = NoText, !.overlay = "switcher"])

ToggleSwitcher ==
  /\ Runs
  /\ IF shown.ui.overlay = "switcher" THEN Sets(Without) ELSE OpenSwitcher
  /\ UNCHANGED <<core, stores, window>>

(* A click on the title chip: the switcher with the URL of the page that   *)
(* was active, unless it was open.                                         *)
CurrentUrl(id) == IF id \in Range(pages) THEN url[id] ELSE NoText
TitleChipClicked ==
  /\ Runs
  /\ shown.ui.overlay # "switcher"
  /\ Sets([ui EXCEPT !.query = CurrentUrl(shown.active), !.overlay = "switcher"])
  /\ UNCHANGED <<core, stores, window>>

TypeQuery(t) ==
  /\ On("switcher")
  /\ Sets([ui EXCEPT !.query = t])
  /\ UNCHANGED <<core, stores, window>>

(* A tile is selected: the grid's index into the tiles it was given.       *)
SelectTile(i) ==
  /\ On("switcher")
  /\ LET to == ActivateRow(Tiles(shown), i, shown.start)
     IN IF to = NoRow THEN Sets(ui) /\ UNCHANGED core
        ELSE IF to.kind = "switch" THEN SwitchTo(pages, to.of)
        ELSE AddPageAndSwitch(pages, to.of)
  /\ UNCHANGED <<stores, window>>

(* Ctrl+Enter: a new page, whatever matches.                               *)
ForceNewPageFromSearch ==
  /\ On("switcher") /\ shown.ui.query # NoText
  /\ AddPageAndSwitch(pages, shown.ui.query)
  /\ UNCHANGED <<stores, window>>

(* PreviewKeyDown, a native callback: enter_action with the text of the    *)
(* render that set it, on the pages there are; then bump.                  *)
ActivateSearch ==
  LET matching == Matching(pages, url, enter)
  IN /\ Runs /\ enter # NoText
     /\ IF Len(matching) = 1 THEN SwitchTo(pages, matching[1])
                             ELSE AddPageAndSwitch(pages, enter)
     /\ UNCHANGED <<stores, window>>

(* Escape, the close button and Cancel.                                    *)
CloseAnyOverlay ==
  /\ Runs
  /\ Sets(Without)
  /\ UNCHANGED <<core, stores, window>>

-----------------------------------------------------------------------------
(* The settings                                                            *)

(* The drafts that open_settings makes of the settings.                    *)
LoadedDrafts(s) == [start |-> s.start, engine |-> s.engine,
  unlimited |-> s.limit = Unlimited, limit |-> IF s.limit = Unlimited THEN NoText ELSE s.limit]

OpenSettings ==
  Sets([ui EXCEPT !.listening = NoAction, !.drafts = LoadedDrafts(settings),
                  !.overlay = "settings"])

ToggleSettings ==
  /\ Runs
  /\ IF shown.ui.overlay = "settings" THEN Sets(Without) ELSE OpenSettings
  /\ UNCHANGED <<core, stores, window>>

(* An edit of a field; the limit's is there only if there is a limit.      *)
EditDraft(d) ==
  /\ On("settings")
  /\ \/ \E u \in Urls : d = [ui.drafts EXCEPT !.start = u]
     \/ \E e \in 1..Engines : d = [ui.drafts EXCEPT !.engine = e]
     \/ d = [ui.drafts EXCEPT !.unlimited = ~@]
     \/ ~shown.ui.drafts.unlimited /\ \E l \in Limits \cup {NoText} : d = [ui.drafts EXCEPT !.limit = l]
  /\ d # ui.drafts
  /\ Sets([ui EXCEPT !.drafts = d])
  /\ UNCHANGED <<core, stores, window>>

(* save_settings, of the drafts as they were rendered.  A limit that is no *)
(* number means none, and zero means one.                                  *)
Largest(a, b) == IF a < b THEN b ELSE a
NewLimit(d) ==
  IF d.unlimited \/ d.limit = NoText THEN Unlimited ELSE Largest(d.limit, 1)
SaveSettings ==
  LET d == shown.ui.drafts
  IN /\ On("settings")
     /\ settings' = [start |-> d.start, engine |-> d.engine, limit |-> NewLimit(d)]
     /\ ui' = Without
     /\ Bump
     /\ UNCHANGED <<core, bindings, window>>

(* Key bindings, a section of the settings.                                *)
AddBinding(a) ==
  /\ On("settings") /\ shown.ui.listening # a
  /\ Sets([ui EXCEPT !.text = NoText, !.listening = a])
  /\ UNCHANGED <<core, stores, window>>

(* What is typed may be no chord (parse_chord), as the empty text is.      *)
TypeBinding(t) ==
  /\ On("settings") /\ shown.ui.listening # NoAction
  /\ Sets([ui EXCEPT !.text = t])
  /\ UNCHANGED <<core, stores, window>>

(* commit: the text of the render, the chords there are.                   *)
CommitBinding ==
  LET a == shown.ui.listening
      c == shown.ui.text
  IN /\ On("settings") /\ a # NoAction
     /\ bindings' = IF c = NoText THEN bindings ELSE [bindings EXCEPT ![a] = @ \cup {c}]
     /\ ui' = [ui EXCEPT !.listening = NoAction, !.text = NoText]
     /\ Bump
     /\ UNCHANGED <<core, settings, window>>

RemoveBinding(a, c) ==
  /\ On("settings") /\ c \in shown.bindings[a]
  /\ bindings' = [bindings EXCEPT ![a] = @ \ {c}]
  /\ Bump
  /\ UNCHANGED <<core, settings, window, ui>>

-----------------------------------------------------------------------------
(* The profile picker, and the keyboard                                    *)

ToggleProfile ==
  /\ Runs
  /\ Sets([ui EXCEPT !.overlay = IF shown.ui.overlay = "profile" THEN "none" ELSE "profile"])
  /\ UNCHANGED <<core, stores, window>>

(* The current profile closes the picker; another is launched, and closes  *)
(* it if that succeeds; so does a new one whether or not it does.          *)
ProfileChosen ==
  /\ On("profile")
  /\ Sets(ui) \/ Sets(Without)
  /\ UNCHANGED <<core, stores, window>>

(* Mutant: the key closes the page that has become active since.           *)
ClosePageNow == ClosePage(active)
(* dispatch_action: the key bindings' actions, for the page that was       *)
(* active when they were rendered; cycling goes from the one that is.      *)
ClosePageChord == ClosePage(shown.active)

Place(id) == CHOOSE i \in 1..Len(pages) : pages[i] = id
Neighbours ==
  IF active \notin Range(pages) THEN {}
  ELSE LET n == Len(pages)
           i == Place(active)
       IN {pages[(i % n) + 1], pages[((i + n - 2) % n) + 1]}

DispatchAction(a) ==
  /\ Runs
  /\ a \in Actions => shown.bindings[a] # {}
  /\ CASE a = "ClosePage"    -> ClosePageChord
       [] a = "OpenSwitcher" -> OpenSwitcher /\ UNCHANGED core
       [] a = "OpenSettings" -> OpenSettings /\ UNCHANGED core
       [] a = "OpenProfilePicker" -> Sets([ui EXCEPT !.overlay = "profile"]) /\ UNCHANGED core
       [] a = "NextPage"     -> \E id \in Neighbours : SwitchTo(pages, id)
  /\ UNCHANGED <<stores, window>>

-----------------------------------------------------------------------------
(* Native callbacks: a page has navigated or has a new title (reflect,     *)
(* title_changed), and a page opens another behind it.                     *)
Navigated(p, u) ==
  /\ Runs
  /\ p \in Range(pages) /\ url[p] # u
  /\ url' = [url EXCEPT ![p] = u]
  /\ IF p = active THEN Bump ELSE Makes(FALSE)
  /\ UNCHANGED <<pages, active, nextId, ui, stores, window>>

NewWindow(u) ==
  /\ Runs /\ nextId < MaxPages
  /\ pages' = Append(pages, nextId) /\ nextId' = nextId + 1
  /\ url' = [url EXCEPT ![nextId] = u]
  /\ Bump
  /\ UNCHANGED <<active, ui, stores, window>>

(* app clears enter_action and switcher_overlay sets it, to do nothing for *)
(* the empty text.                                                         *)
RefreshEnter == enter' = IF ui.overlay = "switcher" THEN ui.query ELSE NoText

(* app *)
Render ==
  /\ due > 0
  /\ shown' = View
  /\ RefreshEnter
  /\ due' = 0
  /\ UNCHANGED <<core, stores, ui>>

Init ==
  /\ pages = <<0>> /\ active = 0 /\ nextId = 1
  /\ url \in [Ids -> Urls]
  /\ \A p \in Ids : url[p] = url[0]
  /\ settings = [start |-> url[0], engine |-> 1, limit |-> Unlimited]
  /\ bindings = [a \in Actions |-> {}]
  /\ ui = [overlay |-> "none", query |-> NoText, drafts |-> [start |-> url[0], engine |-> 1, unlimited |-> TRUE, limit |-> NoText],
           listening |-> NoAction, text |-> NoText]
  /\ shown = View
  /\ enter = NoText
  /\ due = 0

Next ==
  \/ ToggleSwitcher \/ TitleChipClicked \/ ForceNewPageFromSearch \/ ActivateSearch
  \/ \E t \in Texts : TypeQuery(t)
  \/ \E i \in 1..Len(Tiles(shown)) : SelectTile(i)
  \/ CloseAnyOverlay
  \/ ToggleSettings \/ SaveSettings \/ CommitBinding
  \/ \E d \in Drafts : EditDraft(d)
  \/ \E a \in Actions : AddBinding(a) \/ \E c \in Chords : RemoveBinding(a, c)
  \/ \E t \in Chords \cup {NoText} : TypeBinding(t)
  \/ ToggleProfile \/ ProfileChosen
  \/ \E a \in {"ClosePage", "OpenSwitcher", "OpenSettings", "OpenProfilePicker", "NextPage"} :
       DispatchAction(a)
  \/ \E p \in Ids, u \in Urls : Navigated(p, u)
  \/ \E u \in Urls : NewWindow(u)
  \/ Render

Spec == Init /\ [][Next]_vars

-----------------------------------------------------------------------------
(* The state, live and captured, keeps its types.                          *)
TypeOK ==
  /\ pages \in Seq(Ids) /\ IsInjective(pages)
  /\ active \in Ids /\ nextId \in 1..MaxPages
  /\ \A p \in Range(pages) \cup {active} : p < nextId
  /\ url \in [Ids -> Urls]
  /\ settings \in Settings /\ bindings \in [Actions -> SUBSET Chords]
  /\ ui \in UIs
  /\ shown.ui \in UIs /\ Range(shown.pages) \subseteq 0..nextId - 1
  /\ enter \in Texts /\ due \in 0..MaxUnseen + 1

(* Nothing the window tells is left to wait for an unrelated event: unless *)
(* a render is due it shows the overlay, the texts, the open pages, the    *)
(* title of the one in front and the key bindings as they are, whichever   *)
(* handler or native callback changed them last (bump's comment in app);   *)
(* and Enter is taken from the switcher alone, for the text it shows       *)
(* (enter_action in app).                                                  *)
Told(v) == <<v.ui, v.active, v.pages, v.url[v.active], v.start, v.bindings>>
RenderIsDue ==
  /\ due = 0 => Told(shown) = Told(View)
  /\ enter # NoText => shown.ui.overlay = "switcher" /\ shown.ui.query = enter

(* However fast the keys are, only the page that the window shows is       *)
(* closed, and never the one that came to the front in its place           *)
(* (dispatch_action, close_page).                                          *)
OnlyTheShownPageCloses ==
  [][\A p \in Range(pages) : p \notin Range(pages') => p = shown.active]_vars
=============================================================================
