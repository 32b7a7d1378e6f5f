----------------------------- MODULE GtkChrome -----------------------------
(***************************************************************************)
(* The chrome of the GTK front end (browser-linux-gtk3, AppState): the     *)
(* switcher, the passwords panel, the two popovers and the toolbar, driven *)
(* by the user, by key chords and by the calls that the browser's own      *)
(* pages make (internal_rpc.rs).  Engines and the session file are in      *)
(* GtkPages; here a page is its URL and its title.                         *)
(*                                                                         *)
(* A handler is one step, but for one that builds a webview: WryEngine::new*)
(* dispatches other handlers before it returns, so such a handler is       *)
(* suspended in `busy' and a Finish action does the rest.  It holds the    *)
(* borrow of web_context meanwhile, and, when a key chord started it, that *)
(* of the key bindings: a handler run in between that borrows either       *)
(* mutably panics in a GTK callback, which aborts the process.             *)
(*                                                                         *)
(* The switcher is a page with a script of its own (switcher/app.js): its  *)
(* loadAll asks for the pages over RPC, when the script starts, when the   *)
(* host has it run and when the user types into the page's own box or has  *)
(* pressed a button of a row.  External: the host's scripts run in the     *)
(* page at once; answers to loads that overlap may come in another order   *)
(* than they were given (WebviewRpc), so `grid' is what the page was last  *)
(* given, which is what it shows when no two overlapped.                   *)
(***************************************************************************)
EXTENDS VecFilter, Functions

CONSTANTS
  Urls,            (* URLs of pages; a login's domain is a URL here too *)
  StartPage,       (* settings.start_page *)
  SettingsPage, PasswordsPage,   (* browser://profile and browser://passwords *)
  Blank,           (* the empty text, and no URL *)
  SavedLogins,     (* how many saved logins each URL has *)
  MaxPages,        (* bound: ids allocated *)
  MaxBookmarks     (* bound: bookmarks at a time *)

ASSUME ChromeUrlsAssumption ==
  {StartPage, SettingsPage, PasswordsPage} \subseteq Urls /\ Blank \notin Urls
ASSUME ChromeLoginsAssumption == SavedLogins \in [Urls -> Nat]
ASSUME ChromeBoundsAssumption == MaxPages \in Nat \ {0} /\ MaxBookmarks \in Nat

VARIABLES
  up,                        (* the process runs *)
  pages, active, nextId,     (* PageManager *)
  url, title,                (* of each page; whether its title has come *)
  label, star, bookmarks,    (* the title chip (of a titled page), the star, AppState.bookmarks *)
  switcher, panel,           (* switcher_panel and passwords_panel are visible *)
  sensitive,                 (* the page stack takes input *)
  text,                      (* the address bar, which is in the switcher's panel *)
  built,                     (* switcher_engine *)
  script,                    (* the switcher's page has run its script: loadAll is a function *)
  search,                    (* the box in the switcher's page *)
  query,                     (* what loadAll was last called with *)
  asking,                    (* a switcher.open_pages call of a loadAll has no answer yet *)
  grid,                      (* the pages in the last answer to one *)
  picker,                    (* the domain credential_picker_popover lists, or Blank *)
  unlocked, known,           (* the vault; the session passphrase opens it *)
  busy                       (* the handler suspended in WryEngine::new *)

pageVars    == <<pages, active, nextId, url, title>>
toolbarVars == <<label, star, bookmarks>>
contentVars == <<script, search, query, asking, grid>>
overlayVars == <<switcher, panel, sensitive, text, contentVars>>
vaultVars   == <<picker, unlocked, known>>
vars == <<up, pageVars, toolbarVars, overlayVars, vaultVars, built, busy>>

Ids == 1..MaxPages
Open(id) == id \in Range(pages)
ActiveUrl == IF Open(active) THEN url[active] ELSE Blank

(* Mutant: a page opened by another is allocated no id.                    *)
HandlerUnnumbered(kind, u, origin, dismiss) ==
  [kind |-> kind, page |-> IF kind = "page" THEN nextId ELSE 0,
   url |-> u, origin |-> origin, dismiss |-> dismiss]
(* What a suspended handler was: what it builds, for which URL, who called *)
(* it, whether it closes the switcher afterwards.                          *)
Handler(kind, u, origin, dismiss) ==
  [kind |-> kind, page |-> IF kind \in {"page", "related"} THEN nextId ELSE 0,
   url |-> u, origin |-> origin, dismiss |-> dismiss]
NoHandler ==
  [kind |-> "none", page |-> 0, url |-> Blank, origin |-> "click", dismiss |-> FALSE]
Idle == busy = NoHandler
Origins == {"click", "chord", "rpc"}

(* A call is dispatched from a channel whose callback is not re-entered.   *)
MayRun(origin) == up /\ ~(origin = "rpc" /\ busy.origin = "rpc")

Gone == up' = FALSE /\ UNCHANGED <<pageVars, toolbarVars, overlayVars, vaultVars, built, busy>>

-----------------------------------------------------------------------------
(* Parts of handlers, in terms of what the step has changed by then.       *)

(* switcher_open_pages: the pages and their titles.                        *)
Rows == [i \in 1..Len(pages) |-> <<pages[i], title[pages[i]]>>]

(* loadAll: it asks for the pages, to list those that match q.  Loads that *)
(* are under way together count as one, the first to be answered.          *)
LoadAll(q) == query' = q /\ asking' = TRUE

(* Mutant: only a switcher being opened is filled.                         *)
RefreshWhenOpened ==
  /\ UNCHANGED <<script, search, grid>>
  /\ IF switcher' /\ ~switcher /\ built' /\ script THEN LoadAll(text')
     ELSE UNCHANGED <<query, asking>>
(* refresh_switcher_if_open: the page's script may not be there yet.       *)
RefreshSwitcher ==
  /\ UNCHANGED <<script, search, grid>>
  /\ IF switcher' /\ built' /\ script THEN LoadAll(text') ELSE UNCHANGED <<query, asking>>

Starred == Open(active) /\ url[active] \in bookmarks

(* refresh_title_label and refresh_bookmark_toggle_button.                 *)
RefreshTitle == label' = (active' \in Range(pages') /\ title'[active'])
(* Mutant: the star follows the active page only.                          *)
KeepStar == star' = IF active' = active THEN star ELSE Starred'
RefreshStar == star' = Starred'

(* close_switcher and close_passwords.  The text that a hidden address bar *)
(* is left with is set anew when it is shown.                              *)
CloseSwitcher == switcher' = FALSE /\ sensitive' = TRUE /\ text' = Blank
(* Mutant: the passwords panel is hidden directly.                         *)
HidePasswords == panel' = FALSE /\ sensitive' = sensitive
ClosePasswords == panel' = FALSE /\ sensitive' = TRUE

(* set_active on a page whose engine is there.                             *)
SetActive(id) == active' = id /\ RefreshTitle /\ RefreshStar

(* WryEngine::new in the handler h, which has changed what its caller says *)
(* by then; inside another build it aborts the process.                    *)
Build(h) == busy' = h /\ UNCHANGED <<up, vaultVars, built>>

-----------------------------------------------------------------------------
(* Pages.                                                                  *)

(* add_page up to its engine, whoever calls it.                            *)
AddPage(u, origin, dismiss) ==
  \/ /\ Idle /\ nextId <= MaxPages
     /\ Build(Handler("page", u, origin, dismiss))
     /\ nextId' = nextId + 1
     /\ UNCHANGED <<pages, active, url, title, toolbarVars, overlayVars>>
  \/ ~Idle /\ Gone

(* switch_to; id is a page that some list named, which may be gone.        *)
SwitchTo(id) ==
  /\ UNCHANGED <<up, pages, nextId, url, title, bookmarks, panel, vaultVars, built, busy>>
  /\ SetActive(id)
  /\ CloseSwitcher
  /\ RefreshSwitcher

SwitchFromPage(id) == MayRun("rpc") /\ id < nextId /\ busy.page # id /\ SwitchTo(id)

(* switch_to_next_page and switch_to_previous_page: set_active alone.      *)
StepThroughPages(step) ==
  /\ MayRun("chord")
  /\ Open(active)
  /\ LET i == CHOOSE j \in 1..Len(pages) : pages[j] = active
     IN /\ UNCHANGED <<up, pages, nextId, url, title, bookmarks, overlayVars, vaultVars, built,
                       busy>>
        /\ SetActive(pages[((i - 1 + step) % Len(pages)) + 1])
SwitchToNextPage == StepThroughPages(1)
SwitchToPreviousPage == StepThroughPages(Len(pages) - 1)

(* open_or_focus_internal_page.                                            *)
OpenOrFocusInternalPage(target, origin) ==
  LET there == Filter(pages, {id \in Ids : url[id] = target})
  IN IF there # <<>> THEN SwitchTo(there[1]) ELSE AddPage(target, origin, FALSE)

OpenSettings(origin) == MayRun(origin) /\ OpenOrFocusInternalPage(SettingsPage, origin)
OpenPasswordsPage == MayRun("rpc") /\ OpenOrFocusInternalPage(PasswordsPage, "rpc")

(* close_page, with its replacement; a page being built is in no list.     *)
ClosePage(id, origin) ==
  LET rest == Filter(pages, Ids \ {id})
  IN /\ MayRun(origin)
     /\ IF origin = "chord" THEN id = active ELSE id < nextId /\ busy.page # id
     /\ \/ /\ id # active \/ rest # <<>>
           /\ pages' = rest
           /\ UNCHANGED <<up, nextId, url, title, bookmarks, switcher, panel, sensitive, text,
                          vaultVars, built, busy>>
           /\ IF id = active THEN SetActive(rest[1]) ELSE UNCHANGED <<active, label, star>>
           /\ RefreshSwitcher
        \/ /\ id = active /\ rest = <<>> /\ Idle /\ nextId <= MaxPages
           /\ pages' = rest /\ nextId' = nextId + 1
           /\ UNCHANGED <<active, url, title, toolbarVars, overlayVars>>
           /\ Build(Handler("page", StartPage, origin, FALSE))
        \/ id = active /\ rest = <<>> /\ ~Idle /\ Gone

(* WebKit's create signal on a page, with a user gesture: add_page_related.*)
(* WebKit gives the new page its URL after the handler.                    *)
AddPageRelated ==
  /\ up /\ pages # <<>>
  /\ \/ /\ Idle /\ nextId <= MaxPages
        /\ nextId' = nextId + 1
        /\ UNCHANGED <<pages, active, url, title, toolbarVars, overlayVars>>
        /\ Build(Handler("related", Blank, "click", FALSE))
     \/ ~Idle /\ Gone

(* The rest of add_page and add_page_related, with an engine or without,   *)
(* and then of the handler that called add_page.                           *)
FinishPage(ok) ==
  /\ up /\ busy.kind \in {"page", "related"}
  /\ busy' = NoHandler
  /\ IF ok
     THEN /\ pages' = Append(pages, busy.page)
          /\ url' = [url EXCEPT ![busy.page] = busy.url]
          /\ title' = [title EXCEPT ![busy.page] = FALSE]
     ELSE UNCHANGED <<pages, url, title>>
  /\ UNCHANGED <<up, nextId, bookmarks, panel, vaultVars, built>>
  /\ IF ok /\ busy.kind = "page" THEN SetActive(busy.page) ELSE UNCHANGED <<active, label, star>>
  /\ IF busy.dismiss THEN CloseSwitcher ELSE UNCHANGED <<switcher, sensitive, text>>
  /\ RefreshSwitcher

(* A page moves: no handler runs.  Its new title comes later.              *)
Navigate(p, u) ==
  /\ up /\ Open(p) /\ u # url[p]
  /\ url' = [url EXCEPT ![p] = u]
  /\ UNCHANGED <<up, pages, active, nextId, title, toolbarVars, overlayVars, vaultVars, built,
                 busy>>

TitleChanged(p) ==
  /\ up /\ Open(p)
  /\ title' = [title EXCEPT ![p] = ~@]
  /\ UNCHANGED <<up, pages, active, nextId, url, star, bookmarks, switcher, panel, sensitive, text,
                 vaultVars, built, busy>>
  /\ RefreshSwitcher
  /\ IF active = p THEN RefreshTitle ELSE UNCHANGED label

-----------------------------------------------------------------------------
(* The switcher.                                                           *)

(* Mutant: the passwords panel stays.                                      *)
OpenSwitcherOver(seed, origin) ==
  /\ MayRun(origin)
  /\ text' = seed
  /\ panel' = panel /\ sensitive' = FALSE
  /\ \/ /\ built
        /\ switcher' = TRUE
        /\ UNCHANGED <<up, pageVars, toolbarVars, vaultVars, built, busy>>
        /\ RefreshSwitcher
     \/ /\ ~built /\ Idle
        /\ UNCHANGED <<pageVars, toolbarVars, switcher, contentVars>>
        /\ Build(Handler("switcher", Blank, origin, FALSE))

(* open_switcher (seed is Blank) and open_switcher_editing_url.            *)
OpenSwitcher(seed, origin) ==
  /\ MayRun(origin)
  /\ text' = seed
  /\ panel' = FALSE /\ sensitive' = FALSE
  /\ \/ /\ built
        /\ switcher' = TRUE
        /\ UNCHANGED <<up, pageVars, toolbarVars, vaultVars, built, busy>>
        /\ RefreshSwitcher
     \/ /\ ~built /\ Idle
        /\ UNCHANGED <<pageVars, toolbarVars, switcher, contentVars>>
        /\ Build(Handler("switcher", Blank, origin, FALSE))

(* The same, in another build and with no webview yet.                     *)
OpenSwitcherNested == up /\ ~Idle /\ ~built /\ Gone

FinishSwitcher(ok) ==
  /\ up /\ busy.kind = "switcher"
  /\ busy' = NoHandler /\ built' = ok
  /\ switcher' = TRUE
  /\ UNCHANGED <<up, pageVars, toolbarVars, panel, sensitive, text, vaultVars>>
  /\ IF ok THEN RefreshSwitcher
     ELSE script' = FALSE /\ search' = Blank /\ asking' = FALSE /\ UNCHANGED <<query, grid>>

(* The page's script runs, which may be before WryEngine::new returns.     *)
PageLoads ==
  /\ up /\ ~script /\ (built \/ busy.kind = "switcher")
  /\ script' = TRUE /\ LoadAll(Blank)
  /\ UNCHANGED <<up, pageVars, toolbarVars, switcher, panel, sensitive, text, search, grid,
                 vaultVars, built, busy>>

(* The user types t into the page's box, or a row's button is answered.    *)
PageSearches(t) ==
  /\ up /\ script /\ (switcher \/ t = search)
  /\ search' = t /\ LoadAll(t)
  /\ UNCHANGED <<up, pageVars, toolbarVars, switcher, panel, sensitive, text, script, grid,
                 vaultVars, built, busy>>

(* switcher.open_pages.                                                    *)
SwitcherOpenPages ==
  /\ MayRun("rpc") /\ asking
  /\ asking' = FALSE /\ grid' = Rows
  /\ UNCHANGED <<up, pageVars, toolbarVars, switcher, panel, sensitive, text, script, search,
                 query, vaultVars, built, busy>>

(* toggle_switcher, the title chip and the two key actions.                *)
ToggleSwitcher == ~switcher /\ OpenSwitcher(Blank, "click")
TitleChipClicked == ~switcher /\ OpenSwitcher(ActiveUrl, "click")
SwitcherKeyPressed == OpenSwitcher(Blank, "chord") \/ OpenSwitcher(ActiveUrl, "chord")

(* The toggle, the close button, the scrim, and Escape.                    *)
DismissSwitcher ==
  /\ up /\ switcher
  /\ UNCHANGED <<up, pageVars, toolbarVars, panel, vaultVars, built, busy>>
  /\ CloseSwitcher
  /\ RefreshSwitcher

TypeText(t) ==
  /\ up /\ switcher
  /\ text' = t
  /\ UNCHANGED <<up, pageVars, toolbarVars, switcher, panel, sensitive, vaultVars, built, busy>>
  /\ RefreshSwitcher

Matching == Filter(pages, {id \in Ids : text = url[id]})

(* Enter: the only page that matches is switched to, and a text no page    *)
(* matches is opened, as the visit it finds or as itself.                  *)
AddressActivated ==
  /\ up /\ switcher /\ text # Blank
  /\ \/ Len(Matching) = 1 /\ SwitchTo(Matching[1])
     \/ Matching = <<>> /\ AddPage(text, "click", TRUE)

(* Ctrl+Enter in the address bar.                                          *)
ForceNewPageFromSearch == text # Blank /\ AddPage(text, "click", TRUE)
AddressKeyPressed == up /\ switcher /\ ForceNewPageFromSearch

-----------------------------------------------------------------------------
(* The toolbar.                                                            *)

ToggleBookmark ==
  /\ up /\ Open(active)
  /\ ActiveUrl \in bookmarks \/ Cardinality(bookmarks) < MaxBookmarks
  /\ bookmarks' = IF ActiveUrl \in bookmarks THEN bookmarks \ {ActiveUrl}
                  ELSE bookmarks \cup {ActiveUrl}
  /\ UNCHANGED <<up, pageVars, label, overlayVars, vaultVars, built, busy>>
  /\ RefreshStar

(* switcher.remove_bookmark.                                               *)
RemoveBookmark(u) ==
  /\ MayRun("rpc") /\ u \in bookmarks
  /\ bookmarks' = bookmarks \ {u}
  /\ UNCHANGED <<up, pageVars, label, star, overlayVars, vaultVars, built, busy>>

(* show_profile_menu; what the popover does with its engine is left out.   *)
ShowProfileMenu(origin) ==
  /\ MayRun(origin)
  /\ \/ /\ Idle
        /\ UNCHANGED <<pageVars, toolbarVars, overlayVars>>
        /\ Build(Handler("menu", Blank, origin, FALSE))
     \/ ~Idle /\ Gone
FinishProfileMenu ==
  /\ up /\ busy.kind = "menu"
  /\ busy' = NoHandler
  /\ UNCHANGED <<up, pageVars, toolbarVars, overlayVars, vaultVars, built>>

(* profile.keybindings.set_bindings, while a chord's handler is suspended. *)
SetBindings == MayRun("rpc") /\ busy.origin = "chord" /\ Gone

-----------------------------------------------------------------------------
(* Passwords.                                                              *)

(* fill_credentials_for_active_page: none, the one, or a choice.  What is  *)
(* filled in is the page's own.                                            *)
FillCredentials ==
  picker' = IF ActiveUrl # Blank /\ SavedLogins[ActiveUrl] > 1 THEN ActiveUrl ELSE picker

(* open_passwords: it tries a passphrase it knows (which may fail), fills  *)
(* in a login if the vault is open by then, and else asks.                 *)
OpenPasswords ==
  /\ up
  /\ UNCHANGED <<up, pageVars, toolbarVars, built, busy>>
  /\ switcher' = FALSE /\ text' = Blank
  /\ RefreshSwitcher
  /\ unlocked' \in IF known THEN {unlocked, TRUE} ELSE {unlocked}
  /\ known' = known
  /\ \/ unlocked' /\ FillCredentials /\ sensitive' = TRUE /\ UNCHANGED panel
     \/ ~unlocked' /\ panel' = TRUE /\ sensitive' = FALSE /\ UNCHANGED picker

(* The passwords button: toggle_passwords.                                 *)
PasswordsClicked == ~panel /\ OpenPasswords

(* The button, the scrim, the two close buttons, and Escape.               *)
DismissPasswords ==
  /\ up /\ panel
  /\ UNCHANGED <<up, pageVars, toolbarVars, switcher, text, contentVars, vaultVars, built,
                 busy>>
  /\ ClosePasswords

(* unlock_vault_clicked with a passphrase that opens the vault; any other  *)
(* leaves the prompt.  The panel closes, then a page opens or is shown.    *)
UnlockVault ==
  LET there == Filter(pages, {id \in Ids : url[id] = PasswordsPage})
  IN /\ up /\ panel
     /\ \/ /\ there # <<>>
           /\ unlocked' = TRUE /\ known' = TRUE /\ panel' = FALSE
           /\ UNCHANGED <<up, pages, nextId, url, title, bookmarks, picker, built, busy>>
           /\ SetActive(there[1])
           /\ CloseSwitcher
           /\ RefreshSwitcher
        \/ /\ there = <<>> /\ Idle /\ nextId <= MaxPages
           /\ unlocked' = TRUE /\ known' = TRUE
           /\ ClosePasswords
           /\ nextId' = nextId + 1
           /\ busy' = Handler("page", PasswordsPage, "click", FALSE)
           /\ UNCHANGED <<up, pages, active, url, title, toolbarVars, switcher, text,
                          contentVars, picker, built>>
        \/ there = <<>> /\ ~Idle /\ Gone

(* The credential picker is dismissed, by a click in a row as well, which  *)
(* fills a page of the row's domain and no other.                          *)
DismissPicker ==
  /\ up /\ picker # Blank
  /\ picker' = Blank
  /\ UNCHANGED <<up, pageVars, toolbarVars, overlayVars, unlocked, known, built, busy>>

(* gtk::main returns, or a restart of the session ends the process.        *)
Quit == up /\ Gone

-----------------------------------------------------------------------------
Init ==
  /\ up = TRUE
  /\ pages = <<1>> /\ active = 1 /\ nextId = 2
  /\ url = [p \in Ids |-> IF p = 1 THEN StartPage ELSE Blank]
  /\ title = [p \in Ids |-> FALSE]
  /\ label = FALSE /\ star = FALSE /\ bookmarks = {}
  /\ switcher = FALSE /\ panel = FALSE /\ sensitive = TRUE
  /\ text = Blank /\ built = FALSE
  /\ script = FALSE /\ search = Blank /\ query = Blank /\ asking = FALSE /\ grid = <<>>
  /\ picker = Blank /\ unlocked = FALSE /\ known \in BOOLEAN
  /\ busy = NoHandler

PageNext ==
  \/ \E id \in Ids : SwitchFromPage(id)
  \/ \E id \in Ids, origin \in {"chord", "rpc"} : ClosePage(id, origin)
  \/ AddPageRelated
  \/ \E ok \in BOOLEAN : FinishPage(ok)
  \/ \E p \in Ids, u \in Urls : Navigate(p, u)
  \/ \E p \in Ids : TitleChanged(p)
  \/ SwitchToNextPage \/ SwitchToPreviousPage
  \/ \E origin \in {"chord", "rpc"} : OpenSettings(origin)
  \/ OpenPasswordsPage

SwitcherNext ==
  \/ ToggleSwitcher \/ TitleChipClicked \/ SwitcherKeyPressed \/ OpenSwitcherNested
  \/ \E ok \in BOOLEAN : FinishSwitcher(ok)
  \/ DismissSwitcher
  \/ \E t \in Urls \cup {Blank} : TypeText(t)
  \/ AddressActivated \/ AddressKeyPressed
  \/ PageLoads \/ SwitcherOpenPages
  \/ \E t \in Urls \cup {Blank} : PageSearches(t)

ToolbarNext ==
  \/ ToggleBookmark
  \/ \E u \in Urls \cup {Blank} : RemoveBookmark(u)
  \/ \E origin \in {"click", "chord"} : ShowProfileMenu(origin)
  \/ FinishProfileMenu \/ SetBindings

VaultNext ==
  \/ PasswordsClicked \/ OpenPasswords \/ DismissPasswords \/ UnlockVault
  \/ DismissPicker

Next == PageNext \/ SwitcherNext \/ ToolbarNext \/ VaultNext \/ Quit

Spec == Init /\ [][Next]_vars

-----------------------------------------------------------------------------
(* Every variable has its type.                                            *)
TypeOK ==
  /\ {up, label, star, switcher, panel, sensitive, built, script, asking, unlocked, known}
       \subseteq BOOLEAN
  /\ pages \in Seq(Ids) /\ active \in Ids /\ nextId \in 1..MaxPages + 1
  /\ url \in [Ids -> Urls \cup {Blank}] /\ title \in [Ids -> BOOLEAN]
  /\ {text, search, query, picker} \subseteq Urls \cup {Blank}
  /\ bookmarks \subseteq Urls \cup {Blank}
  /\ grid \in Seq(Ids \X BOOLEAN)
  /\ busy \in [kind : {"none", "page", "related", "switcher", "menu"}, page : {0} \cup Ids,
               url : Urls \cup {Blank}, origin : Origins, dismiss : BOOLEAN]

(* The pages are never left without input: whatever handlers ran inside    *)
(* which builds, once none is suspended an insensitive stack has an        *)
(* overlay over it that the user can dismiss (close_passwords: "so the     *)
(* stack never gets left insensitive").                                    *)
NeverLeftInsensitive == up /\ Idle /\ ~sensitive => switcher \/ panel

(* Titles are those of the pages there are.  The title chip has the active *)
(* page's.  A switcher that is shown, whose script has run, has the pages  *)
(* there are with their titles or asks for them, and lists those that      *)
(* match what one of its two boxes says: whichever handler changed pages,  *)
(* titles or text, whatever was suspended then, and however many refreshes *)
(* came before there was a script to run them (the doc of switcher_engine: *)
(* refresh_switcher_if_open "is what keeps its content current").          *)
GridIsLive ==
  up /\ Idle /\ switcher /\ script => (asking \/ grid = Rows) /\ query \in {text, search}
TitlesAreLive == GridIsLive /\ (up /\ Open(active) => label = title[active])

(* The switcher is in conflict when the pages below it take input or the   *)
(* passwords panel is there as well.                                       *)
Conflict == switcher /\ (sensitive \/ panel)

(* A handler that is not run inside another never brings the switcher into *)
(* conflict: every open_ method closes the other overlay, and every other  *)
(* handler leaves the switcher as it is or closes it.                      *)
AloneNoConflict == [][Idle /\ up' /\ ~Conflict => ~Conflict']_vars

StarTells == Open(active) => star = Starred

(* The star goes out of date in two ways only: the active page navigates,  *)
(* or the switcher's page removes its bookmark.  Changing the active page, *)
(* closing it, and a handler that finishes late all bring it up to date.   *)
StarOutdatedByMoves ==
  [][up' /\ StarTells /\ ~StarTells' =>
       /\ active' = active /\ pages' = pages
       /\ \/ url'[active] # url[active]
          \/ bookmarks' = bookmarks \ {url[active]}]_vars
=============================================================================
