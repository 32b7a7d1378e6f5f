--------------------------- MODULE AppKitOverlays ---------------------------
(***************************************************************************)
(* The overlays of the AppKit front end (browser-macos-appkit, AppState    *)
(* and AppDelegate): the switcher, the bookmarks, passwords, settings and  *)
(* profile panels, and the star of the toolbar.  Each panel shows a copy   *)
(* of something, made when it was last rebuilt, and its buttons carry      *)
(* indices into that copy; menu keys work while a panel is open, and the   *)
(* vault is shared with other windows of the profile.  So what is asked    *)
(* here is whether a click does what the panel showed.                     *)
(*                                                                         *)
(* Pages are as the panels see them, an order, an active one and URLs;     *)
(* their engines and the session file are in AppKitPages.  A text matches  *)
(* a page, visit or bookmark if it is its URL.  A page has no URL before   *)
(* its engine has begun to load one (WKWebView.URL is nil).                *)
(***************************************************************************)
EXTENDS SwitcherRows

CONSTANTS
  Urls,            (* URLs, which are also what can be typed *)
  StartPage,       (* settings.start_page *)
  NoText,          (* an empty text: of a field, or of a page without URL *)
  Visited,         (* URLs in the history, most recent first *)
  Actions,         (* actions keys can be bound to *)
  Chords,          (* keys *)
  NoAction, NoChord,
  KeyEquivalent,   (* chord_to_key_equivalent: none for Tab, PageUp, PageDown *)
  Contents,        (* what a login can say *)
  Site,            (* the URL of the page each of them is for *)
  MaxPages,        (* bound: ids allocated *)
  MaxLogins        (* bound: rows ever put into the vault *)

ASSUME OverlayUrlsAssumption ==
  StartPage \in Urls /\ NoText \notin Urls /\ NoRow \notin Urls \cup {NoText} /\ Visited \in Seq(Urls)
ASSUME OverlayKeysAssumption == KeyEquivalent \in [Chords -> Chords \cup {NoChord}]
ASSUME OverlaySitesAssumption == Site \in [Contents -> Urls]
ASSUME OverlayBoundsAssumption == MaxPages \in Nat \ {0} /\ MaxLogins \in Nat

VARIABLES
  pages, active, nextId, url,   (* PageManager, and each page's URL *)
  overlay,      (* AppState.overlay *)
  panels,       (* the overlay views that are not hidden *)
  text,         (* the address bar *)
  rows,         (* AppState.switcher_rows *)
  selected,     (* AppState.selected_switcher_index; 0 is None *)
  bookmarks,    (* AppState.bookmarks, most recent first *)
  bookmarkRows, (* AppState.bookmarks_rows *)
  star, starOf, (* the star, and for the properties the URL it was drawn for; *)
                (* NoRow if there was no active page *)
  unlocked,     (* AppState.passwords is VaultState::Unlocked *)
  known,        (* AppState.session_passphrase is Some *)
  logins,       (* the vault: a login for each row id *)
  nextLogin,    (* its AUTOINCREMENT counter *)
  born,         (* for the properties: logins ever added *)
  loginRows,    (* AppState.passwords_rows *)
  editing,      (* AppState.editing_login; 0 is None *)
  editingBorn,  (* for the properties: the login the form was filled from *)
  bindings,     (* AppState.keybindings *)
  bindingRows,  (* the chords in the settings panel, per action *)
  menu,         (* the key equivalent of each menu item *)
  listening,    (* AppState.listening_for *)
  aborted       (* the process has panicked in a callback, and is gone *)

pageVars     == <<pages, active, nextId, url>>
switcherVars == <<text, rows, selected>>
bookmarkVars == <<bookmarks, bookmarkRows, star, starOf>>
vaultVars    == <<unlocked, known>>
loginVars    == <<vaultVars, logins, nextLogin, born, loginRows, editing, editingBorn>>
bindingVars  == <<bindings, bindingRows, menu, listening>>
vars == <<pageVars, overlay, panels, switcherVars, bookmarkVars, loginVars, bindingVars, aborted>>

Ids == 1..MaxPages
Texts == Urls \cup {NoText}
Overlays == {"none", "switcher", "settings", "profile", "passwords", "bookmarks"}

InOrder(s) == {s[i] : i \in 1..Len(s)}
Open == InOrder(pages)
ActiveUrl == IF active \in Open THEN url[active] ELSE NoText
Only(s, t) == IF t = NoText THEN s ELSE Filter(s, {t})

-----------------------------------------------------------------------------
(* Mutant: the URLs of the open pages are not among those shown.           *)
CurrentRowsTwice ==
  BuildSwitcherRows(Filter(pages, {p \in Ids : text = NoText \/ url[p] = text}),
                    {}, text # NoText, Only(Visited, text), Only(bookmarks, text), <<>>)

(* rebuild_switcher_rows: for what the address bar says by then.           *)
CurrentRows ==
  BuildSwitcherRows(Filter(pages, {p \in Ids : text = NoText \/ url[p] = text}),
                    {url[p] : p \in Open}, text # NoText,
                    Only(Visited, text), Only(bookmarks, text), <<>>)
RebuildSwitcherRows == rows' = CurrentRows'

(* refresh_bookmark_toggle_button.                                         *)
RefreshStar ==
  /\ starOf' = IF active' \in InOrder(pages') THEN ActiveUrl' ELSE NoRow
  /\ star' = (starOf' \in InOrder(bookmarks'))

(* close_all_overlays.                                                     *)
CloseAllOverlays ==
  /\ overlay' = "none"
  /\ panels' = {}
  /\ text' = IF active' \in InOrder(pages') THEN ActiveUrl' ELSE text

(* Every open_*: the others close first.                                   *)
OpenOverlay(o) ==
  /\ overlay' = o
  /\ panels' = {o}

(* add_page: a new page in front, which may have no URL yet, or nothing if *)
(* its engine fails.                                                       *)
PageAdded(s, u) ==
  \/ /\ nextId <= MaxPages
     /\ pages' = Append(s, nextId) /\ active' = nextId
     /\ \E w \in {u, NoText} : url' = [url EXCEPT ![nextId] = w]
     /\ nextId' = nextId + 1
     /\ UNCHANGED bookmarks
     /\ RefreshStar
  \/ /\ pages' = s
     /\ UNCHANGED <<active, nextId, url, bookmarks, star, starOf>>

(* switch_to up to its close_all_overlays.                                 *)
PageShown(id) ==
  /\ active' = id
  /\ UNCHANGED <<pages, nextId, url, bookmarks>>
  /\ RefreshStar

-----------------------------------------------------------------------------
(* The switcher.                                                           *)

OpenSwitcher ==
  /\ OpenOverlay("switcher")
  /\ text' = NoText
  /\ selected' = 0
  /\ UNCHANGED <<pageVars, bookmarkVars, loginVars, bindingVars>>
  /\ RebuildSwitcherRows

(* open_switcher_editing_url: the selection stays as it is.                *)
OpenSwitcherEditingUrl ==
  /\ OpenOverlay("switcher")
  /\ text' = ActiveUrl
  /\ UNCHANGED <<pageVars, selected, bookmarkVars, loginVars, bindingVars>>
  /\ RebuildSwitcherRows

(* address_bar_text_changed.                                               *)
Type(t) ==
  /\ overlay = "switcher"
  /\ text' = t
  /\ selected' = 0
  /\ UNCHANGED <<pageVars, overlay, panels, bookmarkVars, loginVars, bindingVars>>
  /\ RebuildSwitcherRows

(* switcher_navigate, by Up and Down (doCommandBySelector).                *)
SwitcherNavigate(direction) ==
  LET next == NextActivatableRow(rows, selected, direction)
  IN /\ overlay = "switcher"
     /\ ~UpFromBeyond(rows, selected, direction)
     /\ next # 0
     /\ selected' = next
     /\ UNCHANGED <<pageVars, overlay, panels, text, bookmarkVars, loginVars, bindingVars>>
     /\ RebuildSwitcherRows

(* Up from a row that is no longer there indexes past the end of the rows. *)
NavigateBeyond ==
  /\ overlay = "switcher"
  /\ UpFromBeyond(rows, selected, "up")
  /\ aborted' = TRUE
  /\ UNCHANGED <<pageVars, overlay, panels, switcherVars, bookmarkVars, loginVars, bindingVars>>

(* switcher_row_clicked.                                                   *)
Activate(i) ==
  LET what == ActivateRow(rows, i, StartPage)
  IN /\ \/ /\ what = NoRow
           /\ UNCHANGED <<pageVars, overlay, panels, text, bookmarks, star, starOf>>
        \/ /\ what # NoRow
           /\ IF what.kind = "switch" THEN PageShown(what.of) ELSE PageAdded(pages, what.of)
           /\ CloseAllOverlays
     /\ UNCHANGED <<rows, selected, bookmarkRows, loginVars, bindingVars>>

SwitcherRowClicked(i) ==
  /\ overlay = "switcher"
  /\ i \in 1..Len(rows)
  /\ Activate(i)

(* address_bar_activated: a selected row first; with Command held always a *)
(* new page; else the one open page that matches, or a new page.           *)
AddressBarActivated(command) ==
  /\ overlay = "switcher"
  /\ \/ selected # 0 /\ Activate(selected)
     \/ /\ selected = 0 /\ text # NoText
        /\ LET matches == {p \in Open : url[p] = text}
           IN IF ~command /\ Cardinality(matches) = 1
              THEN \E p \in matches : PageShown(p)
              ELSE PageAdded(pages, text)
        /\ CloseAllOverlays
        /\ UNCHANGED <<rows, selected, bookmarkRows, loginVars, bindingVars>>

(* Mutant: close_page leaves the rows to its caller.                       *)
CloseFromKeyQuietly ==
  /\ active \in Open
  /\ pages' = Filter(pages, Ids \ {active})
  /\ pages' # <<>> /\ active' = pages'[1]
  /\ UNCHANGED <<nextId, url, bookmarks>>
  /\ RefreshStar
  /\ UNCHANGED <<overlay, panels, switcherVars, bookmarkRows, loginVars, bindingVars>>

(* close_page, after which the rows are rebuilt; overlays stay.            *)
Close(id) ==
  LET rest == Filter(pages, Ids \ {id})
  IN /\ \/ /\ id # active
           /\ pages' = rest
           /\ UNCHANGED <<active, nextId, url, bookmarks, star, starOf>>
        \/ /\ id = active /\ rest # <<>>
           /\ pages' = rest /\ active' = rest[1]
           /\ UNCHANGED <<nextId, url, bookmarks>>
           /\ RefreshStar
        \/ /\ id = active /\ rest = <<>>
           /\ PageAdded(rest, StartPage)
     /\ UNCHANGED <<overlay, panels, text, selected, bookmarkRows, loginVars, bindingVars>>
     /\ RebuildSwitcherRows

(* The menu key closes whatever active_id names.                           *)
CloseFromKey == Close(active)

(* The cross of a row.                                                     *)
SwitcherRowCloseClicked(i) ==
  /\ overlay = "switcher"
  /\ i \in 1..Len(rows) /\ rows[i].kind = "open"
  /\ Close(rows[i].of)

(* switch_to_next_page and _previous_page, by menu key.                    *)
SwitchToNeighbour ==
  /\ \E i \in 1..Len(pages), step \in {1, Len(pages) - 1} :
       pages[i] = active /\ PageShown(pages[((i - 1 + step) % Len(pages)) + 1])
  /\ CloseAllOverlays
  /\ UNCHANGED <<rows, selected, bookmarkRows, loginVars, bindingVars>>

(* validateMenuItem: without an overlay Escape is the web page's.          *)
CloseOverlayEnabled == overlay # "none"

(* Escape, the cross of an overlay, or its toggle.                         *)
CloseAnyOverlay ==
  /\ CloseOverlayEnabled
  /\ UNCHANGED <<pageVars, rows, selected, bookmarkVars, loginVars, bindingVars>>
  /\ CloseAllOverlays

(* add_page_related: a page opens behind, still without URL.               *)
OpenBehind ==
  /\ nextId <= MaxPages /\ Open # {}
  /\ pages' = Append(pages, nextId)
  /\ url' = [url EXCEPT ![nextId] = NoText]
  /\ nextId' = nextId + 1
  /\ UNCHANGED <<active, overlay, panels, switcherVars, bookmarkVars, loginVars, bindingVars>>

(* A page's navigation begins.                                             *)
Navigate(p, u) ==
  /\ p \in Open
  /\ url' = [url EXCEPT ![p] = u]
  /\ UNCHANGED <<pages, active, nextId, overlay, panels, switcherVars,
                 bookmarkVars, loginVars, bindingVars>>

-----------------------------------------------------------------------------
(* Bookmarks.                                                              *)

(* open_bookmarks.                                                         *)
OpenBookmarks ==
  /\ OpenOverlay("bookmarks")
  /\ text' = IF active \in Open THEN ActiveUrl ELSE text
  /\ bookmarkRows' = bookmarks
  /\ UNCHANGED <<pageVars, rows, selected, bookmarks, star, starOf,
                 loginVars, bindingVars>>

(* bookmark_row_open_clicked.                                              *)
BookmarkRowOpenClicked(i) ==
  /\ overlay = "bookmarks"
  /\ i \in 1..Len(bookmarkRows)
  /\ PageAdded(pages, bookmarkRows[i])
  /\ CloseAllOverlays
  /\ UNCHANGED <<rows, selected, bookmarkRows, loginVars, bindingVars>>

(* Mutant: the star is not redrawn.                                        *)
RemoveBookmarkQuietly(i) ==
  /\ overlay = "bookmarks"
  /\ i \in 1..Len(bookmarkRows)
  /\ bookmarks' = Filter(bookmarks, Texts \ {bookmarkRows[i]})
  /\ bookmarkRows' = bookmarks'
  /\ UNCHANGED <<pageVars, overlay, panels, switcherVars, star, starOf, loginVars, bindingVars>>

(* bookmark_row_remove_clicked.                                            *)
BookmarkRowRemoveClicked(i) ==
  /\ overlay = "bookmarks"
  /\ i \in 1..Len(bookmarkRows)
  /\ bookmarks' = Filter(bookmarks, Texts \ {bookmarkRows[i]})
  /\ bookmarkRows' = bookmarks'
  /\ UNCHANGED <<pageVars, overlay, panels, switcherVars, loginVars, bindingVars>>
  /\ RefreshStar

(* toggle_bookmark_for_active: the star or its key, any panel being open.  *)
ToggleBookmarkForActive ==
  /\ active \in Open
  /\ bookmarks' = IF ActiveUrl \in InOrder(bookmarks)
                  THEN Filter(bookmarks, Texts \ {ActiveUrl})
                  ELSE <<ActiveUrl>> \o bookmarks
  /\ UNCHANGED <<pageVars, overlay, panels, switcherVars, bookmarkRows, loginVars, bindingVars>>
  /\ RefreshStar

-----------------------------------------------------------------------------
(* Passwords.  Which passphrase opens the vault is in ProfileUnlock; the   *)
(* logins of Bitwarden are in PasswordsPage.                               *)

(* rebuild_passwords_rows: PasswordStore::list, newest first.              *)
Listed(store) ==
  LET ids == DOMAIN store
  IN [i \in 1..Cardinality(ids) |->
        LET id == CHOOSE x \in ids : UpTo(ids, x) = Cardinality(ids) + 1 - i
        IN [id |-> id, born |-> store[id].born, site |-> Site[store[id].content]]]

(* try_open_vault_with: a passphrase opens the vault, or it does not.      *)
VaultOpened ==
  /\ unlocked' = TRUE
  /\ known' = TRUE

(* rebuild_passwords_view: one that is known is tried at once; without an  *)
(* open vault the rows stay as they were, hidden.                          *)
RebuildPasswordsView ==
  /\ \/ ~unlocked /\ known /\ VaultOpened
     \/ UNCHANGED vaultVars
  /\ loginRows' = IF unlocked' THEN Listed(logins) ELSE loginRows

(* Mutant: the id after the largest one there (no AUTOINCREMENT).          *)
NextRowIdReused == IF DOMAIN logins = {} THEN 1
                   ELSE 1 + CHOOSE x \in DOMAIN logins : \A y \in DOMAIN logins : y <= x
NextRowId == nextLogin

(* PasswordStore::add, update and delete.                                  *)
LoginAdded(content) ==
  /\ born < MaxLogins
  /\ logins' = [id \in DOMAIN logins \cup {NextRowId} |->
                  IF id = NextRowId THEN [born |-> born + 1, content |-> content]
                  ELSE logins[id]]
  /\ nextLogin' = nextLogin + 1 /\ born' = born + 1
LoginUpdated(id, content) ==
  /\ logins' = IF id \in DOMAIN logins THEN [logins EXCEPT ![id].content = content] ELSE logins
  /\ UNCHANGED <<nextLogin, born>>
LoginDeleted(id) ==
  /\ logins' = [x \in DOMAIN logins \ {id} |-> logins[x]]
  /\ UNCHANGED <<nextLogin, born>>

(* open_passwords.                                                         *)
OpenPasswords ==
  /\ OpenOverlay("passwords")
  /\ text' = IF active \in Open THEN ActiveUrl ELSE text
  /\ editing' = 0 /\ editingBorn' = 0
  /\ RebuildPasswordsView
  /\ UNCHANGED <<pageVars, rows, selected, bookmarkVars,
                 logins, nextLogin, born, bindingVars>>

(* unlock_vault_clicked, with a passphrase that opens the vault.           *)
UnlockVaultClicked ==
  /\ overlay = "passwords" /\ ~unlocked
  /\ VaultOpened
  /\ loginRows' = Listed(logins)
  /\ UNCHANGED <<pageVars, overlay, panels, switcherVars, bookmarkVars,
                 logins, nextLogin, born, editing, editingBorn, bindingVars>>

(* The rows and the form are in view when the vault is open.               *)
RowsShown == overlay = "passwords" /\ unlocked

(* password_row_fill_clicked: only into a page of the login's own site.    *)
PasswordRowFillClicked(i) ==
  /\ RowsShown
  /\ i \in 1..Len(loginRows) /\ loginRows[i].site = ActiveUrl
  /\ UNCHANGED <<pageVars, rows, selected, bookmarkVars, loginVars, bindingVars>>
  /\ CloseAllOverlays

(* password_row_edit_clicked, start_editing_login.                         *)
PasswordRowEditClicked(i) ==
  /\ RowsShown
  /\ i \in 1..Len(loginRows)
  /\ editing' = loginRows[i].id /\ editingBorn' = loginRows[i].born
  /\ UNCHANGED <<pageVars, overlay, panels, switcherVars, bookmarkVars,
                 vaultVars, logins, nextLogin, born, loginRows, bindingVars>>

CancelEditingLogin ==
  /\ RowsShown /\ editing # 0
  /\ editing' = 0 /\ editingBorn' = 0
  /\ UNCHANGED <<pageVars, overlay, panels, switcherVars, bookmarkVars,
                 vaultVars, logins, nextLogin, born, loginRows, bindingVars>>

(* submit_login_from_fields.                                               *)
SubmitLogin(content) ==
  /\ RowsShown
  /\ IF editing = 0 THEN LoginAdded(content) ELSE LoginUpdated(editing, content)
  /\ editing' = 0 /\ editingBorn' = 0
  /\ loginRows' = Listed(logins')
  /\ UNCHANGED <<pageVars, overlay, panels, switcherVars, bookmarkVars, vaultVars, bindingVars>>

(* password_row_delete_clicked, delete_login: the form stays as it is.     *)
PasswordRowDeleteClicked(i) ==
  /\ RowsShown
  /\ i \in 1..Len(loginRows)
  /\ LoginDeleted(loginRows[i].id)
  /\ loginRows' = Listed(logins')
  /\ UNCHANGED <<pageVars, overlay, panels, switcherVars, bookmarkVars,
                 vaultVars, editing, editingBorn, bindingVars>>

(* Another window of the same profile works on the vault.                  *)
OtherWindow ==
  /\ \/ \E content \in Contents : LoginAdded(content)
     \/ \E id \in DOMAIN logins : LoginDeleted(id)
  /\ UNCHANGED <<pageVars, overlay, panels, switcherVars, bookmarkVars,
                 vaultVars, loginRows, editing, editingBorn, bindingVars>>

-----------------------------------------------------------------------------
(* Settings and key bindings.                                              *)

(* rebuild_keybindings_rows.                                               *)
RebuildKeybindingsRows == bindingRows' = bindings'

(* open_settings.                                                          *)
OpenSettings ==
  /\ OpenOverlay("settings")
  /\ text' = IF active \in Open THEN ActiveUrl ELSE text
  /\ listening' = NoAction
  /\ UNCHANGED <<pageVars, rows, selected, bookmarkVars, loginVars, bindings, menu>>
  /\ RebuildKeybindingsRows

(* save_settings; what it changes is in AppKitPages and ProfileStores.     *)
SaveSettings ==
  /\ overlay = "settings"
  /\ UNCHANGED <<pageVars, rows, selected, bookmarkVars, loginVars, bindingVars>>
  /\ CloseAllOverlays

(* apply_key_equivalents: a menu item has the equivalent of the first      *)
(* chord of its action, if there is one.                                   *)
Equivalents(b) == [a \in Actions |-> IF b[a] = <<>> THEN NoChord ELSE KeyEquivalent[b[a][1]]]
RebuildMenuKeyEquivalents == menu' = Equivalents(bindings')

KeybindingAddClicked(a) ==
  /\ overlay = "settings"
  /\ listening' = a
  /\ UNCHANGED <<pageVars, overlay, panels, switcherVars, bookmarkVars, loginVars,
                 bindings, menu>>
  /\ RebuildKeybindingsRows

(* keybinding_remove_clicked: whichever chord was clicked, the first goes. *)
KeybindingRemoveClicked(a) ==
  /\ overlay = "settings"
  /\ bindingRows[a] # <<>> /\ bindings[a] # <<>>
  /\ bindings' = [bindings EXCEPT ![a] = Tail(@)]
  /\ RebuildMenuKeyEquivalents
  /\ RebuildKeybindingsRows
  /\ UNCHANGED <<pageVars, overlay, panels, switcherVars, bookmarkVars, loginVars, listening>>

(* keybinding_commit, of a chord or of a text that is none.                *)
KeybindingCommit(a, chord) ==
  /\ overlay = "settings" /\ listening = a
  /\ bindings' = IF chord = NoChord \/ chord \in InOrder(bindings[a]) THEN bindings
                 ELSE [bindings EXCEPT ![a] = Append(@, chord)]
  /\ listening' = NoAction
  /\ RebuildMenuKeyEquivalents
  /\ RebuildKeybindingsRows
  /\ UNCHANGED <<pageVars, overlay, panels, switcherVars, bookmarkVars, loginVars>>

(* open_profile_picker, rebuild_profile_rows.                              *)
OpenProfilePicker ==
  /\ OpenOverlay("profile")
  /\ text' = IF active \in Open THEN ActiveUrl ELSE text
  /\ UNCHANGED <<pageVars, rows, selected, bookmarkVars, loginVars, bindingVars>>

(* profile_row_clicked, of the profile this is or of one that was started; *)
(* when the start fails the panel stays.                                   *)
ProfileRowClicked ==
  /\ overlay = "profile"
  /\ UNCHANGED <<pageVars, rows, selected, bookmarkVars, loginVars, bindingVars>>
  /\ CloseAllOverlays

(* create_and_open_profile closes the panel whatever the start comes to.   *)
CreateAndOpenProfile ==
  /\ overlay = "profile"
  /\ UNCHANGED <<pageVars, rows, selected, bookmarkVars, loginVars, bindingVars>>
  /\ CloseAllOverlays

-----------------------------------------------------------------------------
Init ==
  /\ pages = <<1>> /\ active = 1 /\ nextId = 2
  /\ url = [p \in Ids |-> StartPage]
  /\ overlay = "none" /\ panels = {}
  /\ text = StartPage /\ rows = <<>> /\ selected = 0
  /\ bookmarks = <<>> /\ bookmarkRows = <<>> /\ star = FALSE /\ starOf = StartPage
  /\ known \in BOOLEAN /\ unlocked \in {FALSE, known}
  /\ logins = [id \in {} |-> 0] /\ nextLogin = 1 /\ born = 0
  /\ loginRows = <<>> /\ editing = 0 /\ editingBorn = 0
  /\ bindings \in [Actions -> {<<>>} \cup {<<c>> : c \in Chords}] /\ bindingRows = bindings
  /\ menu = Equivalents(bindings)
  /\ listening = NoAction
  /\ aborted = FALSE

Handler ==
  \/ OpenSwitcher \/ OpenSwitcherEditingUrl
  \/ \E t \in Texts : Type(t)
  \/ \E d \in {"up", "down"} : SwitcherNavigate(d)
  \/ \E i \in 1..Len(rows) : SwitcherRowClicked(i) \/ SwitcherRowCloseClicked(i)
  \/ \E command \in BOOLEAN : AddressBarActivated(command)
  \/ CloseFromKey \/ SwitchToNeighbour \/ CloseAnyOverlay
  \/ OpenBehind \/ \E u \in Urls, p \in Ids : Navigate(p, u)
  \/ OpenBookmarks \/ ToggleBookmarkForActive
  \/ \E i \in 1..Len(bookmarkRows) : BookmarkRowOpenClicked(i) \/ BookmarkRowRemoveClicked(i)
  \/ OpenPasswords \/ UnlockVaultClicked \/ CancelEditingLogin \/ OtherWindow
  \/ \E i \in 1..Len(loginRows) : \/ PasswordRowFillClicked(i) \/ PasswordRowEditClicked(i)
                                  \/ PasswordRowDeleteClicked(i)
  \/ \E content \in Contents : SubmitLogin(content)
  \/ OpenSettings \/ SaveSettings \/ OpenProfilePicker \/ ProfileRowClicked \/ CreateAndOpenProfile
  \/ \E a \in Actions : \/ KeybindingAddClicked(a) \/ KeybindingRemoveClicked(a)
                        \/ \E chord \in Chords \cup {NoChord} : KeybindingCommit(a, chord)

Next ==
  /\ ~aborted
  /\ \/ Handler /\ UNCHANGED aborted
     \/ NavigateBeyond

Spec == Init /\ [][Next]_vars

-----------------------------------------------------------------------------
TypeOK ==
  /\ Open \subseteq 1 .. nextId - 1 /\ nextId \in 1 .. MaxPages + 1
  /\ active \in 1 .. nextId - 1 /\ url \in [Ids -> Texts]
  /\ overlay \in Overlays /\ panels \subseteq Overlays \ {"none"}
  /\ text \in Texts
  /\ selected \in Nat
  /\ InOrder(bookmarks) \subseteq Texts /\ InOrder(bookmarkRows) \subseteq Texts
  /\ star \in BOOLEAN /\ starOf \in Texts \cup {NoRow}
  /\ \A id \in DOMAIN logins : id < nextLogin /\ logins[id] \in [born : 1..born, content : Contents]
  /\ unlocked \in BOOLEAN /\ known \in BOOLEAN /\ unlocked => known
  /\ editing \in 0 .. nextLogin - 1 /\ editingBorn \in 0..born
  /\ bindings \in [Actions -> Seq(Chords)] /\ bindingRows \in [Actions -> Seq(Chords)] /\ menu \in [Actions -> Chords \cup {NoChord}]
  /\ listening \in Actions \cup {NoAction}

(* While the switcher is open every tile can do what it shows: a listed    *)
(* page is still open, whichever key, cross or panel closed others         *)
(* meanwhile, no two tiles are of the same page or URL, no heading is      *)
(* without rows and one tile adds a page (close_page,                      *)
(* rebuild_switcher_rows, build_switcher_rows).                            *)
TilesAreLive ==
  overlay = "switcher" =>
    /\ \A i \in 1..Len(rows) :
         /\ rows[i].kind = "open" => rows[i].of \in Open
         /\ rows[i].kind = "header" => i < Len(rows) /\ rows[i + 1].kind # "header"
         /\ \A j \in 1..Len(rows) :
              i # j /\ IsActivatable(rows[i]) /\ IsActivatable(rows[j]) => rows[i].of # rows[j].of
    /\ Cardinality({i \in 1..Len(rows) : rows[i].kind = "add"}) = 1

(* When the tiles are drawn anew none that was found in the history or the *)
(* bookmarks is of a URL that an open page shows by then, whether or not   *)
(* that page matches what was typed: a page is switched to and not opened  *)
(* a second time (build_switcher_rows and its test                         *)
(* history_match_already_open_is_not_duplicated).  It may be so later,     *)
(* once a page has moved on to the URL of a tile.                          *)
TilesAreNew ==
  [][rows' # rows =>
       \A i \in 1..Len(rows') :
          rows'[i].kind \in {"history", "bookmark"} => \A p \in Open' : url'[p] # rows'[i].of]_vars

(* The toolbar and the menu never lag behind what the panels change: the   *)
(* star is that of the bookmarks, for the URL it was last drawn for, a     *)
(* menu item has the key equivalent of its action's first chord or none    *)
(* where AppKit has none, the settings panel the keys as they are, and one *)
(* overlay is in view, the one that is open                                *)
(* (refresh_bookmark_toggle_button, toggle_bookmark_for_active,            *)
(* rebuild_menu_key_equivalents, close_all_overlays).                      *)
ToolbarTells ==
  /\ star = (starOf \in InOrder(bookmarks))
  /\ menu = Equivalents(bindings)
  /\ overlay = "settings" => bindingRows = bindings
  /\ panels = {overlay} \ {"none"}

(* A click in the vault's panel changes the login it showed and no other,  *)
(* whatever other windows have added or deleted since it was drawn: Save   *)
(* writes to the login the form was filled from, the cross deletes the     *)
(* row's (submit_login_from_fields, delete_login, the AUTOINCREMENT key).  *)
VaultChangesAreShown ==
  [][loginRows' # loginRows \/ editing' # editing =>
       \A id \in DOMAIN logins :
          id \notin DOMAIN logins' \/ logins'[id] # logins[id] =>
            \/ id \in DOMAIN logins' /\ logins[id].born = editingBorn
            \/ id \notin DOMAIN logins' /\ \E i \in 1..Len(loginRows) : loginRows[i].born = logins[id].born]_vars
=============================================================================
