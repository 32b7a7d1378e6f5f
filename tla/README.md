# One Page Browser: specification, model checking and proofs

The browser is one core of plain Rust (`browser-core`, `browser-chrome-core`,
`rpc-protocol`) under three native front ends: GTK (`browser-linux-gtk3`),
AppKit (`browser-macos-appkit`) and WinUI (`browser-windows-reactor`). This
directory holds TLA+ modules for the parts whose correctness depends on order
and failure, the TLC runs that check them, and TLAPS proofs of the most
important results. Source lines are given relative to `src/crates/`.

## 1. Inventory

| Component | State | Operations | What is hard | What makes it correct |
|---|---|---|---|---|
| `PageManager` (`browser-core/src/lib.rs`) | the Vec of pages, `active_id`, `next_id`, `max_loaded_pages`; per page `engine`, `loaded`, `last_accessed`, `last_url` | insert, insert_background, insert_unloaded, remove, take/install_engine, set_active, set_max_loaded_pages, next/previous_page_id | long sequences of calls, limits 0 and 1, ids of pages that are gone | an id names one page; eviction spares the foreground page, goes by age, ends within the limit |
| GTK pages (`browser-linux-gtk3/src/lib.rs`) | the PageManager, the engines, stack containers, `restoring`, the session file | add_page, add_page_related, add_unloaded_page, ensure_engine_loaded, set_active, close_page, switch_to*, set_max_loaded_pages, quit, restore | building an engine runs the main loop in the middle of a handler; a nested build aborts; kills; failing engines | engines, containers, pages and the file agree; nothing open is lost; a restore keeps the other tabs |
| Session file (`browser-core/src/session.rs`, `browser-chrome-core/src/restore.rs`) | `session.json` | load, save, resolve_restore_plan | rewritten in place, overwritten during a restore | it always holds the open pages |
| `RpcChildProcess` (`rpc-protocol/src/stdio_client.rs`) | pending table, `closed`, one channel per call, two pipes, the queue of incoming requests | call (any thread), reader thread, serve_incoming, shutdown, Drop | the drain against a late call; full pipes; a child that answers twice, garbles, dies | every call ends, with its own answer or because the connection broke |
| GTK chrome (`browser-linux-gtk3/src/lib.rs`, `internal_rpc.rs`) | which overlay shows, whether the pages below take input, the switcher's engine, its page's script, search box and list, title chip, star, address bar | open/close switcher and passwords panel, menus, chords, calls of the browser's pages | two overlays share one switch; handlers nested in the switcher's build; refreshes before the page can hear them | input always comes back; what the chrome tells is so |
| AppKit pages (`browser-macos-appkit/src/lib.rs`) | as GTK, no nesting; the chooser and the passphrase prompt | as GTK; unload_engines keeps no URL, set_active rebuilds no engine, a webview has no URL before its navigation begins | the differences from GTK | as GTK |
| AppKit overlays (same file) | five panels, each a copy of pages, bookmarks, logins, bindings; star, menu keys | rebuild_*, row clicks by index, keys, forms | the copy is old when it is clicked | a click does what the panel showed |
| WinUI pages (`browser-windows-reactor/src/lib.rs`) | as GTK; controls are mounted by rendering and matched by position; pending new windows with deferrals | do_add_page*, page_element, on_ready and its tick, close_page, save_session | callbacks of controls that come later or never; controls kept for another page; handlers of an older render | as many controls as loaded pages, only the front one seen among those a page knows; URLs kept; always a page; deferrals completed |
| WinUI overlays (same file) | reactive state and what is not, the last render's captures | setters, bump, dispatch_action, save_settings, commit | handlers run on captured values; a change that makes no render due | the window tells the state, or a render is due |
| Profiles, command lines, passphrases and vault (`profile.rs`, `passwords.rs`, opening `history.rs`, the GTK start, prompt and panel) | per profile `history.db`, `passwords.db` and a marker file for each; per process the vault's state and the passphrase it knows | resolve_*, launch_*, prompt, open_encrypted, enable_passphrase, open_passwords, unlock, mark | crash between database and marker, several processes, files that fail, wrong passphrases, names like flags | both databases share one passphrase; what is encrypted is marked; nobody is asked twice |
| Logins and their page (`passwords.rs`, `bitwarden.rs`, `assets/passwords/app.js`) | rows of two stores; the page's list, cache and form | list, reveal, add, update, delete | every await lets clicks and other answers in | no password reaches another login; the deleted stay deleted |
| Stores (`settings.rs`, `keybindings.rs`, `bookmarks.rs`, `session.rs`, `assets/profile/app.js`) | one file each, a copy per window, a copy of that per page | load, change, save | in-place rewrite, several windows, lists sent from old copies, navigations that save nothing | what was read or saved last is in the file until somebody saves again |
| Switcher rows (`switcher.rs`) | none | rows for a query, activate_row, arrow keys | ordering, duplicates, headings | each page once, no heading activated |
| Webview RPC and asset servers (`browser-chrome-core`) | one worker thread per server, a channel to the UI thread | one method per switcher, profile and passwords action | the worker waits for a UI thread that is busy | one request at a time, one reply each |
| App-id migration (`app_info.rs`) | old and new directories | migrate at start | one of several moves failing | not modelled: the list of old ids is empty |
| Extension host (`browser-extension-host`) | a JS runtime | run a script, answer and call the host | the child's end | any child, in `RpcChildProcess` |
| Embedding, zip-assets, engine bindings, test servers and drivers | | | external programs, numeric code, build tools | not modelled |

Components meet in three ways. The front ends own one `PageManager` and call
it inside their handlers on the UI thread; what an insert or a new limit
evicts, the front end has to tear down. Internal pages (switcher, profile,
passwords) call back over HTTP: a worker thread posts the call to the UI
thread and waits for the reply. The host and a child process talk over two
pipes, each side calling the other.

`PROJECT.json` lists every component with its status, and under `hazards` the
places where this code is hard to test, each with the properties that watch it.

## 2. Plan

1. `PageManagerOps`, `PageManager`, `EvictionLoop`, with proofs. **Done.**
2. `GtkPages`: `PageManagerOps` with engines, containers, the nested main loop
   and the session file, and proofs of all its safety properties. **Done.**
3. `RpcCalls` (abstract) and `RpcChildProcess`, the refinement between them, and
   proofs. **Done.**
4. `ProfileUnlock` with `CommandLine`, and proofs. **Done.**
5. `Tabs` (abstract), `AppKitPages` and `ReactorPages`, which both implement it.
   **Done**, with proofs of both refinements and of the other safety properties.
6. `SwitcherRows`, `AppKitOverlays`, `ReactorOverlays`, `GtkChrome`: what the
   three front ends show. **Done**, with proofs of all their safety properties.
7. `WebviewRpc`, `PasswordsPage`, `ProfileStores`: the browser's own pages and
   the files, and proofs for the last two. **Done.**

Every safety property of the runs is proved but one (section 5, last paragraph).
What could come next: app-id migration, once the list of former ids is not empty.

How the modules fit together:

    PageManagerOps --+-- PageManager, EvictionLoop
                     +-- GtkPages
                     +-- Tabs <== AppKitPages, ReactorPages   (<== implements)
    RpcCalls <== RpcChildProcess
    CommandLine ---- ProfileUnlock
    SwitcherRows --+- AppKitOverlays
                   +- ReactorOverlays
    WebviewRpc ----- PasswordsPage
    VecFilter <-- ReactorPages, GtkChrome, SwitcherRows
    ProfileStores stands alone

A front end's pages and its overlays are two modules because they share little:
the overlays see an order of pages, an active one and their URLs, and the pages
know of the overlays only that a handler may run.

## 3. Modules

### PageManagerOps, PageManager, EvictionLoop

A `PageManager` is one record and each method an operator from a record to a
record, since a front-end handler calls several of them in one step. A page's
id is its number; `loaded` and `engine` are sets of ids; `accessed` holds the
order of the `last_accessed` instants as ranks, because only their order is read
(`min_by_key`). Two calls of `Instant::now()` are taken to differ, as the
repository's tests arrange by sleeping.

`enforce_loaded_limit` is a loop in the code. `Evicted` is its closed form (a
page goes exactly when the count is still too high after all older candidates
have gone), which the proofs can use; `EvictionLoop` writes the loop down as it
is and TLC compares the two in every reachable state (`EvictionMatchesLoop`).

`PageManager` drives the operators with an arbitrary caller: any order of calls,
any id ever handed out, ids allocated and inserted later or never.

### GtkPages

Everything runs on the GTK thread, so a handler is one action, with one
exception: `WryEngine::new` runs the main loop until no event is pending
(`render-engine/src/linux.rs:137`). A handler that builds an engine is therefore
two actions, and `build` is the one suspended in between; it holds what is left
to do. Any other handler may run meanwhile, except a second internal RPC call:
the channel's source is not dispatched inside its own dispatch. `web_context` is
mutably borrowed for the whole build, so a nested handler that builds an engine
panics in a GTK callback and the process aborts (`StartBuild`, second disjunct).

| Action | Code |
|---|---|
| AddPage, FinishAddPage, FailAddPage | `add_page` before and after its engine, with what its caller does next: nothing, `close_page`'s save, or the rest of a restore |
| AddPageRelated, FinishAddPageRelated, FailAddPageRelated | the `create` signal and `add_page_related`: the page has no URL, since WebKit navigates it after the handler (Navigate), and it may be saved and evicted without one |
| SwitchTo, SwitchToNextPage, SwitchToPreviousPage (through Activate), FinishReload, FailReload | `switch_to*`, `set_active`, `ensure_engine_loaded` |
| ClosePage | `close_page`, from the key (whatever `active_id` names) or the switcher (an id it listed, perhaps gone) |
| SetLimit | `set_max_loaded_pages` |
| OpenChrome, FinishChrome | the switcher's and the profile menu's own engines |
| TitleChanged, Navigate | a title arriving (saves), a URL changing (does not) |
| Restore, OpenLink | a new process: the saved session, or an external link alone |
| Quit, Exit, Kill | `quit`, the return of `gtk::main`, the end of the process at any point |

The session file is `disk`. An entry carries the id of the page it stands for so
that properties can speak of it; the restore uses only its URL. When a
process ends, by itself or killed, everything but the file and the limit (a
setting) is reset (`Gone`). Saving is atomic here; the code truncates and rewrites the file in place, so a kill inside
`fs::write` is not covered. GTK's stack (first child visible by itself, unknown
names ignored) is modelled from its use. `failed` is a history variable: some
properties hold until an engine of the process fails to build, and say so.

### RpcCalls, RpcChildProcess

Each step of a thread is one access to something shared: the table under its
mutex, the flag, a pipe, a channel. `call` is TakeId, InsertPending,
WriteRequest, CheckClosed, Reclaim, Receive, with Withdraw for the failed write;
the reader is ReadMessage, ReadEof, SetClosed, DrainPending; `serve_incoming` is
TakeIncoming, WriteReply, StopServing. A pipe holds PipeSize messages, then a
write blocks. Of the child nothing is assumed: it may answer late, twice or out
of order, call the host, break the framing, close its stdout or end.

`RpcCalls` states what the callers are promised: a call ends with the child's
answer to it, or with an error if the connection has broken, and once it has
broken every call does end. `RefinesRpcCalls` maps the threads onto it, with its
liveness.

### ProfileUnlock, CommandLine

A profile's two databases and its two marker files are shared by all processes;
`proc` is what one process knows. A database is `"absent"`, `"plain"` or the
passphrase it is encrypted with, which the first successful `open_encrypted`
settles. An action ends where a file is written, so that a process can die, or
another one run, in between.

`CommandLine` has the `resolve_*` functions of `profile.rs` over sequences of
tokens, each looking at the tokens in its own way as the code does, and the
lines that the `launch_*` functions make. A process starts with any line a user
types (`Typed`) or a window's profile page makes for any name (`Names`).

| Action | Code |
|---|---|
| Main, Launch | `main`: what the line asks for; reads the marker |
| LaunchLink, Choose | `show_external_link_chooser` and its Open button |
| OpenPlain | `build_window_and_app`: a plain or an in-memory history |
| EnterHistory, MarkHistory, Build | `show_passphrase_prompt`: `open_encrypted`, `enable_passphrase`, then the window and `note_unlocked_with_passphrase` |
| OpenPasswords, UnlockVaultClicked, ClosePasswords | the vault's panel and `decide_vault_unlock_action` |
| MarkVault | `enable_vault_passphrase` and the rest of `try_open_vault_with` |
| End | Cancel, quit, kill or crash |

A process may die between any two writes, and any opening or writing of a file
may fail; an opening that fails may still have created its database, because the
schema's statements run one by one (`FailsToOpen`). The history variable `faults`
records which of the two has happened: `MarkersTell` and `SessionPassphraseOpens`
hold regardless, the other properties until a fault they name. A process
whose window could not be built after its prompt or chooser was closed is
`"stuck"`: it runs on without a window. A profile may be given the name private
windows have ("Private Browsing"), so `Private` is one of `Profiles`.

### Tabs, AppKitPages, ReactorPages

`Tabs` is what a front end promises whatever its engines do: the file names the
open tabs in order, with the one in front, at every moment at which the process
can die; while a session is restored the file stays as it is; closing the tab in
front brings the first of the others there. `RefinesTabs` maps the PageManager
and the session file of both front ends onto it. `GtkPages` does not implement
`Tabs`: a handler of it can be suspended, and then the file may list a page that
a nested handler has closed; `OpenPagesSaved` and `WindowFollowsPages` say what
it keeps.

`AppKitPages`: nothing nests, so a handler is one action; a restore, in whose
middle the process may be killed, is one action per page (RestorePage,
EndRestore). Building an engine may fail, with what `add_page`, `add_page_related`
and `ensure_engine_loaded` leave behind then (`NotAdded`, `stray`). `last_url` is
never assigned by this crate, which the model has as it is. `WKWebView.URL` is nil
until a navigation begins, so the URL of a new or rebuilt webview is the one asked
for or none (`Reported`), and a save in the same handler may write either; a
popup's page has none. LaunchWithLink is the chooser, LaunchAsking, Confirm, CancelPrompt the passphrase prompt.

`ReactorPages`: a handler changes the core and makes a render due; it may run
before that render, again and again, so keys and tiles act on what the last one
saw (`view`): close_page on the page that was active then, switch_to on pages that
may be gone, which `ensure_engine_loaded` and `set_active` take as they come.
Render matches controls (`slots`) with loaded pages by position, which is what the
module's comment says the library does for WebView2 although `with_key` asks for
more: it mounts or unmounts at the end of the list, and a control that stays keeps
its callbacks and its WebView even if another page now has its place. `held` is
which control a page's `xaml_handle` is, `live` whether a control's cells are those
of an engine the page still has, `web` the URL an engine reads from the WebView in
them. OnReady and ReadyTick are `EnsureCoreWebView2Async`'s callback and its
deferred tick, which puts a WebView in; SourceChanged, NavigationCompleted,
TitleChanged the control's events, which also come from a control whose page has
lost its engine; NewWindowRequested takes a deferral, NewWindowTick makes the page
that `pending` waits for, and ReadyTick (or LateTick, of a control that has gone)
completes it.

### VecFilter, SwitcherRows, AppKitOverlays, ReactorOverlays

`VecFilter` is `Iterator::filter` and `Vec::retain`, by the places of the entries
that stay: what the recursive `SelectSeq` computes, in a form a proof can open.

`SwitcherRows` has the pure functions of `switcher.rs`: the rows for a query,
what activating a row means, where an arrow key goes. Titles and colours are left
out, and a text matches what has it as its URL.

`AppKitOverlays`: each panel is a copy made by its last rebuild (`rows`,
`bookmarkRows`, `loginRows`, `bindingRows`), and a click carries an index into
it. Menu keys work while a panel is open and the vault is shared with other
windows, so copies grow old. `born` and `editingBorn` identify a login beyond
its row id; `starOf` is the URL the star was last drawn for, `KeyEquivalent` what
`chord_to_key_equivalent` makes of a chord: AppKit has no equivalent for some keys
(Tab, PageUp and PageDown, which are bound by default), and two chords may have the
same one. A handler that panics ends the process (`aborted`).

`ReactorOverlays`: the view is what the last render captured (`shown`); clicks
and keys run closures of that render, with its texts and active page, on the live
core, settings and bindings. `due` says whether a render will come. A setter
makes one due if it changes reactive state, `bump` always; what changes without
either stays unseen.

### GtkChrome

Overlays, star, title chip, address bar and switcher of the GTK window, driven by
the user, by chords and by the calls the browser's own pages make
(`Origins`). `WryEngine::new` runs other handlers before it returns, so a handler
that builds an engine is suspended in `busy` and a Finish action does the rest;
one that borrows what it holds meanwhile aborts the process. The switcher's page
loads on its own time (PageLoads), perhaps inside the build: until its `script` is
there a refresh does nothing (`typeof loadAll === 'function'`). `loadAll` keeps a
`query` and asks for the pages (`asking`; SwitcherOpenPages answers into `grid`). It
is called by the script itself, by the page's search box (PageSearches), and by
refresh_switcher_if_open with the address bar's text. Loads under way together
count as one: that the browser may show an older answer last is not modelled. A
popup's page is Blank until it navigates.

### WebviewRpc, PasswordsPage

`WebviewRpc` is a page's `fetch` to the loopback server, whose one thread takes a
request at a time and waits for the GTK thread; calls reach the server and
answers the page in any order. `PasswordsPage` extends it with the page, await by
await, and the `passwords.*` handlers over the vault and Bitwarden. `own` and
`deleted` record what was given to each row.

### ProfileStores

Settings (search engines, theme, Bitwarden server), key bindings, bookmarks and
session: each a file, a copy per window, and a copy of that in the page that
shows it. `kind` picks the one a behaviour follows, since they are handled
alike and do not meet. A save is Truncate, then Write; either may fail, the
process may die before or in between, and saves of two windows may overlap: their
texts then mix (`mixing`, WriteAmong), and the file may be torn after both. The
session is every open page's URL, also of two pages at the same one, and is saved
when a page is opened, closed, shown or titled; a page that only navigates
(Navigate) saves nothing. `saved` is the copy a window last read or saved, `kept`
the windows since whose last read or save no other save has begun.

## 4. Runs

| Run | Question | Bounds |
|---|---|---|
| `page_manager` | eviction is what the loop computes, oldest first | 4 ids, limits 0, 1, 2 and none |
| `gtk_pages` | pages, engines, containers and file with failing builds, nesting, kills and restarts; what holds in addition until a build fails | 3 ids, 2 URLs, limits 1 and 2 |
| `gtk_liveness` | a quit ends the process | 2 ids |
| `rpc` | no lost wakeup; the refinement of `RpcCalls` with its liveness; serve_incoming ends | 2 threads, 3 calls, pipes of 1, 2 stray messages |
| `profile_unlock` | one passphrase until an error, encrypted means marked | 2 processes, 2 profiles (one named as private windows are), 4 names, 7 typed lines, 2 passphrases; crashes and failing files |
| `appkit_pages` | views and engines agree; refinement of `Tabs`; a restore is faithful | 3 ids, 2 URLs, limits 1 and 2 |
| `appkit_overlays` | a click does what the panel showed; nothing open is offered anew; star and menu keep up | 2 ids, 2 logins, 1 action, 2 chords, one of them without an equivalent; OneSubject |
| `reactor_pages` | what a render leaves; always a page; URLs kept; popups handed over; refinement of `Tabs` | 2 ids, 2 URLs, limits 1 and 2, 1 request waiting; OneUrlWithRequests |
| `gtk_chrome` | input comes back; how conflicts and stale stars arise; titles and the switcher's list are live | 2 ids, 3 URLs, 1 bookmark, sites with 0, 1 and 2 logins; OneSubject |
| `passwords_page` | no password strays; the deleted stay deleted | 2 passwords, 1 vault id, 1 Bitwarden login with the same id, 2 calls |
| `profile_stores` | what was read or saved last is in the file; pages lose only what they have not read | 2 windows and a private one, 2 open, 2 engines, 1 action, 2 chords, 2 URLs, sessions of 2 pages |
| `reactor_overlays` | stale only if a render is due; only the shown page closes | 3 ids, 2 URLs, limits 0 and 1, 2 chords, MaxUnseen 1; OneSubject |

Why the bounds are enough:

- Four ids let two pages be candidates while a third is active and a fourth has
  been closed or is in the caller's hands; limits 0 and 1 are the boundary cases,
  2 leaves a choice.
- Three ids give a restore with pages before and after the active one, and a
  limit of 1 or 2 forces evictions and reloads. `reactor_pages` has two, one of
  which may be a popup's: eviction, popup and render still come in every order,
  but not between three pages.
- A pipe of one message blocks at once; three calls by two threads let one
  follow another's failure; two strays let the child answer twice and garble.
- Two processes interfere on one profile, and two passphrases make one wrong.
  The lines have every flag, a value that looks like a flag, and a link.
- Two calls under way are what lets an answer overtake another, and a login of
  each store with the same id is what could be mixed up.
- Two windows overlap in a save; a third that is private shows what it leaves.
- Where a run has too many independent parts, a constraint in its MC module lets
  a behaviour move one at a time. `OneSubject` (both overlay runs): pages,
  logins or settings, key bindings, which share the overlay and no other state.
  `OneSubject` (`gtk_chrome`): what the switcher's page has once its script has run,
  or bookmarks, the picker and a third URL; no other handler reads what that page
  has. `OneUrlWithRequests` (`reactor_pages`): while a new-window request waits all
  pages stay at one URL. The theorems of these modules need none of the three.
- A VIEW leaves out what cannot matter any more to the run's properties or to a
  later step, so that states that differ in it alone are checked once: in
  `gtk_pages`, `appkit_overlays` and `reactor_pages` the URLs and marks of pages that
  are gone and of copies that are not shown, and in the last the file while it
  repeats what the core says; in `gtk_chrome` what the switcher's page has
  until its script has run, and its rows while others are asked for. Each view is
  explained where it is defined. For the liveness of `reactor_pages` it matters that
  states a view makes equal have the same steps enabled: the file is read by a
  launch and while restoring only, and then the view has it.
- `MaxUnseen` bounds how many handlers run before a render that is due, `MaxOpen`
  the windows open at once; `MaxPages`, `MaxCalls`, `MaxStray`, `PipeSize`,
  `MaxAsked`, `MaxId`, `MaxLogins`, `MaxBookmarks` what their names say.

`rpc`, `gtk_chrome` and `appkit_overlays` allow deadlock: a connection that has
ended, a process that has quit, and one that has panicked stay so.

### What the code does not keep

Some sentences of the repository's comments are not what the code does. Those that
TLC refutes are written as properties at the end of their modules; adding one to
the module's configuration as it stands gives the counterexample
(`DeadConnectionFailsCalls` with `HostFairSpec` as the specification).

| Property | Sentence | What the code does |
|---|---|---|
| `PageManager`: FreshPageProtected | `insert_background` (`browser-core/src/lib.rs:234-240`): the fresh page is protected "from `enforce_loaded_limit` evicting it immediately" | with a limit that leaves room for the foreground page only, it is evicted at once (:252) |
| `GtkPages`: ActiveNeverWithoutEngine | `Page.engine` (`browser-core/src/lib.rs:117-121`): "the active page is never unloaded" | a failed rebuild leaves the active page without an engine (`browser-linux-gtk3/src/lib.rs:714`) |
| `GtkPages`: SessionReflectsState | `save_session` (`browser-linux-gtk3/src/lib.rs:504-522`): the file is "meant to always already reflect current state" | a URL that changes without a title is not saved until the next event (:317) |
| `GtkPages`: UnloadedPagesHaveUrl | `Page.last_url` (`browser-core/src/lib.rs:138-141`): "the only source of truth for the URL" of an unloaded page | a popup's page evicted before WebKit has navigated it has an empty one (`browser-linux-gtk3/src/lib.rs:642`), and comes back blank |
| `RpcChildProcess`: DeadConnectionFailsCalls | `spawn` (`stdio_client.rs:70-77`): "every still-pending `call()` gets a real error instead of hanging forever" | a call blocked in its write to a child that no longer reads is not reached (:146) |
| `ProfileUnlock`: PrivateWritesNothing | `Profile.ephemeral` (`profile.rs:14-20`): "nothing about it is ever written to disk" | a private window's password panel creates a vault and its marker (`browser-linux-gtk3/src/lib.rs:1015`) |
| `ProfileUnlock`: MarkedProfilesAreAsked | `enable_passphrase` (`profile.rs:127-129`): "future launches know to prompt" | a launch with a link does not look at the marker, and is left without a window (:2522) |
| `ProfileUnlock`: OnePassphrase | `vault_passphrase_marker_path` (`profile.rs:141-148`): history and vault "share one passphrase value" | after a failed silent set-up the panel takes any passphrase (:1068) |
| `PasswordsPage`: BlankKeepsCurrent | the form (`passwords/app.js:81`): "leave blank to keep current" | a password revealed earlier is kept in the page after an update (:142) and written back |
| `ReactorPages`: PendingOnlyInFlight | `pending_new_windows` (`browser-windows-reactor/src/lib.rs:219-221`): only "genuinely in-flight requests" | the request of a page that is closed, evicted or given the place of another before it has a control of its own stays for ever |
| `ReactorPages`: LoadedStayMounted | module comment (:98): "every *loaded* page's element stays mounted" | closing or evicting a page that is not the last leaves a later one without its control, or without any |
| `ReactorPages`: OnlyTheFrontIsSeen | module comment (:98-103): "real show/hide, not mount/unmount" | a control kept for another page than its own is no page's `xaml_handle` and is not collapsed any more |

Others were met while modelling and are in the models as the code has them:

- `browser-macos-appkit`: `unload_engines` does not set `last_url`, so an evicted
  page comes back at HOME_URL and is saved without a URL (RestoreIsFaithful says
  which), although `Page.last_url` is documented as what an unloaded page is
  restored from (`browser-core/src/lib.rs:138-141`). A process given a link always
  shows the chooser, and the one that starts gets the link again (:3748-3765). Up
  from a selection left more than one row beyond a list that has shrunk panics
  (`UpFromBeyond`). The star is not redrawn by a navigation.
- `browser-linux-gtk3`: while the switcher is being built for the first time the
  passwords panel can open under it (`AloneNoConflict` is therefore about
  handlers that run alone); the star is stale after a navigation and after the
  switcher's page removes a bookmark, against the comment at :1266.
- `browser-core/src/profile.rs`: a profile named "--private" or the like is
  started as `--profile NAME`, and that window is private (:210, :305).
- The stores: `save` rewrites in place, so a crash leaves a torn file, which loads
  as the defaults; two windows of a profile overwrite each other, and tear the file
  if they save at the same moment. A navigation is not saved. Lists that the
  profile page sends come from what it last read (`profile/app.js:267`).
- `browser-macos-appkit`: a restored or popped-up page may be saved without a URL,
  when the save comes before its webview reports one (:1800, `macos.rs:177`).

### Fairness

`gtk_liveness` assumes that a build ends (the queue of pending events is drained
and `WryEngine::new` returns) and that `gtk::main` returns once told to and its
handlers are done; nothing is assumed of the user. `rpc` assumes that
the host's threads are scheduled, and that the child reads its stdin for as long
as it runs; without the second a call can block for ever. `reactor_pages` assumes
that the message loop runs a render that is due, and that the control of a page
gets its `on_ready` and its tick; the user and a page's requests are free.

### Mutants

Definitions marked "Mutant" are plausible bugs (a dropped guard, a missing save,
a swapped order), one for each property; replacing the real definition by the
mutant makes the property fail. They are used nowhere else.

## 5. Proofs

`tlapm` checks every theorem; `PROJECT.json` lists them. They hold for every
value of the constants allowed by the modules' assumptions: any number of pages
and any limits (`PageManager`), any number of threads, calls, stray messages and
any pipe size (`RpcChildProcess`), any number of processes, profiles and
passphrases (`ProfileUnlock`), any URLs, limits and number of pages of a process
(`GtkPages`, `AppKitPages`, `ReactorPages`), any number of pages, URLs, bookmarks,
bindings and logins of what is shown around them (`GtkChrome`,
`ReactorOverlays`, `AppKitOverlays`), any windows, engines, actions, chords and URLs
(`ProfileStores`), any passwords, logins and calls under way (`PasswordsPage`).
The "bounds" of the TLC runs are constants there, so a theorem covers all of
them.

**PageManagerOps_proofs** has what each method does to a `Consistent` record:
fields of their types with `loaded` and `engine` naming pages of the Vec, no id
twice in the Vec, no two ages equal. Each method keeps that, and
EnforcedKeepsActive, EnforcedOldestFirst and EnforcedWithin say what
`enforce_loaded_limit` removes: never the foreground page, never a page while an
older candidate stays, and as many as it takes to be within the limit or left
with the foreground page alone. VecRemoveAt and VecRemoveElement say what
`Vec::remove` does to a Vec without duplicates.

The same module lifts this to behaviours of `PageManager`, which it instantiates
(`Manager`) and does not extend, since the front ends' proofs extend the module
beside a state of their own; what `PageManager` assumes of its limits is a
hypothesis of these theorems. `CallerInv` is TypeOK, PagesUnique and AgesDistinct
together, none of which is inductive alone: `remove` takes a page out by
position, which is right only when ids are unique; ids stay unique because those
allocated and not inserted yet are in nobody's page; and which page is the oldest
is only determined when ages differ. From it:
TypeCorrect, NoSharedIds, AgesAreTotal, ForegroundStaysLoaded, LimitIsRestored,
OverfillIsReactivation, EvictsLeastRecentlyUsed. CyclingComesBack rests on
lemmas about the ring of positions (Neighbours, ThereAndBack): unique ids make
`position` find the page that was meant. FilterOK says what a filter keeps of a
Vec, and in which order: `VecFilter` defines it by the places of the entries,
because nothing can be proved of the recursive `SelectSeq`, and
`FilterAssumption` in `MCReactorPages` has TLC compare the two.

Its last section is about `SwitcherRows`, for the two front ends that build rows
with it: `RowsOf` are the rows that may be there; BuiltRows says that
`build_switcher_rows` makes no others, ActivatedRow that activating a row of
theirs gives a page or a URL of what the rows were built from. `Tiled` is what
makes a switcher one that can be clicked: no heading without a row below it
(`Headed`), each URL in one row (`ListedOnce`), the add tile at one known place.
BuiltTiled proves it of the whole list from its four groups, by TiledConcat. A row
keeps its page, heading or URL in one field, so `Apart` asks that URLs are
neither page ids nor headings.

**RpcChildProcess_proofs** uses an inductive invariant in six parts. None of the
run's invariants is inductive: that a waiting call is woken needs that a call
past its insert is in the table or replied to (`WakeOK`), which needs that no two
calls share an id and an id replied to has left the table (`TableOK`), which
needs that a response in the pipe names a call that was made (`PipesOK`), and the
outcomes need to know why a reply was sent (`OutcomeOK`). `closed` being set
before the drain is the first conjunct of `WakeOK`; the step that would fail
without it is CheckClosed. TLC checked `IInv` on the instance of the run `rpc`
before it was proved. From it: RpcTypeCorrect, NoLostWakeup, TableIsBounded,
OutcomesAreTrue, OneReply, and ImplementsRpcCalls, which maps Withdraw, Reclaim
of an entry and Receive to the abstract return and shows that `Broken` is stable.

**ProfileUnlock_proofs.** `MarkersTell` is not inductive: that a process about to
write a marker has encrypted the database is what `KnowsOK` says of each
process, beside where its remembered passphrase comes from. `IInv` is TypeOK,
MarkersTell and KnowsOK. Every step only creates databases and changes none
(`Fills`, `Makes`), so what the other processes know stays true: StepMakes has
one step per action, MakesKeepsIInv does the rest. From it, under any crashes and
failures: UnlockTypeCorrect, MarkersAreTrue, SessionPassphrases. `OneInv` adds
that a process with a window on a named profile whose history is encrypted knows
its passphrase and does not prompt (`SharesOK`), and that a vault comes after
the history (`ShareDatabases`). Both are claimed
until a file operation fails, whatever has crashed: OnePassphraseEach,
NeverAskedTwice; `OnePassphrase`, without the condition, is refuted.
EncryptedAreMarked needs a third invariant (`MarkedInv`), until anything crashes
or fails: an encrypted database has its marker or a process that is at the stage
of writing it, and a process that unlocks does so because it found the marker, so
it never has one to write. StepMarks says which of these each step may change.
StartedOpensItsProfile is about `CommandLine`: the line made for a name that is
not spelled like a flag is read back as that profile, whatever the name.

**GtkPages_proofs** is about handlers that run in the middle of others.
`WindowOK` relates the core, the containers, the URLs and the suspended handler:
the page it is opening has an id and a container and is not in the Vec; the one
it is rebuilding has no engine and is, if it is still there, at the URL the engine
is built for; ids are left for the pages a restore has to register; and until an
engine has failed, containers and engines are exactly those of the pages
(`Whole`). `FileFollows` is about the session file: outside a restore it holds
every open page; it matches the Vec whenever the suspended handler is one that
may end without a save (`Settled`); in a restore, what is still to be registered
are its last entries (`LastOf`). None of the run's invariants is inductive. That
the file holds the open pages rests on the Vec growing only where a save
follows; that the URLs survive rests on what a suspended rebuild remembers,
whatever handlers close or evict its page meanwhile. A popup's page may have no
URL at all, in the file as in the window, and nothing is claimed of it but that
both agree. There is one lemma per
handler, each built from lemmas about the parts that handlers share (EvictedOK,
ClosedOK, ShownOK, StartedOK, GrownOK, RegisteredOK, ReloadedOK, SavedOK), so that
a handler that runs nested needs no argument of its own. From it:
GtkTypesCorrect, OpenPagesAreSaved, GtkWindowFollows, and the action properties
GtkUnloadingKeepsUrl and GtkRestoreKeepsTabs. Assumed of the constants: a process
may allocate at least one id.

The second part of the module is about the chrome, the instance `Chrome` of
`GtkChrome`. Its run's invariants are about moments at which no handler is
suspended, and say nothing of what a suspended one will do when it goes on;
`ChromeInv` does. `ChromeTyped` and `ChromeContent` are the types, the second of what
the switcher's page has: its script runs only in an engine that is there or being
built. `ChromeNumbered`: the page being opened has an id of its own,
is not listed and not in front. `ChromeInput`: pages take no input only under an
overlay or while the switcher's engine is being built, whose end shows the
switcher or gives the input back. `ChromeGrid`: a switcher that is shown, once its
script has run, lists the pages or has asked for them, for the text of one of its
boxes, but while a page is opened; that early refreshes are lost does no harm
because the script's own load comes after them. `ChromeLabel`: the chip has the
title of the page in front at all times, nested or not. ChromeStep has one lemma per handler
and one per way a suspended handler ends (ChromeFinishPageStep,
ChromeFinishSwitcherStep), and says of every step what the two action properties
ask (`AloneStep`, `StarStep`). From it: ChromeTypesCorrect, ChromeTakesInput
(NeverLeftInsensitive), ChromeTitlesAreLive, ChromeAloneNoConflict,
ChromeStarTells (StarOutdatedByMoves).

**AppKitPages_proofs.** `IInv` is the consistent core (`CoreOK`), the views
(`ViewsOK`: only pages have one, engines are in views and loaded, the page in
front is visible if it has an engine), the file's type, a restore that has ids
left (`PlanOK`), no page before the window (`DownOK`), and `Saved`: but during a
restore the file is the Vec and the page in front. From it: AppKitTypesCorrect,
AppKitViewsFollow and AppKitImplementsTabs. `Saved` is what makes the last one
work: the handlers change tabs and file in one step of `Tabs`, a handler that
changes neither is a stutter, and a process that ends leaves as its file what it
had as tabs.

AppKitRestores (RestoreIsFaithful) needs more: what a restore has done so far
(`RestoreSoFar`). While no engine has failed, the open pages and what is left of
the plan make up the session, the ids count up from 0 and are as old as their
order says, and the pages that still have an engine are the last ones, as many as
the limit allows (`Kept`), each at the URL planned for it or with none reported
yet. NextEvicted is the step:
the page that joins `Kept` pushes out its first page, when it is full, and no
other, which takes the cardinalities of intervals that `Evicted` counts with.

The second part of the module is about the panels around those pages, the instance
`Panels` of `AppKitOverlays`. `PanelsInv` has a part per panel. `PanelViewOK`: at
most one panel is in view, that of `overlay`. `PanelRowsOK`: the rows of an open
switcher are of open pages and are `Tiled`; a handler either keeps the pages its
rows are of (PanelRowsKept) or rebuilds or hides them (PanelRowsRebuilt,
PanelRowsHidden). `PanelMarksOK`: the star is that of the URL it was last drawn for,
for the bookmarks of now. `PanelKeysOK`: the menu's equivalents are those that
`KeyEquivalent`, about which nothing is assumed but that it is a function, gives for
the bindings. `PanelVaultOK` is the strengthening that VaultChangesAreShown needs: row
ids of logins are given once (AUTOINCREMENT), so a row or a form that names an id
names the login it was made from or none that is left, though other windows
change the vault while the panel shows its copy. From it: PanelsTypesCorrect,
PanelsToolbarTells, PanelsVaultChanges, and, where URLs are `Apart` from page ids and
headings, PanelsTilesAreLive and PanelsTilesAreNew: that the rows are built from the
pages, history and bookmarks there are at that moment, and leave out those that an
open page shows. An instance does not hand on the assumptions of its
module, so these theorems have them as a hypothesis (`PanelsAssumed`; likewise
below): a process may allocate at least one id, and logins are bounded by a natural number.

**ReactorPages_proofs** has the parts of `AppKitPages_proofs` and one for the
window (`WindowOK`). ControlsFollowPages is not inductive: it speaks of the state
after a render, and what a render finds there is left by handlers, ticks and
control events since the last one. `Fits` holds at all times, whatever page a
control has been kept for: a control or a tick with a hold on an engine is of a
page that has one, an engine that is gone has no WebView, and a control that has
settled is at its page's `last_url`. `CaughtUp` is what a render establishes, and
every handler that breaks it makes a render due. `Anchored` says what closures of
the last render can still name: all pages they know are open, but for the one that
was active then; so a second close_page closes nothing else, switch_to cannot take
the last page away, and there is always a page. A page is loaded exactly when it
has an engine here (`CoreOK`), which no other front end keeps. From it:
ReactorTypesCorrect, ReactorControlsFollow, ReactorNeverEmpty;
ReactorImplementsTabs, by `Saved` as for AppKit, though the file is also written by a
deferred tick; and ReactorKeepsUrls, whose first half rests on `Fits` (an eviction
copies nothing: the URL was put into `last_url` when the navigation completed) and
whose second on `RestoreSoFar`. Assumed of the constants: a process may allocate at
least one id.

The second part of the module is about the overlays, the instance `Overlays` of
`ReactorOverlays`. RenderIsDue is nearly inductive; what it lacks is the type of
what the last render captured (`Captured`), since a click acts on those pages
and texts and not on the live ones: that a row activated from an old render names
a page that was given an id, though perhaps one closed since, is ActivatedRow.
Each lemma is about the handlers of one kind (OwnStateGood, SearchGood,
SelectTileGood, StoresGood, DispatchGood, NavigatedGood, NewWindowGood,
RenderGood). From it: OverlaysTypesCorrect, OverlaysRenderIsDue, and
OverlaysCloseTheShown (OnlyTheShownPageCloses).

**ProfileStores_proofs.** LastSaveIsKept (LastSaveStands) is not inductive: of a
window in the middle of a save nothing is claimed, and when its save ends it has to
be known that its copy is still the one the save began with (`CopiesSaved`: only the
open pages change between handlers, and no handler runs during a save), that a
`kept` window's file is its own (`Stands`), and that private windows never save nor
count as kept (`PrivateQuiet`). An open window's copy changes
only in a handler, so StaleOnlyLoses is about what a page's request sends: values
made from what the page shows (`PagesShow`), which is the window's copy unless
that has changed since. The files' lists are
those without repetition; the lemmas ListIs, AppendList and WithoutList
say what `push` and `retain` do to them. `Without` takes an element out by its
place so that this can be proved; `RetainAssumption` in `MCProfileStores` has TLC
compare it with a filter. Assumed: names and URLs are finitely many.

**PasswordsPage_proofs.** That no password strays is not inductive: every
request, answer, cache entry and form has to be of a row the stores have told of
(`Known`) with a password given to that row, at every stage of a call
(`CallsOK`, `PageOK`, `StoresOK`). Each call that adds a login needs an id that no
deleted one has had (`IdsLeft`), which is what SQLite's AUTOINCREMENT gives; the
count of those calls bounds the ids. From it: PasswordsTypesCorrect,
PasswordsAreTheirs, DeletedNeverReturns.

What is proved is not run again: TLC checked TypeOK, PagesUnique, AgesDistinct,
CyclingRoundTrip, ForegroundNeverEvicted, LimitRestored and
OnlyReactivationOverfills of `PageManager`, TypeOK, NoSpuriousOutcome,
NoEntryLeaks and OneReplyPerCall of `RpcChildProcess`, TypeOK, MarkersTell,
SessionPassphraseOpens and NoSecondPrompt of `ProfileUnlock`, and TypeOK of
`AppKitOverlays` and of `ReactorOverlays` on the instances of
the runs before the proofs were made; the runs keep those whose failing TLC shows
best.

Only model-checked: all liveness (`RefinesRpcCalls` beyond its safety part,
`QuitEnds`, `ServeEndsAfterShutdown`, `PopupsAreHandedOver`), which is out of the
prover's reach, and `EvictionMatchesLoop`, because the loop is a recursive
definition.

## 6. Not modelled, and why

- Layout, styling, favicons, downloads, audio flags, the text of titles: they
  read the modelled state and change none of it.
- The inside of the web engines: reached only through the calls modelled as
  external operators (a build that may fail and that runs the main loop, a URL, a
  control that becomes ready).
- Ciphers and SQLite are the statement that a database opens with one passphrase
  and that AUTOINCREMENT gives no id twice; ranking in history searches and the
  similarity search only order rows.
- Bitwarden's server, embedding, asset packing, the JavaScript runtime of the
  extension host: external programs, numeric code, build tools.
- Encoding: headers and attachments of the framing, the HTTP envelope, JSON,
  chords as text. The models start from whole messages.
- App-id migration: the list of former ids is empty, nothing runs.
- The Windows test command server and the web-standards drivers: test support.
- Changing or removing a passphrase, which the code does not offer.
