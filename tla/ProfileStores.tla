---------------------------- MODULE ProfileStores ---------------------------
(***************************************************************************)
(* The files of a profile (browser-core: settings, keybindings, bookmarks, *)
(* session) and the windows, each a process of its own, that keep a copy   *)
(* of them in memory.  A window reads a file once, when it starts; every   *)
(* handler that changes the copy then writes all of it over the file       *)
(* (std::fs::write: open and truncate, then write).  The open pages are    *)
(* the exception: they also navigate on their own, and that saves nothing. *)
(* Nothing keeps two windows of one profile apart, and a private window    *)
(* keeps no file.                                                          *)
(*                                                                         *)
(* A page of the browser (Settings, the switcher) shows what it last read  *)
(* from its window, and asks for changes made from that.  A request is     *)
(* handled as it is made here: what counts is that the page may not have   *)
(* read the outcome of the one before.                                     *)
(*                                                                         *)
(* The four stores are separate files handled alike, and the fields of the *)
(* settings travel together but do not meet: `kind' is the store, or the   *)
(* part of the settings, that a behaviour follows.                         *)
(***************************************************************************)
EXTENDS SequencesExt

CONSTANTS
  Windows,      (* processes of the profile *)
  Private,      (* those whose profile is ephemeral *)
  Names,        (* names of search engines *)
  Offered,      (* the engines of Settings::default, in order *)
  Actions,      (* actions that keys are bound to *)
  Chords,       (* key chords *)
  Preset,       (* the chord each action has by default *)
  Urls,         (* URLs to bookmark or to have open *)
  Nothing,      (* no file, or a window that is not open *)
  Torn,         (* a file that cannot be parsed *)
  MaxOpen,      (* bound: windows open at a time *)
  MaxPages      (* bound: pages open in a window *)

ASSUME StoresAssumption ==
         /\ Private \subseteq Windows
         /\ Offered \in Seq(Names) /\ Offered # <<>> /\ IsInjective(Offered)
         /\ Preset \in [Actions -> Chords]
         /\ MaxOpen \in Nat /\ MaxPages \in Nat
ASSUME FiniteAssumption == IsFiniteSet(Names) /\ IsFiniteSet(Urls)

VARIABLES
  kind,      (* the store followed *)
  file,      (* what its file holds *)
  mem,       (* of each window: its copy, while it is open *)
  shown,     (* of each window: what its page last read of the copy *)
  phase,     (* of each window: what its thread is doing *)
  saved,     (* for the properties: of each window, the copy it last read or saved ... *)
  kept       (* ... and the windows since whose last read or save no other save began *)

vars == <<kind, file, mem, shown, phase, saved, kept>>

Kinds == {"engines", "theme", "server", "keys", "marks", "session"}
Themes == {"Light", "Dark"}
Servers == {"none", "local"}
Lists(S) == {q \in UNION {[1..n -> S] : n \in 0..Cardinality(S)} : IsInjective(q)}
Sessions == UNION {[1..n -> Urls] : n \in 0..MaxPages}

-----------------------------------------------------------------------------
(* What a store holds.  Templates of engines, titles and which page is     *)
(* active are left out, and so are the fields of the settings that are     *)
(* overwritten one by one as the theme is.  Two pages may have one URL.    *)
ValuesOf(k) ==
  CASE k = "engines" -> [engines : Lists(Names), default : Names]
    [] k = "theme"   -> Themes
    [] k = "server"  -> Servers
    [] k = "keys"    -> [Actions -> SUBSET Chords]
    [] k = "marks"   -> Lists(Urls)
    [] k = "session" -> Sessions
Values == ValuesOf(kind)

ASSUME NoValueAssumption ==
         Nothing # Torn /\ \A k \in Kinds : Nothing \notin ValuesOf(k) /\ Torn \notin ValuesOf(k)

(* The Default of each type.                                               *)
DefaultEngines == [engines |-> Offered, default |-> Offered[1]]
DefaultKeys == [a \in Actions |-> {Preset[a]}]
Default ==
  CASE kind = "engines" -> DefaultEngines
    [] kind = "theme"   -> "Dark"
    [] kind = "server"  -> "none"
    [] kind = "keys"    -> DefaultKeys
    [] kind = "marks"   -> <<>>
    [] kind = "session" -> <<>>

(* Mutant: an engine is listed again under the same name.                  *)
AddSearchEngineAgain(s, n) == [s EXCEPT !.engines = Append(@, n)]

(* Settings::add_search_engine: a name that is there keeps its place.      *)
AddSearchEngine(s, n) ==
  IF n \in ToSet(s.engines) THEN s ELSE [s EXCEPT !.engines = Append(@, n)]

(* Vec::retain of all but x, which is in a list once, if at all.           *)
Without(q, x) ==
  IF x \in ToSet(q) THEN RemoveAt(q, CHOOSE i \in 1..Len(q) : q[i] = x) ELSE q

(* Settings::remove_search_engine: not the last one; the first of the rest *)
(* takes over from the default.                                            *)
RemoveSearchEngine(s, n) ==
  LET rest == Without(s.engines, n)
  IN IF Len(s.engines) =< 1 THEN s
     ELSE [s EXCEPT !.engines = rest,
                    !.default = IF n \in ToSet(s.engines) /\ @ = n THEN rest[1] ELSE @]

(* Keybindings::set_bindings: all chords of an action at once.             *)
SetBindings(k, a, chords) == [k EXCEPT ![a] = chords]

(* Bookmarks::add, remove and toggle.                                      *)
IsBookmarked(m, u) == u \in ToSet(m)
AddBookmark(m, u) == IF IsBookmarked(m, u) THEN m ELSE Append(m, u)
RemoveBookmark(m, u) == Without(m, u)
Toggle(m, u) == IF IsBookmarked(m, u) THEN RemoveBookmark(m, u) ELSE AddBookmark(m, u)

-----------------------------------------------------------------------------
Open(w) == mem[w] # Nothing
Idle(w) == Open(w) /\ phase[w] = "idle"

(* load: the defaults, unless there is a file and it parses.               *)
Loaded(w) == IF w \in Private \/ file \in {Nothing, Torn} THEN Default ELSE file

(* Mutant: the copy is saved when the window closes, if at all.            *)
SaveLater(w) == phase' = phase

(* save, up to its return for an ephemeral profile.                        *)
Save(w) == phase' = IF w \in Private THEN phase ELSE [phase EXCEPT ![w] = "opening"]

(* A handler changes the window's copy and saves it.                       *)
Change(w, value) ==
  /\ mem' = [mem EXCEPT ![w] = value]
  /\ saved' = [saved EXCEPT ![w] = value]
  /\ Save(w)
  /\ UNCHANGED <<kind, file, shown, kept>>

(* The page's switch turns the theme from the one it shows, ...            *)
NextTheme(w) == IF shown[w] = "Dark" THEN "Light" ELSE "Dark"

(* ... and profile.settings.update_general sets it, as other fields.       *)
UpdateGeneral(w) ==
  /\ kind = "theme" /\ Idle(w)
  /\ Change(w, NextTheme(w))

(* The page offers to connect where it shows no server; none is contacted  *)
(* before the field is set.                                                *)
OffersToConnect(w) == shown[w] = "none"

ConnectBitwarden(w) ==
  /\ kind = "server" /\ Idle(w) /\ OffersToConnect(w)
  /\ Change(w, "local")

DisconnectBitwarden(w) ==
  /\ kind = "server" /\ Idle(w) /\ ~OffersToConnect(w)
  /\ Change(w, "none")

SearchEnginesAdd(w, n) ==
  /\ kind = "engines" /\ Idle(w)
  /\ Change(w, AddSearchEngine(mem[w], n))

(* The page offers the engines it shows to be removed or made the default; *)
(* set_default takes any name.                                             *)
Offers(w, n) == n \in ToSet(shown[w].engines)

SearchEnginesRemove(w, n) ==
  /\ kind = "engines" /\ Idle(w) /\ Offers(w, n)
  /\ Change(w, RemoveSearchEngine(mem[w], n))

SearchEnginesSetDefault(w, n) ==
  /\ kind = "engines" /\ Idle(w) /\ Offers(w, n)
  /\ Change(w, [mem[w] EXCEPT !.default = n])

(* Mutant: the page sends the new chord alone.                             *)
AddChordOnly(w, a, c) ==
  /\ kind = "keys" /\ Idle(w)
  /\ Change(w, SetBindings(mem[w], a, {c}))

(* The Settings page sends the chords it shows, with one more or one less. *)
AddChord(w, a, c) ==
  /\ kind = "keys" /\ Idle(w)
  /\ Change(w, SetBindings(mem[w], a, shown[w][a] \cup {c}))

RemoveChord(w, a, c) ==
  /\ kind = "keys" /\ Idle(w) /\ c \in shown[w][a]
  /\ Change(w, SetBindings(mem[w], a, shown[w][a] \ {c}))

(* The star of the toolbar.                                                *)
ToggleBookmark(w, u) ==
  /\ kind = "marks" /\ Idle(w)
  /\ Change(w, Toggle(mem[w], u))

(* switcher.remove_bookmark, of a bookmark the switcher shows.             *)
SwitcherRemoveBookmark(w, u) ==
  /\ kind = "marks" /\ Idle(w) /\ u \in ToSet(shown[w])
  /\ Change(w, RemoveBookmark(mem[w], u))

(* A page is opened, closed or shown, or gets a title, as GtkPages has it, *)
(* or the window is to close: all pages are saved as they are then.        *)
SaveSession(w, pages) ==
  /\ kind = "session" /\ Idle(w)
  /\ Change(w, pages)

(* A page goes elsewhere (a link, a redirect, its script): nothing is      *)
(* saved for that.                                                         *)
Navigate(w, i, u) ==
  /\ kind = "session" /\ Idle(w) /\ i \in 1..Len(mem[w])
  /\ mem' = [mem EXCEPT ![w][i] = u]
  /\ UNCHANGED <<kind, file, shown, phase, saved, kept>>

(* A page reads again what its window has: profile.settings.get, ...       *)
Reread(w) ==
  /\ Idle(w)
  /\ shown' = [shown EXCEPT ![w] = mem[w]]
  /\ UNCHANGED <<kind, file, mem, phase, saved, kept>>

ReloadSettings(w) == kind \in {"engines", "theme"} /\ Reread(w)

(* ... profile.password_managers.list, ...                                 *)
ReloadManagers(w) == kind = "server" /\ Reread(w)

(* ... profile.keybindings.list, ...                                       *)
ReloadBindings(w) == kind = "keys" /\ Reread(w)

(* ... switcher.bookmarks.                                                 *)
ReloadBookmarks(w) == kind = "marks" /\ Reread(w)

-----------------------------------------------------------------------------
Past(v) == phase[v] \in {"writing", "mixing"}
Others(w) == {v \in Windows \ {w} : Past(v)}

(* save_to.  open truncates the file.  A save in whose course another      *)
(* window opens the file as well, or did before, mixes with that one's.    *)
Truncate(w) ==
  /\ phase[w] = "opening"
  /\ file' = Torn
  /\ phase' = IF Others(w) = {} THEN [phase EXCEPT ![w] = "writing"]
              ELSE [v \in Windows |-> IF v = w \/ Past(v) THEN "mixing" ELSE phase[v]]
  /\ kept' = {}
  /\ UNCHANGED <<kind, mem, shown, saved>>

(* Then the text is written.                                               *)
Write(w) ==
  /\ phase[w] = "writing"
  /\ file' = mem[w]
  /\ phase' = [phase EXCEPT ![w] = "idle"]
  /\ kept' = {w}
  /\ UNCHANGED <<kind, mem, shown, saved>>

(* Over that of another window, a longer one sticks out; and another may   *)
(* be yet to write over this.                                              *)
WriteAmong(w) ==
  /\ phase[w] = "mixing"
  /\ file' \in {mem[w], Torn}
  /\ phase' = [phase EXCEPT ![w] = "idle"]
  /\ kept' = {}
  /\ UNCHANGED <<kind, mem, shown, saved>>

(* A save ends early, with some of its text in the file once that is open. *)
BreaksOff(w) ==
  /\ file' \in {file} \cup (IF Past(w) THEN {Torn} ELSE {})
  /\ kept' = IF Past(w) THEN {} ELSE kept \ {w}

(* It fails, as the file is opened or as it is written: the caller logs    *)
(* that or answers with an error, and keeps the change in memory.          *)
SaveFails(w) ==
  /\ phase[w] # "idle" /\ BreaksOff(w)
  /\ phase' = [phase EXCEPT ![w] = "idle"]
  /\ UNCHANGED <<kind, mem, shown, saved>>

(* A window starts: Settings::load and the others, and its page reads.     *)
Launch(w) ==
  /\ ~Open(w) /\ Cardinality({v \in Windows : Open(v)}) < MaxOpen
  /\ mem' = [mem EXCEPT ![w] = Loaded(w)]
  /\ shown' = [shown EXCEPT ![w] = Loaded(w)]
  /\ saved' = [saved EXCEPT ![w] = Loaded(w)]
  /\ kept' = IF w \in Private \/ file = Torn THEN kept ELSE kept \cup {w}
  /\ UNCHANGED <<kind, file, phase>>

Gone(w) ==
  /\ mem' = [mem EXCEPT ![w] = Nothing]
  /\ shown' = [shown EXCEPT ![w] = Nothing]
  /\ saved' = [saved EXCEPT ![w] = Nothing]
  /\ phase' = [phase EXCEPT ![w] = "idle"]
  /\ BreaksOff(w)
  /\ UNCHANGED kind

(* quit, when it has saved the session (SaveSession), well or not.         *)
Quit(w) == Idle(w) /\ (kind = "session" => saved[w] = mem[w]) /\ Gone(w)

(* The process is killed or crashes, also in the middle of a save.         *)
Kill(w) == Open(w) /\ Gone(w)

Init ==
  /\ kind \in Kinds
  /\ file = Nothing
  /\ mem = [w \in Windows |-> Nothing]
  /\ shown = [w \in Windows |-> Nothing]
  /\ phase = [w \in Windows |-> "idle"]
  /\ saved = [w \in Windows |-> Nothing]
  /\ kept = {}

Next ==
  \E w \in Windows :
    \/ UpdateGeneral(w) \/ ConnectBitwarden(w) \/ DisconnectBitwarden(w)
    \/ \E n \in Names : SearchEnginesAdd(w, n) \/ SearchEnginesRemove(w, n)
                                               \/ SearchEnginesSetDefault(w, n)
    \/ \E a \in Actions, c \in Chords : AddChord(w, a, c) \/ RemoveChord(w, a, c)
    \/ \E u \in Urls : ToggleBookmark(w, u) \/ SwitcherRemoveBookmark(w, u)
    \/ \E pages \in Sessions : SaveSession(w, pages)
    \/ \E i \in 1..MaxPages, u \in Urls : Navigate(w, i, u)
    \/ ReloadSettings(w) \/ ReloadManagers(w) \/ ReloadBindings(w) \/ ReloadBookmarks(w)
    \/ Truncate(w) \/ Write(w) \/ WriteAmong(w) \/ SaveFails(w)
    \/ Launch(w) \/ Quit(w) \/ Kill(w)

Spec == Init /\ [][Next]_vars

-----------------------------------------------------------------------------
(* What is kept, on disk, in a window and by a page, is a value of its     *)
(* store, in which no engine is listed and no page bookmarked twice.       *)
TypeOK ==
  /\ kind \in Kinds /\ kept \subseteq Windows
  /\ file \in Values \cup {Nothing, Torn}
  /\ mem \in [Windows -> Values \cup {Nothing}]
  /\ shown \in [Windows -> Values \cup {Nothing}]
  /\ saved \in [Windows -> Values \cup {Nothing}]
  /\ phase \in [Windows -> {"idle", "opening", "writing", "mixing"}]
  /\ \A w \in Windows : phase[w] # "idle" => Open(w)

(* A window that has read the file, or saved over it with no other save    *)
(* under way, finds there just what it read or saved, until the next save  *)
(* of any window begins or one of its own fails: whatever other windows    *)
(* were opened, killed or failed to save meanwhile, whatever they had torn *)
(* or mixed before, and whatever private windows do, which leave no trace. *)
(* But for the open pages, which navigate without a save, that is what the *)
(* window has, so nothing the user set is lost with it (save after every   *)
(* change; load; ephemeral in both).                                       *)
LastSaveStands ==
  \A w \in kept : Idle(w) =>
    /\ file = saved[w] \/ (file = Nothing /\ saved[w] = Default)
    /\ kind # "session" => saved[w] = mem[w]

(* What the engines and the bindings can lose to a request.                *)
ListedDefault(s) == s.default \in ToSet(s.engines)
Unbound(k, l) == {b \in Actions \X Chords : b[2] \in k[b[1]] \ l[b[1]]}
LosesNothing(k, m, n) ==
  /\ k = "engines" /\ ListedDefault(m) => ListedDefault(n)
  /\ k = "keys" =>
       \/ Unbound(m, n) = {}
       \/ Cardinality(Unbound(m, n)) = 1 /\ Unbound(n, m) = {}
FreshPageLosesNothing ==
  \A w \in Windows :
    Open(w) /\ Open(w)' /\ shown[w] = mem[w] => LosesNothing(kind, mem[w], mem'[w])

(* Only a page that shows what is no longer so makes an engine the default *)
(* that is not listed (so that there is always one to fall back to, see    *)
(* Settings::remove_search_engine), or unbinds a chord other than the one  *)
(* it was asked to: the requests carry names and lists as the page last    *)
(* read them (set_default, set_bindings, latestBindingsByAction).          *)
OnlyStalePagesLose == [][FreshPageLosesNothing]_vars
=============================================================================
