---------------------------- MODULE PageManager ----------------------------
(***************************************************************************)
(* browser_core::PageManager driven by an arbitrary caller: any sequence   *)
(* of calls the public methods allow.  An id comes from allocate_id and is *)
(* inserted at most once, in any order (a caller builds the native engine  *)
(* in between, which may take a while or fail); every other call may name  *)
(* any id ever handed out, of a page long gone too.                        *)
(***************************************************************************)
EXTENDS PageManagerOps

CONSTANTS
  Limits,      (* the limits the caller ever sets *)
  MaxPages     (* bound: ids allocated in a behaviour *)

ASSUME LimitsAssumption == Limits # {} /\ Limits \subseteq Nat \cup {Unlimited}
ASSUME MaxPagesAssumption == MaxPages \in Nat

VARIABLES
  core,        (* the PageManager *)
  held         (* ids allocated and not inserted yet *)

vars == <<core, held>>

Issued == 0 .. core.next_id - 1

Init ==
  /\ \E limit \in Limits : core = New(limit)
  /\ held = {}

Allocate ==
  /\ core.next_id < MaxPages
  /\ core' = AllocateId(core)
  /\ held' = held \cup {core.next_id}

InsertPage(id) ==
  /\ id \in held
  /\ core' = Insert(core, id)
  /\ held' = held \ {id}

InsertBackgroundPage(id) ==
  /\ id \in held
  /\ core' = InsertBackground(core, id)
  /\ held' = held \ {id}

InsertUnloadedPage(id) ==
  /\ id \in held
  /\ core' = InsertUnloaded(core, id)
  /\ held' = held \ {id}

RemovePage(id) == core' = Remove(core, id) /\ UNCHANGED held
TakePageEngine(id) == core' = TakeEngine(core, id) /\ UNCHANGED held
InstallPageEngine(id) == core' = InstallEngine(core, id) /\ UNCHANGED held
SetActivePage(id) == core' = SetActive(core, id) /\ UNCHANGED held
SetLimit(limit) == core' = SetMaxLoadedPages(core, limit) /\ UNCHANGED held

Next ==
  \/ Allocate
  \/ \E id \in held : InsertPage(id)
  \/ \E id \in held : InsertBackgroundPage(id)
  \/ \E id \in held : InsertUnloadedPage(id)
  \/ \E id \in Issued : RemovePage(id)
  \/ \E id \in Issued : TakePageEngine(id)
  \/ \E id \in Issued : InstallPageEngine(id)
  \/ \E id \in Issued : SetActivePage(id)
  \/ \E limit \in Limits : SetLimit(limit)

Spec == Init /\ [][Next]_vars

-----------------------------------------------------------------------------
(* Every field has its type, and only pages of the Vec are loaded or hold  *)
(* an engine.                                                              *)
TypeOK ==
  /\ CoreTypeOK(core)
  /\ core.limit \in Limits
  /\ held \subseteq Nat

(* A page is never listed twice, an id in a caller's hands or in the Vec   *)
(* has been issued, and never both at once: together, no id ever names two *)
(* pages (allocate_id, insert*, remove).                                   *)
PagesUnique ==
  /\ IdsUnique(core)
  /\ held \subseteq Issued
  /\ Live(core) \cap held = {}

(* No two pages are equally old, whatever was inserted, removed or         *)
(* switched to in between, so "the oldest" is one page and an eviction is  *)
(* never a toss-up (insert*, remove, set_active).                          *)
AgesDistinct == AgesTotal(core)

(* Ctrl+Tab and then Ctrl+Shift+Tab comes back to the page it left, from   *)
(* any page of the Vec, at both ends of it too (next_page_id,              *)
(* previous_page_id, set_active).                                          *)
CyclingRoundTrip ==
  core.active \in Live(core) =>
    /\ PreviousPageId(SetActive(core, NextPageId(core))) = core.active
    /\ NextPageId(SetActive(core, PreviousPageId(core))) = core.active

-----------------------------------------------------------------------------
(* A call never unloads the page the user is looking at, however old it is *)
(* and however small the limit (enforce_loaded_limit).                     *)
ForegroundNeverEvicted ==
  [][core'.active \in core.loaded \cap Live(core') => core'.active \in core'.loaded]_vars

(* When a page with an engine joins or the limit changes, the loaded pages *)
(* are back within the limit when the call returns, unless the foreground  *)
(* page alone is more than the limit allows (insert, insert_background,    *)
(* set_max_loaded_pages).                                                  *)
LimitRestored ==
  [][\/ core'.limit # core.limit
     \/ core'.engine \ Live(core) # {}
     => WithinLimit(core')]_vars

(* The only way over the limit is going back to an unloaded page, and it   *)
(* goes over by that page alone (set_active leaves the limit to the next   *)
(* new page).                                                              *)
OnlyReactivationOverfills ==
  [][WithinLimit(core) /\ ~WithinLimit(core') =>
       /\ core'.active \notin core.loaded
       /\ core'.loaded = core.loaded \cup {core'.active}
       /\ core'.limit = core.limit]_vars

(* Pages are unloaded in the order they were last used: none goes while a  *)
(* page in the background that was used longer ago stays loaded            *)
(* (enforce_loaded_limit).                                                 *)
LeastRecentlyUsedFirst ==
  [][\A p \in (core.loaded \ core'.loaded) \cap Live(core') :
       \A q \in core'.loaded \ {core'.active} :
          core'.accessed[p] < core'.accessed[q]]_vars

-----------------------------------------------------------------------------
(* A sentence of the code that TLC refutes when it is added to the        *)
(* run (README, "What the code does not keep").                            *)

(* "The new page's fresh last_accessed still protects it from              *)
(* enforce_loaded_limit evicting it immediately, the same as any other     *)
(* just-created page" (the doc comment of insert_background).              *)
FreshPageProtected ==
  [][\A id \in core'.engine \ Live(core) : id \in core'.loaded]_vars
=============================================================================
