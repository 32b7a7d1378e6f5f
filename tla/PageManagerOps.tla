--------------------------- MODULE PageManagerOps ---------------------------
(***************************************************************************)
(* browser_core::PageManager<E> as a value: one record holding the fields  *)
(* of the struct, and one operator per method, from a record to a record.  *)
(* The front ends keep such a record in their RefCell and call several     *)
(* methods in one handler, so the methods are functions here and the state *)
(* machines are built from them.                                           *)
(*                                                                         *)
(* A page's id is the number allocate_id hands out.  The Vec of pages is   *)
(* the sequence of their ids; `loaded' and `engine' are the sets of ids    *)
(* whose Page has loaded = true and engine = Some.  Only the order of the  *)
(* last_accessed Instants is ever read (min_by_key), so `accessed' keeps   *)
(* them as ranks, 1 for the page not used for longest; the clock is taken  *)
(* to give two calls of Instant::now() different values, as the tests of   *)
(* PageManager ensure by sleeping.                                         *)
(***************************************************************************)
EXTENDS Naturals, FiniteSets, Sequences

CONSTANTS
  NoPage,      (* active_id before any page was made active: the empty string *)
  Unlimited    (* max_loaded_pages = None                                     *)

ASSUME NoPageAssumption    == NoPage \notin Nat
ASSUME UnlimitedAssumption == Unlimited \notin Nat

-----------------------------------------------------------------------------
(* The elements of a sequence, and Vec::remove.                            *)
Elements(s) == {s[i] : i \in 1..Len(s)}
VecRemove(s, k) == SubSeq(s, 1, k - 1) \o SubSeq(s, k + 1, Len(s))

Live(c) == Elements(c.pages)

(* Iterator::position(|p| p.id == id): meaningful only for a live id.      *)
Position(c, id) == CHOOSE i \in 1..Len(c.pages) : c.pages[i] = id

Fields == {"pages", "active", "next_id", "limit", "loaded", "engine", "accessed"}

New(limit) ==
  [pages |-> <<>>, active |-> NoPage, next_id |-> 0, limit |-> limit,
   loaded |-> {}, engine |-> {}, accessed |-> [q \in {} |-> 0]]

AllocateId(c) == [c EXCEPT !.next_id = @ + 1]

-----------------------------------------------------------------------------
(* last_accessed = Instant::now() on a page that is already in the Vec.    *)
Touched(c, id) ==
  [q \in Live(c) |-> CASE q = id -> Len(c.pages)
                       [] q # id /\ c.accessed[q] > c.accessed[id] -> c.accessed[q] - 1
                       [] OTHER -> c.accessed[q]]

(* The ranks once a page has left the Vec.                                 *)
Forgotten(c, id) ==
  [q \in Live(c) \ {id} |->
     IF c.accessed[q] > c.accessed[id] THEN c.accessed[q] - 1 ELSE c.accessed[q]]

(* pages.push(Page { id, last_accessed: Instant::now(), .. })              *)
Pushed(c, id) ==
  [c EXCEPT !.pages = Append(@, id),
            !.accessed = [q \in Live(c) \cup {id} |->
                            IF q = id THEN Len(c.pages) + 1 ELSE c.accessed[q]]]

-----------------------------------------------------------------------------
(* enforce_loaded_limit unloads the oldest loaded page that is not active  *)
(* until the count is within the limit or only the active page is left.    *)
(* So a page goes exactly when, after all older candidates have gone, the  *)
(* count is still above the limit.                                         *)
(* Mutant: tabs go from the first to the last, whenever they were used.    *)
OlderByPosition(c, id) ==
  {q \in c.loaded \ {c.active} : Position(c, q) < Position(c, id)}
Candidates(c) == c.loaded \ {c.active}
Older(c, id) == {q \in Candidates(c) : c.accessed[q] < c.accessed[id]}
(* Mutant: stops below the limit instead of at it.                         *)
EvictedBelow(c) ==
  {id \in Candidates(c) :
     /\ c.limit # Unlimited
     /\ Cardinality(c.loaded) - Cardinality(Older(c, id)) >= c.limit}
Evicted(c) ==
  {id \in Candidates(c) :
     /\ c.limit # Unlimited
     /\ Cardinality(c.loaded) - Cardinality(Older(c, id)) > c.limit}

Enforced(c) == [c EXCEPT !.loaded = @ \ Evicted(c)]

-----------------------------------------------------------------------------
(* insert and insert_background before their call of enforce_loaded_limit: *)
(* what they return to the caller is Evicted of these.                     *)
Inserted(c, id) ==
  [Pushed(c, id) EXCEPT !.loaded = @ \cup {id}, !.engine = @ \cup {id}, !.active = id]
InsertedBackground(c, id) ==
  [Pushed(c, id) EXCEPT !.loaded = @ \cup {id}, !.engine = @ \cup {id}]

Insert(c, id) == Enforced(Inserted(c, id))
InsertBackground(c, id) == Enforced(InsertedBackground(c, id))
InsertUnloaded(c, id) == Pushed(c, id)

Relimited(c, limit) == [c EXCEPT !.limit = limit]
SetMaxLoadedPages(c, limit) == Enforced(Relimited(c, limit))

(* remove: the Page goes with all its fields; active_id stays as it is.    *)
Remove(c, id) ==
  IF id \in Live(c)
  THEN [c EXCEPT !.pages = VecRemove(@, Position(c, id)),
                 !.loaded = @ \ {id}, !.engine = @ \ {id},
                 !.accessed = Forgotten(c, id)]
  ELSE c

TakeEngine(c, id) == [c EXCEPT !.engine = @ \ {id}]
(* Mutant: the engine is kept for a page that is gone.                     *)
InstallEngineAnyway(c, id) == [c EXCEPT !.engine = @ \cup {id}]
InstallEngine(c, id) == IF id \in Live(c) THEN [c EXCEPT !.engine = @ \cup {id}] ELSE c

(* set_active: active_id is assigned whether or not the page exists.       *)
SetActive(c, id) ==
  IF id \in Live(c)
  THEN [c EXCEPT !.active = id, !.loaded = @ \cup {id}, !.accessed = Touched(c, id)]
  ELSE [c EXCEPT !.active = id]

-----------------------------------------------------------------------------
(* next_page_id and previous_page_id; NoPage stands for their None.        *)
NextPageId(c) ==
  IF c.active \in Live(c)
  THEN c.pages[(Position(c, c.active) % Len(c.pages)) + 1]
  ELSE NoPage
PreviousPageId(c) ==
  IF c.active \in Live(c)
  THEN c.pages[((Position(c, c.active) + Len(c.pages) - 2) % Len(c.pages)) + 1]
  ELSE NoPage

(* What the methods keep true of the fields: each has its type, only pages *)
(* of the Vec are loaded or hold an engine, a page is in the Vec once and  *)
(* under an id that was handed out, and no two pages are equally old.      *)
CoreTypeOK(c) ==
  /\ DOMAIN c = Fields
  /\ c.pages \in Seq(Nat)
  /\ c.active \in Nat \cup {NoPage}
  /\ c.next_id \in Nat
  /\ c.limit \in Nat \cup {Unlimited}
  /\ c.loaded \subseteq Live(c)
  /\ c.engine \subseteq Live(c)
  /\ c.accessed \in [Live(c) -> 1..Len(c.pages)]

IdsUnique(c) ==
  /\ \A i, j \in 1..Len(c.pages) : c.pages[i] = c.pages[j] => i = j
  /\ Live(c) \subseteq 0 .. c.next_id - 1

AgesTotal(c) == \A p, q \in Live(c) : c.accessed[p] = c.accessed[q] => p = q

(* The number of pages a limit leaves loaded: the foreground page always.  *)
Allowance(c) == IF c.limit = 0 THEN 1 ELSE c.limit
WithinLimit(c) == c.limit # Unlimited => Cardinality(c.loaded) <= Allowance(c)
=============================================================================
