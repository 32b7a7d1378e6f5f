---------------------------- MODULE PasswordsPage ----------------------------
(***************************************************************************)
(* browser://passwords (browser-chrome-core/assets/passwords/app.js) over  *)
(* the RPC of WebviewRpc, and the handlers of passwords.* in the GTK front *)
(* end (internal_rpc.rs) over the vault (browser-core/src/passwords.rs)    *)
(* and Bitwarden (bitwarden.rs).                                           *)
(*                                                                         *)
(* A login is the row <<source, id>>; of what it holds, its password.  The *)
(* page keeps the rows it was last told, the passwords it has asked for    *)
(* (`revealed') and its form; every await in it ends a step.  Whatever it  *)
(* is doing, the user goes on clicking.  The search box and the source     *)
(* toggles only hide rows and are left out.                                *)
(***************************************************************************)
EXTENDS WebviewRpc, FiniteSets, Sequences

CONSTANTS
  Passwords, Typed,   (* all passwords; the ones the user types *)
  Blank,              (* the empty text, and no password *)
  Saved,              (* the vault at the start: the passwords of its logins *)
  SavedInBitwarden,   (* and Bitwarden's *)
  MaxId               (* bound: ids the vault gives *)

ASSUME PasswordsAssumption == Blank \notin Passwords /\ Typed \subseteq Passwords
ASSUME SavedAssumption ==
         /\ Saved \in Seq(Passwords \cup {Blank}) /\ Len(Saved) =< MaxId
         /\ SavedInBitwarden \in Seq(Passwords \cup {Blank}) /\ Len(SavedInBitwarden) =< MaxId
         /\ MaxId \in Nat

VARIABLES
  unlocked,           (* VaultState::Unlocked *)
  bitwarden,          (* bw serve is set up, reached and unlocked *)
  logins,             (* of each row that exists: its password *)
  nextId,             (* the vault's AUTOINCREMENT counter *)
  locked, entries,    (* the page: locked and allEntries *)
  revealed,           (* the page: `revealed', Blank for a row not there *)
  form,               (* the page: the row edited and currentPassword, or not Open *)
  own, deleted        (* for the properties: the passwords each row was given,
                         the rows that were deleted *)

pageVars  == <<locked, entries, revealed, form>>
storeVars == <<unlocked, bitwarden, logins, nextId>>
vars == <<calls, pageVars, storeVars, own, deleted>>

Rows == {"browser", "bitwarden"} \X (1..MaxId)
NewLogin == <<"new", 0>>            (* the form's row when it adds a login *)
Closed   == [row |-> NewLogin, current |-> Blank, shown |-> FALSE]
Form(row, current) == [row |-> row, current |-> current, shown |-> TRUE]
Local(row) == row[1] = "browser"

(* The calls that the page makes, and the answers to them.  The answer to  *)
(* a call that was given up is not looked at.                              *)
RequestsFor(method, params, then) ==
  [stage : {"sent", "handled"}, method : {method}, params : params, then : then \cup {"nothing"}]
Requests ==
  LET kept == Passwords \cup {Blank}
  IN UNION {RequestsFor("list", {NoCall}, {"load"}),
            RequestsFor("reveal", [row : Rows], {"show", "edit"}),
            RequestsFor("add", [password : kept], {"close"}),
            RequestsFor("update", [row : Rows, password : kept], {"close"}),
            RequestsFor("delete", [row : Rows], {"reload"})}

AnswersTo(then, ok, reply) == [stage : {"returned"}, then : then, ok : ok, reply : reply]
Answers ==
  LET lists   == [locked : BOOLEAN, rows : SUBSET Rows]
      reveals == [row : Rows, password : Passwords \cup {Blank}]
  IN UNION {AnswersTo({"load"}, {TRUE}, lists),
            AnswersTo({"show", "edit"}, {TRUE}, reveals),
            AnswersTo({"close", "reload"}, BOOLEAN, {NoCall}),
            AnswersTo({"nothing"}, BOOLEAN, lists \cup reveals \cup {NoCall})}

ASSUME CallsAssumption == NoCall \notin Requests \cup Answers /\ MaxCalls \in Nat \ {0}

-----------------------------------------------------------------------------
(* The stores                                                              *)

(* VaultState::Unlocked; bw serve does not refuse.                         *)
Reachable(row) == IF Local(row) THEN unlocked ELSE bitwarden

(* PasswordStore::list and BitwardenBackend::list                          *)
VaultRows == {row \in DOMAIN logins : Local(row)}
BitwardenRows == {row \in DOMAIN logins : ~Local(row)}

(* passwords_list: the vault's, then Bitwarden's if its status says so.    *)
Listed == VaultRows \cup (IF bitwarden THEN BitwardenRows ELSE {})

(* The password of a listed row: Bitwarden's items may have none.          *)
Password(row) == IF row \in DOMAIN logins THEN logins[row] ELSE Blank

(* PasswordStore::add: a row of its own, whatever is there already.        *)
Added(password) ==
  [r \in DOMAIN logins \cup {<<"browser", nextId>>} |->
     IF r = <<"browser", nextId>> THEN password ELSE logins[r]]

(* Mutant: UPDATE becomes INSERT OR REPLACE.                               *)
UpdatedOrInserted(row, password) ==
  [r \in DOMAIN logins \cup {row} |-> IF r = row THEN password ELSE logins[r]]

(* PasswordStore::update: a row that is not there is not updated, and that *)
(* is no error.                                                            *)
Updated(row, password) ==
  [r \in DOMAIN logins |-> IF r = row THEN password ELSE logins[r]]

(* PasswordStore::delete                                                   *)
Removed(row) == [r \in DOMAIN logins \ {row} |-> logins[r]]

(* BitwardenBackend::update and delete: bw serve refuses an unknown item.  *)
BitwardenUpdates(row, password) == row \in BitwardenRows /\ logins' = Updated(row, password)
BitwardenDeletes(row) == row \in BitwardenRows /\ logins' = Removed(row)

-----------------------------------------------------------------------------
(* The handlers, on the GTK thread                                         *)

(* passwords_list                                                          *)
DispatchList(s) ==
  /\ Dispatched(s, "list")
  /\ calls' = Replied(s, [locked |-> ~unlocked,
                          rows |-> IF unlocked THEN Listed ELSE {}])
  /\ UNCHANGED <<pageVars, storeVars, own, deleted>>

(* passwords_reveal: nothing for a row that is not there.                  *)
DispatchReveal(s) ==
  LET row == calls[s].params.row IN
  /\ Dispatched(s, "reveal")
  /\ calls' = Replied(s, [row |-> row,
                          password |-> IF Reachable(row) THEN Password(row)
                                                             ELSE Blank])
  /\ UNCHANGED <<pageVars, storeVars, own, deleted>>

(* passwords_add, to the vault: the page adds nowhere else.                *)
DispatchAdd(s) ==
  LET row == <<"browser", nextId>> IN
  /\ Dispatched(s, "add")
  /\ IF unlocked
     THEN /\ logins' = Added(calls[s].params.password)
          /\ own' = [own EXCEPT ![row] = @ \cup ({calls[s].params.password} \ {Blank})]
          /\ nextId' = nextId + 1
          /\ calls' = Replied(s, NoCall)
     ELSE /\ calls' = Refused(s)
          /\ UNCHANGED <<logins, own, nextId>>
  /\ UNCHANGED <<pageVars, unlocked, bitwarden, deleted>>

(* passwords_update, in the row's own store                                *)
DispatchUpdate(s) ==
  LET row == calls[s].params.row  password == calls[s].params.password IN
  /\ Dispatched(s, "update")
  /\ \/ /\ Reachable(row)
        /\ IF Local(row) THEN logins' = Updated(row, password)
                         ELSE BitwardenUpdates(row, password)
        /\ calls' = Replied(s, NoCall)
     \/ /\ ~Reachable(row) \/ (~Local(row) /\ row \notin BitwardenRows)
        /\ calls' = Refused(s)
        /\ UNCHANGED logins
  /\ UNCHANGED <<pageVars, unlocked, bitwarden, nextId, own, deleted>>

(* passwords_delete, from the row's own store                              *)
DispatchDelete(s) ==
  LET row == calls[s].params.row IN
  /\ Dispatched(s, "delete")
  /\ \/ /\ Reachable(row)
        /\ IF Local(row) THEN logins' = Removed(row) ELSE BitwardenDeletes(row)
        /\ deleted' = deleted \cup {row}
        /\ calls' = Replied(s, NoCall)
     \/ /\ ~Reachable(row) \/ (~Local(row) /\ row \notin BitwardenRows)
        /\ calls' = Refused(s)
        /\ UNCHANGED <<logins, deleted>>
  /\ UNCHANGED <<pageVars, unlocked, bitwarden, nextId, own>>

Dispatch(s) ==
  \/ DispatchList(s) \/ DispatchReveal(s)
  \/ DispatchAdd(s) \/ DispatchUpdate(s) \/ DispatchDelete(s)

(* The vault is unlocked in the native panel.                              *)
UnlockVault ==
  /\ ~unlocked
  /\ unlocked' = TRUE
  /\ UNCHANGED <<calls, pageVars, bitwarden, logins, nextId, own, deleted>>

(* bw serve is started, unlocked, locked or stopped.                       *)
BitwardenChanges ==
  /\ bitwarden' = ~bitwarden
  /\ UNCHANGED <<calls, pageVars, unlocked, logins, nextId, own, deleted>>

-----------------------------------------------------------------------------
(* The page: what a click does, up to its first await                      *)

Load == Call("list", NoCall, "load")
Shown == IF locked THEN {} ELSE entries       (* renderContent *)

(* Mutant: the cache is keyed by the id alone.                             *)
SameIdRevealed(row) ==
  IF \E r \in Rows : r[2] = row[2] /\ revealed[r] # Blank
  THEN revealed[CHOOSE r \in Rows : r[2] = row[2] /\ revealed[r] # Blank] ELSE Blank

Cached(row) == revealed[row]

(* revealPassword without a call: the page knows the password.             *)
EditKnown ==
  \E row \in Shown :
    /\ Cached(row) # Blank
    /\ form' = Form(row, Cached(row))
    /\ UNCHANGED <<calls, locked, entries, revealed, storeVars, own, deleted>>

(* The eye or the copy button ("show"), or the pencil ("edit").            *)
AskPassword ==
  \E row \in Shown, then \in {"show", "edit"} :
    /\ Cached(row) = Blank
    /\ FreeSlots # {}
    /\ calls' = With(calls, Call("reveal", [row |-> row], then))
    /\ UNCHANGED <<pageVars, storeVars, own, deleted>>

ClickDelete ==
  \E row \in Shown :
    /\ FreeSlots # {}
    /\ calls' = With(calls, Call("delete", [row |-> row], "reload"))
    /\ UNCHANGED <<pageVars, storeVars, own, deleted>>

ClickAdd ==
  /\ form # Form(NewLogin, Blank)
  /\ form' = Form(NewLogin, Blank)
  /\ UNCHANGED <<calls, locked, entries, revealed, storeVars, own, deleted>>

CancelForm ==
  /\ form.shown
  /\ form' = Closed
  /\ UNCHANGED <<calls, locked, entries, revealed, storeVars, own, deleted>>

Adding == {s \in Slots : Stage(s) \in {"sent", "handled"} /\ calls[s].method = "add"}

(* form-submit: the form stays until the answer comes.                     *)
SubmitAdd ==
  \E typed \in Typed \cup {Blank} :
    /\ form.shown /\ form.row = NewLogin
    /\ FreeSlots # {} /\ nextId + Cardinality(Adding) =< MaxId
    /\ calls' = With(calls, Call("add", [password |-> typed], "close"))
    /\ UNCHANGED <<pageVars, storeVars, own, deleted>>

(* A blank field keeps the password the form knows.                        *)
SubmitEdit ==
  \E typed \in Typed \cup {Blank} :
    LET password == IF typed # Blank THEN typed ELSE form.current IN
    /\ form.shown /\ form.row # NewLogin
    /\ FreeSlots # {}
    /\ calls' = With(calls, Call("update", [row |-> form.row, password |-> password], "close"))
    /\ own' = [own EXCEPT ![form.row] = @ \cup ({typed} \ {Blank})]
    /\ UNCHANGED <<pageVars, storeVars, deleted>>

-----------------------------------------------------------------------------
(* The page: an answer comes, and what awaited it goes on                  *)

(* load                                                                    *)
Loaded(s) ==
  /\ Answer(s, {"load"})
  /\ locked' = calls[s].reply.locked
  /\ entries' = calls[s].reply.rows
  /\ calls' = Without(s)
  /\ UNCHANGED <<revealed, form, storeVars, own, deleted>>

(* revealPassword; openForm if the pencil asked.                           *)
Revealed(s) ==
  LET row == calls[s].reply.row  password == calls[s].reply.password IN
  /\ Answer(s, {"show", "edit"})
  /\ revealed' = [revealed EXCEPT ![row] = password]
  /\ form' = IF calls[s].then = "edit" THEN Form(row, password) ELSE form
  /\ calls' = Without(s)
  /\ UNCHANGED <<locked, entries, storeVars, own, deleted>>

(* A change that was made: the form, whichever it now is, closes if it was *)
(* the form's, and the list is loaded again.                               *)
Changed(s) ==
  /\ Answer(s, {"close", "reload"}) /\ calls[s].ok
  /\ form' = IF calls[s].then = "close" THEN Closed ELSE form
  /\ calls' = With(Without(s), Load)
  /\ UNCHANGED <<locked, entries, revealed, storeVars, own, deleted>>

(* A change that was refused: the form says so, or the console does.       *)
ChangeRefused(s) ==
  /\ Answer(s, {"close", "reload"}) /\ ~calls[s].ok
  /\ calls' = Without(s)
  /\ UNCHANGED <<pageVars, storeVars, own, deleted>>

(* Nobody waits for it; it may not even have reached the server.           *)
Dropped(s) ==
  /\ Stage(s) \in {"sent", "returned"} /\ calls[s].then = "nothing"
  /\ calls' = Without(s)
  /\ UNCHANGED <<pageVars, storeVars, own, deleted>>

Continue(s) == Loaded(s) \/ Revealed(s) \/ Changed(s) \/ ChangeRefused(s) \/ Dropped(s)

(* The page is reloaded, or its engine was unloaded and is built again.    *)
ReloadPage ==
  /\ FreeSlots # {}
  /\ calls' = With(Orphaned({"list", "reveal"}), Load)
  /\ locked' = FALSE /\ entries' = {} /\ form' = Closed
  /\ revealed' = [row \in Rows |-> Blank]
  /\ UNCHANGED <<storeVars, own, deleted>>

-----------------------------------------------------------------------------
Init ==
  /\ unlocked \in BOOLEAN /\ bitwarden = FALSE
  /\ logins = [row \in {r \in Rows : IF Local(r) THEN r[2] \in DOMAIN Saved
                                                 ELSE r[2] \in DOMAIN SavedInBitwarden}
                 |-> IF Local(row) THEN Saved[row[2]] ELSE SavedInBitwarden[row[2]]]
  /\ nextId = Cardinality(DOMAIN Saved) + 1
  /\ locked = FALSE /\ entries = {} /\ form = Closed
  /\ revealed = [row \in Rows |-> Blank]
  /\ own = [row \in Rows |-> {logins[r] : r \in DOMAIN logins \cap {row}}]
  /\ deleted = {}
  /\ calls = With([s \in Slots |-> NoCall], Load)

Server(s) ==
  /\ TakeRequest(s)
  /\ UNCHANGED <<pageVars, storeVars, own, deleted>>

Next ==
  \/ \E s \in Slots : Server(s) \/ Dispatch(s) \/ Continue(s)
  \/ UnlockVault \/ BitwardenChanges
  \/ EditKnown \/ AskPassword \/ ClickDelete \/ ClickAdd \/ CancelForm
  \/ SubmitAdd \/ SubmitEdit \/ ReloadPage

Spec == Init /\ [][Next]_vars

-----------------------------------------------------------------------------
(* Properties                                                              *)

(* The state has its types: calls that the registry has, passwords that    *)
(* somebody typed, ids that the vault gave (METHODS, allEntries, Login).   *)
TypeOK ==
  /\ calls \in [Slots -> Requests \cup Answers \cup {NoCall}]
  /\ Cardinality({s \in Slots : Stage(s) = "handled"}) =< 1
  /\ locked \in BOOLEAN /\ unlocked \in BOOLEAN /\ bitwarden \in BOOLEAN
  /\ entries \subseteq Rows
  /\ revealed \in [Rows -> Passwords \cup {Blank}]
  /\ form \in [row : Rows \cup {NewLogin}, current : Passwords \cup {Blank}, shown : BOOLEAN]
  /\ DOMAIN logins \subseteq Rows
  /\ \A row \in DOMAIN logins :
       logins[row] \in Passwords \cup {Blank} /\ (Local(row) => row[2] < nextId)
  /\ nextId \in 1..(MaxId + 1)

(* Whatever is clicked while answers are on their way, a login only ever   *)
(* holds, and the page only ever shows and sends for it, a password that   *)
(* was given for that login: the cache, the forms' closures and the ids of *)
(* two stores never mix logins up (entryKey, revealPassword, openForm).    *)
PasswordsStayTheirs ==
  /\ \A row \in DOMAIN logins : logins[row] \in own[row] \cup {Blank}
  /\ \A row \in Rows : revealed[row] \in own[row] \cup {Blank}
  /\ form.shown /\ form.row # NewLogin => form.current \in own[form.row] \cup {Blank}

(* A login once deleted never comes back, though a form that edits it may  *)
(* still be submitted, and though the page remembers its password: update  *)
(* inserts nothing, and AUTOINCREMENT gives no id twice.                   *)
DeletedStayDeleted == DOMAIN logins \cap deleted = {}

(* A sentence of the code that TLC refutes when it is added to the        *)
(* run (README, "What the code does not keep").                            *)

(* "New password (leave blank to keep current)" (passwords/app.js:81):     *)
(* with no call under way, the password that the form would keep is the    *)
(* one the vault holds.                                                    *)
BlankKeepsCurrent ==
  form.shown /\ form.row \in DOMAIN logins /\ Local(form.row) /\ FreeSlots = Slots
    => form.current = logins[form.row]
=============================================================================
