---------------------------- MODULE ProfileUnlock ----------------------------
(***************************************************************************)
(* How a profile's two encrypted databases, the history and the password   *)
(* vault, are set up and unlocked: browser-core's Profile, the opening of  *)
(* HistoryStore and PasswordStore, and the GTK front end that asks for     *)
(* passphrases.  Any number of processes may run on a profile, and one may *)
(* die between creating a database and writing the marker file that says   *)
(* it is encrypted.                                                        *)
(*                                                                         *)
(* A database is "absent", "plain" or the passphrase it is encrypted with. *)
(* What it contains is left out.                                           *)
(***************************************************************************)
EXTENDS CommandLine

CONSTANTS
  Procs,        (* the processes *)
  Names,        (* what users type for a profile's name *)
  Typed,        (* other command lines the program is started with *)
  Private,      (* the name Profile::ephemeral gives itself *)
  Passphrases   (* what users may type *)

Profiles == Safe

ASSUME UnlockAssumption ==
  /\ Private \in Profiles
  /\ Passphrases \cap {"absent", "plain", "none"} = {}

VARIABLES
  history,        (* of each profile: its history.db *)
  vault,          (* of each profile: its passwords.db *)
  historyMarker,  (* profiles with the file passphrase-enabled *)
  vaultMarker,    (* profiles with the file vault-passphrase-enabled *)
  proc,           (* of each process: where it is and what it knows *)
  faults          (* for the properties: what has gone wrong so far *)

disk == <<history, vault, historyMarker, vaultMarker>>
vars == <<history, vault, historyMarker, vaultMarker, proc, faults>>

Ended ==
  [stage |-> "ended", name |-> Private, ephemeral |-> FALSE, link |-> FALSE,
   typed |-> "none", session |-> "none", passwords |-> "NotSetUp", panel |-> FALSE]

Become(p, r) == proc' = [proc EXCEPT ![p] = r]

NoFault == UNCHANGED faults
Fault(kind) == faults' = faults \cup {kind}

-----------------------------------------------------------------------------
(* open_encrypted: the first passphrase to open a database is the one it   *)
(* is encrypted with from then on; any other is an error.                  *)
OpensWith(db, n, q) == db[n] \in {"absent", q}

(* It returns an error, with another passphrase or because a file operation *)
(* failed.  The database may be there then, since the statements of the    *)
(* schema run one by one.                                                  *)
FailsToOpen(db, n, q) ==
  \/ ~OpensWith(db, n, q) /\ NoFault /\ db' = db
  \/ OpensWith(db, n, q) /\ Fault("error") /\ db' \in {db, [db EXCEPT ![n] = q]}

HasVaultPassphrase(r) == ~r.ephemeral /\ r.name \in vaultMarker

(* The vault's state in a window that has just been built.                 *)
InitialVaultState(r) == IF HasVaultPassphrase(r) THEN "Locked" ELSE "NotSetUp"

(* A new window, a profile to be encrypted, a private window.  A private   *)
(* window asked to set up a passphrase does so under the private name.     *)
Launch(p, n, private, setup) ==
  /\ proc[p].stage = "ended"
  /\ LET name == IF private THEN Private ELSE n
     IN Become(p, [Ended EXCEPT
          !.name = name, !.ephemeral = private,
          !.stage = IF setup THEN "setup"
                    ELSE IF ~private /\ name \in historyMarker THEN "unlock"
                    ELSE "opening"])
  /\ UNCHANGED disk /\ NoFault

(* The chooser shown for an external link, and the profile picked in it.   *)
LaunchLink(p) ==
  /\ proc[p].stage = "ended"
  /\ Become(p, [Ended EXCEPT !.stage = "choosing", !.link = TRUE])
  /\ UNCHANGED disk /\ NoFault

(* main.                                                                   *)
Main(p, line) ==
  IF HasUrl(line) THEN LaunchLink(p)
  ELSE Launch(p, ProfileNew(ResolveProfileName(line)), ResolveEphemeralRequested(line),
              ResolvePassphraseSetupRequested(line))

Choose(p, n) ==
  /\ proc[p].stage = "choosing"
  /\ Become(p, [proc[p] EXCEPT !.stage = "opening", !.name = n])
  /\ UNCHANGED disk /\ NoFault

(* build_window_and_app: the history in memory, or one without encryption. *)
(* When that fails main returns, but the chooser's process has closed its  *)
(* window without quitting and stays.                                      *)
OpenPlain(p) ==
  /\ proc[p].stage = "opening"
  /\ LET r == proc[p]
         opened == [r EXCEPT !.stage = "running", !.passwords = InitialVaultState(r)]
         gone == IF r.link THEN [r EXCEPT !.stage = "stuck"] ELSE Ended
     IN \/ r.ephemeral /\ Become(p, opened) /\ UNCHANGED history /\ NoFault
        \/ r.ephemeral /\ Become(p, gone) /\ UNCHANGED history /\ Fault("error")
        \/ /\ ~r.ephemeral /\ OpensWith(history, r.name, "plain")
           /\ history' = [history EXCEPT ![r.name] = "plain"]
           /\ Become(p, opened) /\ NoFault
        \/ ~r.ephemeral /\ FailsToOpen(history, r.name, "plain") /\ Become(p, gone)
  /\ UNCHANGED <<vault, historyMarker, vaultMarker>>

(* The passphrase prompt of a start.  A wrong passphrase is asked again.   *)
EnterHistory(p, q) ==
  /\ proc[p].stage \in {"setup", "unlock"}
  /\ \/ /\ OpensWith(history, proc[p].name, q)
        /\ history' = [history EXCEPT ![proc[p].name] = q]
        /\ Become(p, [proc[p] EXCEPT !.typed = q,
             !.stage = IF proc[p].stage = "setup" THEN "marking" ELSE "building"])
        /\ NoFault
     \/ FailsToOpen(history, proc[p].name, q) /\ UNCHANGED proc
  /\ UNCHANGED <<vault, historyMarker, vaultMarker>>

(* Mutant: nothing marks the profile.                                      *)
SkipMarkHistory(p) ==
  /\ proc[p].stage = "marking"
  /\ Become(p, [proc[p] EXCEPT !.stage = "building"])
  /\ UNCHANGED disk /\ NoFault

(* enable_passphrase, whose failure is only logged.                        *)
MarkHistory(p) ==
  /\ proc[p].stage = "marking"
  /\ \/ historyMarker' = historyMarker \cup {proc[p].name} /\ NoFault
     \/ UNCHANGED historyMarker /\ Fault("error")
  /\ Become(p, [proc[p] EXCEPT !.stage = "building"])
  /\ UNCHANGED <<history, vault, vaultMarker>>

-----------------------------------------------------------------------------
(* try_open_vault_with, after the database was opened with q.              *)
VaultOpened(r, q) ==
  [r EXCEPT !.stage = "running", !.typed = "none", !.passwords = "Unlocked",
            !.session = IF @ = "none" THEN q ELSE @]

OpenVault(p, r, q, isSetup) ==
  /\ OpensWith(vault, r.name, q)
  /\ vault' = [vault EXCEPT ![r.name] = q] /\ NoFault
  /\ Become(p, IF isSetup THEN [r EXCEPT !.stage = "vault_marking", !.typed = q]
               ELSE VaultOpened(r, q))

(* build_window_and_app_with_history, then note_unlocked_with_passphrase:  *)
(* the passphrase is known from here on and is tried on a locked vault.    *)
Build(p) ==
  /\ proc[p].stage = "building"
  /\ LET q == proc[p].typed
         r == [proc[p] EXCEPT !.stage = "running", !.session = q, !.typed = "none",
                              !.passwords = InitialVaultState(proc[p])]
     IN \/ r.passwords = "Locked" /\ OpenVault(p, r, q, FALSE)
        \/ r.passwords = "Locked" /\ FailsToOpen(vault, r.name, q) /\ Become(p, r)
        \/ r.passwords # "Locked" /\ Become(p, r) /\ UNCHANGED vault /\ NoFault
        \/ Become(p, [r EXCEPT !.stage = "stuck"]) /\ UNCHANGED vault /\ Fault("error")
  /\ UNCHANGED <<history, historyMarker, vaultMarker>>

(* Mutant: a vault not set up is always prompted for.                      *)
OpenPasswordsPrompting(p) ==
  /\ proc[p].stage = "running" /\ proc[p].passwords # "Unlocked"
  /\ LET r == proc[p]
         known == r.session # "none" /\ HasVaultPassphrase(r)
     IN \/ known /\ OpenVault(p, r, r.session, FALSE)
        \/ /\ \/ known /\ FailsToOpen(vault, r.name, r.session)
              \/ ~known /\ UNCHANGED vault /\ NoFault
           /\ Become(p, [r EXCEPT !.panel = TRUE])
  /\ UNCHANGED <<history, historyMarker, vaultMarker>>

(* open_passwords on a vault not yet unlocked: decide_vault_unlock_action  *)
(* tries the passphrase known, or else the panel asks for one.  The key    *)
(* bound to it works with the panel open too, and then leaves it open.     *)
OpenPasswords(p) ==
  /\ proc[p].stage = "running" /\ proc[p].passwords # "Unlocked"
  /\ LET r == proc[p]
     IN \/ r.session # "none" /\ OpenVault(p, r, r.session, ~HasVaultPassphrase(r))
        \/ /\ \/ r.session # "none" /\ FailsToOpen(vault, r.name, r.session)
              \/ r.session = "none" /\ UNCHANGED vault /\ NoFault
           /\ Become(p, [r EXCEPT !.panel = TRUE])
  /\ UNCHANGED <<history, historyMarker, vaultMarker>>

(* unlock_vault_clicked, and close_passwords once the vault is open.  A     *)
(* wrong passphrase is asked again.                                        *)
UnlockVaultClicked(p, q) ==
  /\ proc[p].stage = "running" /\ proc[p].panel
  /\ \/ OpenVault(p, [proc[p] EXCEPT !.panel = FALSE], q, ~HasVaultPassphrase(proc[p]))
     \/ FailsToOpen(vault, proc[p].name, q) /\ UNCHANGED proc
  /\ UNCHANGED <<history, historyMarker, vaultMarker>>

(* enable_vault_passphrase, then the rest of try_open_vault_with.          *)
MarkVault(p) ==
  /\ proc[p].stage = "vault_marking"
  /\ \/ vaultMarker' = vaultMarker \cup {proc[p].name} /\ NoFault
     \/ UNCHANGED vaultMarker /\ Fault("error")
  /\ Become(p, VaultOpened(proc[p], proc[p].typed))
  /\ UNCHANGED <<history, vault, historyMarker>>

ClosePasswords(p) ==
  /\ proc[p].stage = "running" /\ proc[p].panel
  /\ Become(p, [proc[p] EXCEPT !.panel = FALSE])
  /\ UNCHANGED disk /\ NoFault

(* Cancelled, quit, or killed; inside a handler only by a crash.           *)
End(p) ==
  /\ proc[p].stage # "ended"
  /\ IF proc[p].stage \in {"marking", "building", "vault_marking"} THEN Fault("crash") ELSE NoFault
  /\ Become(p, Ended)
  /\ UNCHANGED disk

-----------------------------------------------------------------------------
Init ==
  /\ history = [n \in Profiles |-> "absent"] /\ vault = [n \in Profiles |-> "absent"]
  /\ historyMarker = {} /\ vaultMarker = {}
  /\ proc = [p \in Procs |-> Ended] /\ faults = {}

(* The command lines with which windows and users start the program.       *)
Lines ==
  {Started(n) : n \in Names} \cup {StartedEncrypted(n) : n \in Names}
    \cup {StartedPrivate} \cup Typed

Step(p) ==
  \/ \E line \in Lines : Main(p, line)
  \/ \E n \in Profiles : Choose(p, n)
  \/ OpenPlain(p)
  \/ \E q \in Passphrases : EnterHistory(p, q)
  \/ MarkHistory(p)
  \/ Build(p)
  \/ OpenPasswords(p)
  \/ \E q \in Passphrases : UnlockVaultClicked(p, q)
  \/ MarkVault(p)
  \/ ClosePasswords(p)
  \/ End(p)

Next == \E p \in Procs : Step(p)

Spec == Init /\ [][Next]_vars

-----------------------------------------------------------------------------
Stages == {"ended", "setup", "unlock", "choosing", "opening", "marking", "building",
           "running", "vault_marking", "stuck"}
MaybePassphrase == Passphrases \cup {"none"}

TypeOK ==
  /\ history \in [Profiles -> Passphrases \cup {"absent", "plain"}]
  /\ vault \in [Profiles -> Passphrases \cup {"absent"}]
  /\ historyMarker \subseteq Profiles /\ vaultMarker \subseteq Profiles
  /\ faults \subseteq {"crash", "error"}
  /\ proc \in [Procs ->
       [stage : Stages, name : Profiles, ephemeral : BOOLEAN, link : BOOLEAN,
        typed : MaybePassphrase, session : MaybePassphrase,
        passwords : {"NotSetUp", "Locked", "Unlocked"}, panel : BOOLEAN]]

(* A marker's "mere existence means" that the database is encrypted        *)
(* (passphrase_marker_path): whoever asks for a passphrase because of it   *)
(* asks for one that exists, after any crash and whatever other processes  *)
(* do to the profile.                                                      *)
MarkersTell ==
  /\ \A n \in historyMarker : history[n] \in Passphrases
  /\ \A n \in vaultMarker : vault[n] \in Passphrases

(* The other way round, unless something crashed or failed: a database     *)
(* that was encrypted has its marker, or is about to get it, so the next   *)
(* start asks for the passphrase (enable_passphrase and its callers).      *)
EncryptedIsMarked ==
  faults = {} => \A n \in Profiles :
    /\ history[n] \in Passphrases =>
         n \in historyMarker \/ \E p \in Procs : proc[p].stage = "marking" /\ proc[p].name = n
    /\ vault[n] \in Passphrases =>
         n \in vaultMarker \/ \E p \in Procs : proc[p].stage = "vault_marking" /\ proc[p].name = n

(* The passphrase a process remembers opens one of its profile's           *)
(* databases: it is never one that was mistyped (session_passphrase).      *)
SessionPassphraseOpens ==
  \A p \in Procs :
    proc[p].session # "none" => proc[p].session \in {history[proc[p].name], vault[proc[p].name]}

(* "whenever both are on they share one passphrase value"                  *)
(* (vault_passphrase_marker_path).  A named profile that has the name of   *)
(* private windows shares its directory with theirs, and is left out.      *)
OnePassphrase ==
  \A n \in Profiles \ {Private} :
    history[n] \in Passphrases /\ vault[n] \in Passphrases => history[n] = vault[n]

(* What the code does for that sentence: it holds unless an operation on a *)
(* file has failed, whatever has crashed (decide_vault_unlock_action).     *)
OnePassphraseUnlessError == "error" \notin faults => OnePassphrase

(* "if history was already unlocked at startup, opening the vault for the  *)
(* first time silently reuses that same passphrase, no second prompt at    *)
(* all" (VaultUnlockAction), unless an operation on a file has failed.     *)
NoSecondPrompt ==
  "error" \notin faults => \A p \in Procs :
    proc[p].panel /\ proc[p].name # Private => history[proc[p].name] \notin Passphrases

(* Sentences of the code that TLC refutes when they are added to the      *)
(* run (README, "What the code does not keep").                            *)

(* "nothing about it is ever written to disk" (Profile::ephemeral): no     *)
(* step of a private window's process changes a file.                      *)
PrivateWritesNothing ==
  [][\A p \in Procs : proc[p].ephemeral /\ proc'[p] # proc[p] => UNCHANGED disk]_vars

(* "bookkeeping so future launches know to prompt for a passphrase before  *)
(* trying to open it" (enable_passphrase): the history of a marked profile *)
(* is only ever opened by a process that asked.                            *)
MarkedProfilesAreAsked ==
  [][\A p \in Procs :
       proc[p].stage # "opening" /\ proc'[p].stage = "opening" /\ ~proc'[p].ephemeral
         => proc'[p].name \notin historyMarker]_vars
=============================================================================
