------------------------ MODULE ProfileUnlock_proofs ------------------------
(***************************************************************************)
(* Proofs about ProfileUnlock, for any number of processes, profiles and   *)
(* passphrases: what a marker says is true after every crash and failure,  *)
(* a process remembers only passphrases that open something, and unless a  *)
(* file operation has failed a profile has one passphrase.                 *)
(***************************************************************************)
EXTENDS ProfileUnlock, TLAPS

-----------------------------------------------------------------------------
(* The inductive invariant.                                                *)

Record ==
  [stage : Stages, name : Profiles, ephemeral : BOOLEAN, link : BOOLEAN,
   typed : MaybePassphrase, session : MaybePassphrase,
   passwords : {"NotSetUp", "Locked", "Unlocked"}, panel : BOOLEAN]

(* What a process knows when the databases are h and v: before its window  *)
(* is built nothing, then the passphrase it has just opened the history    *)
(* with, afterwards one of the profile's.  A private process only has the  *)
(* private name.                                                           *)
KnowsOK(r, h, v) ==
  /\ r.ephemeral => r.name = Private /\ r.stage # "choosing"
  /\ r.session # "none" => /\ r.stage \in {"running", "vault_marking", "stuck"}
                           /\ r.session \in {h[r.name], v[r.name]}
  /\ r.panel => r.stage \in {"running", "vault_marking"}
  /\ r.stage \in {"marking", "building"} => r.typed \in Passphrases /\ h[r.name] = r.typed
  /\ r.stage = "vault_marking" => r.typed \in Passphrases /\ v[r.name] = r.typed

IInv == TypeOK /\ MarkersTell /\ \A p \in Procs : KnowsOK(proc[p], history, vault)

(* Unless an operation has failed: a process with a window on a named      *)
(* profile knows the passphrase of its history, if it has one, and never   *)
(* prompts.                                                                *)
SharesOK(r, h) ==
  r.stage \in {"running", "vault_marking"} /\ r.name # Private =>
    \/ h[r.name] = "plain"
    \/ h[r.name] \in Passphrases /\ r.session = h[r.name] /\ ~r.panel

(* The history is there before the vault, and shares its passphrase.       *)
ShareDatabases ==
  \A n \in Profiles \ {Private} : vault[n] \in Passphrases => history[n] \in {"plain", vault[n]}

Shared == ShareDatabases /\ \A p \in Procs : SharesOK(proc[p], history)

OneInv == IInv /\ ("error" \notin faults => Shared)

-----------------------------------------------------------------------------
(* Databases h and v that are those of now with some created.              *)
Fills(h, v) ==
  /\ h \in [Profiles -> Passphrases \cup {"absent", "plain"}]
  /\ v \in [Profiles -> Passphrases \cup {"absent"}]
  /\ \A n \in Profiles : /\ history[n] # "absent" => h[n] = history[n]
                         /\ vault[n] # "absent" => v[n] = vault[n]

(* A step of p that makes it r, creates databases and changes none.        *)
Makes(p, r) ==
  /\ r \in Record
  /\ proc' = [proc EXCEPT ![p] = r]
  /\ Fills(history', vault')
  /\ historyMarker' \subseteq Profiles /\ vaultMarker' \subseteq Profiles
  /\ \A n \in Profiles :
       /\ n \in historyMarker' \ historyMarker => history'[n] \in Passphrases
       /\ n \in vaultMarker' \ vaultMarker => vault'[n] \in Passphrases
  /\ KnowsOK(r, history', vault')

(* Faults add up.                                                          *)
Worse == faults' \in {faults, faults \cup {"crash"}, faults \cup {"error"}}

(* What a process knows of its databases stays true when some are created. *)
LEMMA KnowsStill ==
  ASSUME NEW r \in Record, NEW h, NEW v, KnowsOK(r, history, vault), Fills(h, v)
  PROVE  KnowsOK(r, h, v)
  <1>1. r.name \in Profiles /\ r.session \in MaybePassphrase
    BY DEF Record
  <1> QED BY <1>1, UnlockAssumption DEF KnowsOK, Fills, MaybePassphrase

(* Such a step keeps the invariant: what the other processes know stays    *)
(* true, and so does what a marker says.                                   *)
LEMMA MakesKeepsIInv ==
  ASSUME IInv, NEW p \in Procs, NEW r, Makes(p, r), Worse
  PROVE  IInv'
  <1>1. TypeOK'
    BY DEF IInv, TypeOK, Makes, Fills, Record, Worse
  <1>2. MarkersTell'
    BY UnlockAssumption DEF IInv, TypeOK, MarkersTell, Makes, Fills
  <1>3. ASSUME NEW o \in Procs PROVE KnowsOK(proc[o], history, vault)'
    <2>1. CASE o = p
      BY <2>1 DEF Makes, Fills, IInv, TypeOK
    <2>2. CASE o # p
      <3>1. proc'[o] = proc[o] /\ proc[o] \in Record
        BY <2>2 DEF Makes, Fills, IInv, TypeOK, Record
      <3>2. KnowsOK(proc[o], history, vault)
        BY DEF IInv
      <3> QED BY <3>1, <3>2, KnowsStill DEF Makes
    <2> QED BY <2>1, <2>2
  <1> QED BY <1>1, <1>2, <1>3 DEF IInv

(* The record of a process, and the start of a new one.                    *)
LEMMA ProcRecord ==
  ASSUME IInv, NEW p \in Procs
  PROVE  /\ proc[p] \in Record /\ Ended \in Record /\ proc[p].name \in Profiles
         /\ KnowsOK(proc[p], history, vault) /\ KnowsOK(Ended, history, vault)
  BY UnlockAssumption DEF IInv, TypeOK, Record, Ended, Stages, MaybePassphrase, KnowsOK

(* A step that moves p on to a record it could have, and at most creates   *)
(* databases.                                                              *)
LEMMA MovesOnFilling ==
  ASSUME IInv, NEW p \in Procs, NEW r \in Record, Become(p, r), Fills(history', vault'),
         UNCHANGED <<historyMarker, vaultMarker>>, KnowsOK(r, history, vault)
  PROVE  Makes(p, r)
  BY KnowsStill DEF Makes, Become, IInv, TypeOK

(* A step that leaves the disk alone.                                      *)
LEMMA MovesOn ==
  ASSUME IInv, NEW p \in Procs, NEW r \in Record, Become(p, r), UNCHANGED disk,
         KnowsOK(r, history, vault)
  PROVE  Makes(p, r)
  <1>1. Fills(history', vault')
    BY DEF Fills, disk, IInv, TypeOK
  <1> QED BY <1>1, MovesOnFilling DEF disk

(* An opening that returns an error creates its database or nothing.       *)
LEMMA FailsToOpenFills ==
  ASSUME IInv, NEW n \in Profiles
  PROVE  /\ \A q \in Passphrases \cup {"plain"} :
              FailsToOpen(history, n, q) /\ UNCHANGED vault => Fills(history', vault')
         /\ \A q \in Passphrases :
              FailsToOpen(vault, n, q) /\ UNCHANGED history => Fills(history', vault')
  <1>1. ASSUME NEW q \in Passphrases \cup {"plain"}, FailsToOpen(history, n, q), UNCHANGED vault
        PROVE  Fills(history', vault')
    <2>1. \/ history' = history
          \/ history' = [history EXCEPT ![n] = q] /\ history[n] \in {"absent", q}
      BY <1>1 DEF FailsToOpen, OpensWith
    <2> QED BY <1>1, <2>1 DEF Fills, IInv, TypeOK
  <1>2. ASSUME NEW q \in Passphrases, FailsToOpen(vault, n, q), UNCHANGED history
        PROVE  Fills(history', vault')
    <2>1. \/ vault' = vault
          \/ vault' = [vault EXCEPT ![n] = q] /\ vault[n] \in {"absent", q}
      BY <1>2 DEF FailsToOpen, OpensWith
    <2> QED BY <1>2, <2>1 DEF Fills, IInv, TypeOK
  <1> QED BY <1>1, <1>2

(* Unless a file operation has failed, it had another passphrase and       *)
(* creates nothing.                                                        *)
LEMMA FailsToOpenVault ==
  ASSUME NEW n, NEW q, FailsToOpen(vault, n, q), "error" \notin faults'
  PROVE  vault' = vault /\ ~OpensWith(vault, n, q)
  BY DEF FailsToOpen, Fault

(* Becoming what it was changes no process.                                *)
LEMMA SameProc ==
  ASSUME IInv, NEW p \in Procs, UNCHANGED proc
  PROVE  Become(p, proc[p])
  BY DEF Become, IInv, TypeOK

(* The record of a process whose vault was opened.                         *)
LEMMA VaultOpenedKnows ==
  ASSUME NEW r \in Record, NEW h, NEW v, NEW q \in Passphrases, v[r.name] = q,
         r.session # "none" => r.session \in {h[r.name], v[r.name]},
         r.ephemeral => r.name = Private
  PROVE  VaultOpened(r, q) \in Record /\ KnowsOK(VaultOpened(r, q), h, v)
  <1>1. VaultOpened(r, q) \in Record
    BY DEF VaultOpened, Record, Stages, MaybePassphrase
  <1>2. /\ VaultOpened(r, q).name = r.name /\ VaultOpened(r, q).stage = "running"
        /\ VaultOpened(r, q).ephemeral = r.ephemeral
        /\ VaultOpened(r, q).session = IF r.session = "none" THEN q ELSE r.session
    BY DEF VaultOpened, Record
  <1> QED BY <1>1, <1>2 DEF KnowsOK

(* Opening the vault makes p one that has, or that is about to mark it.    *)
LEMMA OpenVaultMakes ==
  ASSUME IInv, NEW p \in Procs, NEW r \in Record, NEW q \in Passphrases,
         NEW isSetup \in BOOLEAN, KnowsOK(r, history, vault), r.stage = "running",
         OpenVault(p, r, q, isSetup), UNCHANGED <<history, historyMarker, vaultMarker>>
  PROVE  \E s : Makes(p, s)
  <1> DEFINE s == IF isSetup THEN [r EXCEPT !.stage = "vault_marking", !.typed = q]
                  ELSE VaultOpened(r, q)
  <1>1. /\ vault' = [vault EXCEPT ![r.name] = q] /\ vault[r.name] \in {"absent", q}
        /\ proc' = [proc EXCEPT ![p] = s] /\ r.name \in Profiles
    BY DEF OpenVault, OpensWith, Become, Record
  <1>2. /\ vault' \in [Profiles -> Passphrases \cup {"absent"}] /\ vault'[r.name] = q
        /\ \A n \in Profiles : vault[n] # "absent" => vault'[n] = vault[n]
    BY <1>1 DEF IInv, TypeOK
  <1>3. r.session # "none" => r.session \in {history[r.name], vault'[r.name]}
    <2>1. r.session # "none" => r.session \in Passphrases
      BY DEF Record, MaybePassphrase
    <2> QED BY <1>1, <1>2, <2>1, UnlockAssumption DEF KnowsOK
  <1>4. s \in Record /\ KnowsOK(s, history, vault')
    <2>1. CASE isSetup
      <3>1. s \in Record
        BY <2>1 DEF Record, Stages, MaybePassphrase
      <3>2. /\ s.name = r.name /\ s.stage = "vault_marking" /\ s.typed = q
            /\ s.panel = r.panel /\ s.session = r.session /\ s.ephemeral = r.ephemeral
        BY <2>1 DEF Record
      <3> QED BY <3>1, <3>2, <1>2, <1>3 DEF KnowsOK
    <2>2. CASE ~isSetup
      BY <2>2, <1>2, <1>3, VaultOpenedKnows DEF KnowsOK
    <2> QED BY <2>1, <2>2
  <1>5. Makes(p, s)
    BY <1>1, <1>2, <1>4 DEF Makes, Fills, IInv, TypeOK
  <1> QED BY <1>5

(* What main reads from a line is a profile and two booleans, whatever the *)
(* line is.                                                                *)
LEMMA MainLaunches ==
  ASSUME NEW p \in Procs, NEW line, Main(p, line)
  PROVE  \/ LaunchLink(p)
         \/ \E n \in Profiles, private \in BOOLEAN, setup \in BOOLEAN :
              Launch(p, n, private, setup)
  <1>1. ProfileNew(ResolveProfileName(line)) \in Profiles
    BY CommandLineAssumption DEF ProfileNew, Profiles
  <1>2. /\ ResolveEphemeralRequested(line) \in BOOLEAN
        /\ ResolvePassphraseSetupRequested(line) \in BOOLEAN
    BY DEF ResolveEphemeralRequested, ResolvePassphraseSetupRequested
  <1> QED BY <1>1, <1>2 DEF Main

(* Every step of a process is one that Makes allows.                       *)
LEMMA StepMakes ==
  ASSUME IInv, NEW p \in Procs, Step(p)
  PROVE  \E r : Makes(p, r)
  <1> DEFINE r == proc[p]
  <1>0. /\ r \in Record /\ r.name \in Profiles /\ KnowsOK(r, history, vault)
        /\ Ended \in Record /\ KnowsOK(Ended, history, vault)
    BY ProcRecord
  <1>1. ASSUME NEW n \in Profiles, NEW private \in BOOLEAN, NEW setup \in BOOLEAN,
               Launch(p, n, private, setup)
        PROVE \E s : Makes(p, s)
    <2> DEFINE s == [Ended EXCEPT
          !.name = IF private THEN Private ELSE n,
          !.ephemeral = private,
          !.stage = IF setup THEN "setup"
                    ELSE IF ~private /\ n \in historyMarker THEN "unlock"
                    ELSE "opening"]
    <2>1. s \in Record /\ KnowsOK(s, history, vault)
      BY UnlockAssumption DEF Record, Ended, Stages, MaybePassphrase, KnowsOK
    <2>2. Become(p, s) /\ UNCHANGED disk
      BY <1>1 DEF Launch
    <2> QED BY <2>1, <2>2, MovesOn
  <1>2. CASE LaunchLink(p)
    <2> DEFINE s == [Ended EXCEPT !.stage = "choosing", !.link = TRUE]
    <2>1. s \in Record /\ KnowsOK(s, history, vault)
      BY UnlockAssumption DEF Record, Ended, Stages, MaybePassphrase, KnowsOK
    <2> QED BY <1>2, <2>1, MovesOn DEF LaunchLink
  <1>3. ASSUME NEW n \in Profiles, Choose(p, n) PROVE \E s : Makes(p, s)
    <2> DEFINE s == [r EXCEPT !.stage = "opening", !.name = n]
    <2>1. s \in Record
      BY <1>0 DEF Record, Stages
    <2>2. s.stage = "opening" /\ s.session = r.session /\ s.panel = r.panel
          /\ s.ephemeral = r.ephemeral
      BY <1>0 DEF Record
    <2>3. r.stage = "choosing"
      BY <1>3 DEF Choose
    <2>4. KnowsOK(s, history, vault)
      BY <1>0, <2>2, <2>3 DEF KnowsOK
    <2> QED BY <1>3, <2>1, <2>4, MovesOn DEF Choose
  <1>4. CASE OpenPlain(p)
    <2> DEFINE s == [r EXCEPT !.stage = "running", !.passwords = InitialVaultState(r)]
               t == IF r.link THEN [r EXCEPT !.stage = "stuck"] ELSE Ended
               h == IF r.ephemeral THEN history ELSE [history EXCEPT ![r.name] = "plain"]
    <2>1. r.stage = "opening" /\ UNCHANGED <<vault, historyMarker, vaultMarker>>
      BY <1>4 DEF OpenPlain
    <2>2. CASE Become(p, t) /\ (UNCHANGED history \/ FailsToOpen(history, r.name, "plain"))
      <3>1. t \in Record
        BY <1>0 DEF Record, Stages
      <3>2. r.link => /\ t.stage = "stuck" /\ t.session = r.session /\ t.panel = r.panel
                      /\ t.ephemeral = r.ephemeral /\ t.name = r.name
        BY <1>0 DEF Record
      <3>3. KnowsOK(t, history, vault)
        <4>1. CASE r.link
          BY <1>0, <2>1, <3>2, <4>1 DEF KnowsOK
        <4>2. CASE ~r.link
          BY <1>0, <4>2
        <4> QED BY <4>1, <4>2
      <3>4. UNCHANGED history => Fills(history', vault')
        BY <2>1 DEF Fills, IInv, TypeOK
      <3>5. Fills(history', vault')
        BY <1>0, <2>1, <2>2, <3>4, FailsToOpenFills
      <3> HIDE DEF t
      <3> QED BY <2>1, <2>2, <3>1, <3>3, <3>5, MovesOnFilling
    <2>3. CASE /\ r.ephemeral \/ OpensWith(history, r.name, "plain")
               /\ history' = h /\ Become(p, s)
      <3>1. s \in Record
        BY <1>0 DEF Record, Stages, InitialVaultState
      <3>2. /\ s.stage = "running" /\ s.session = r.session /\ s.panel = r.panel
            /\ s.ephemeral = r.ephemeral /\ s.name = r.name
        BY <1>0 DEF Record
      <3>3. KnowsOK(s, history', vault')
        BY <1>0, <2>1, <3>2 DEF KnowsOK
      <3>4. /\ h \in [Profiles -> Passphrases \cup {"absent", "plain"}]
            /\ \A n \in Profiles : history[n] # "absent" => h[n] = history[n]
        BY <1>0, <2>3 DEF OpensWith, IInv, TypeOK
      <3> HIDE DEF s, h
      <3> QED BY <2>1, <2>3, <3>1, <3>3, <3>4 DEF Makes, Fills, Become, IInv, TypeOK
    <2> QED BY <1>4, <2>2, <2>3 DEF OpenPlain
  <1>5. ASSUME NEW q \in Passphrases, EnterHistory(p, q) PROVE \E s : Makes(p, s)
    <2> DEFINE s == [r EXCEPT !.typed = q,
                       !.stage = IF r.stage = "setup" THEN "marking" ELSE "building"]
               h == [history EXCEPT ![r.name] = q]
    <2>1. /\ r.stage \in {"setup", "unlock"} /\ UNCHANGED <<vault, historyMarker, vaultMarker>>
          /\ \/ history[r.name] \in {"absent", q} /\ history' = h /\ Become(p, s)
             \/ FailsToOpen(history, r.name, q) /\ UNCHANGED proc
      BY <1>5 DEF EnterHistory, OpensWith
    <2>2. CASE history[r.name] \in {"absent", q} /\ history' = h /\ Become(p, s)
      <3>1. s \in Record
        BY <1>0 DEF Record, Stages, MaybePassphrase
      <3>2. /\ s.stage \in {"marking", "building"} /\ s.session = r.session /\ s.typed = q
            /\ s.panel = r.panel /\ s.ephemeral = r.ephemeral /\ s.name = r.name
        BY <1>0 DEF Record
      <3>3. Fills(h, vault) /\ h[r.name] = q
        BY <1>0, <2>2 DEF Fills, IInv, TypeOK
      <3>4. KnowsOK(s, history', vault')
        BY <1>0, <2>1, <2>2, <3>2, <3>3 DEF KnowsOK
      <3> HIDE DEF s, h
      <3> QED BY <2>1, <2>2, <3>1, <3>3, <3>4 DEF Makes, Become, IInv, TypeOK
    <2>3. CASE FailsToOpen(history, r.name, q) /\ UNCHANGED proc
      <3>1. Fills(history', vault') /\ Become(p, r)
        BY <1>0, <2>1, <2>3, FailsToOpenFills, SameProc
      <3> QED BY <1>0, <2>1, <3>1, MovesOnFilling
    <2> QED BY <2>1, <2>2, <2>3
  <1>6. CASE MarkHistory(p)
    <2> DEFINE s == [r EXCEPT !.stage = "building"]
    <2>1. /\ r.stage = "marking" /\ Become(p, s) /\ UNCHANGED <<history, vault, vaultMarker>>
          /\ historyMarker' \in {historyMarker, historyMarker \cup {r.name}}
      BY <1>6 DEF MarkHistory
    <2>2. s \in Record
      BY <1>0 DEF Record, Stages
    <2>3. /\ s.stage = "building" /\ s.session = r.session /\ s.typed = r.typed
          /\ s.panel = r.panel /\ s.ephemeral = r.ephemeral /\ s.name = r.name
      BY <1>0 DEF Record
    <2>4. KnowsOK(s, history', vault') /\ history[r.name] \in Passphrases
      BY <1>0, <2>1, <2>3 DEF KnowsOK
    <2> HIDE DEF s
    <2> QED BY <1>0, <2>1, <2>2, <2>4 DEF Makes, Fills, Become, IInv, TypeOK
  <1>7. CASE Build(p)
    <2> DEFINE q == r.typed
               s == [r EXCEPT !.stage = "running", !.session = q, !.typed = "none",
                              !.passwords = InitialVaultState(r)]
               t == [s EXCEPT !.stage = "stuck"]
    <2>1. r.stage = "building" /\ UNCHANGED <<history, historyMarker, vaultMarker>>
      BY <1>7 DEF Build
    <2>2. q \in Passphrases /\ history[r.name] = q
      BY <1>0, <2>1 DEF KnowsOK
    <2>3. s \in Record /\ t \in Record
      BY <1>0, <2>2 DEF Record, Stages, MaybePassphrase, InitialVaultState
    <2>4. /\ s.stage = "running" /\ s.session = q /\ s.panel = r.panel
          /\ s.ephemeral = r.ephemeral /\ s.name = r.name
          /\ t.stage = "stuck" /\ t.session = q /\ t.panel = r.panel
          /\ t.ephemeral = r.ephemeral /\ t.name = r.name
      BY <1>0 DEF Record
    <2>5. KnowsOK(s, history, vault) /\ KnowsOK(t, history, vault)
      BY <1>0, <2>1, <2>2, <2>4 DEF KnowsOK
    <2>6. CASE s.passwords = "Locked" /\ OpenVault(p, s, q, FALSE)
      <3> HIDE DEF s, t, q
      <3> QED BY <2>1, <2>2, <2>3, <2>4, <2>5, <2>6, OpenVaultMakes
    <2>7. CASE /\ UNCHANGED vault \/ FailsToOpen(vault, r.name, q)
               /\ Become(p, s) \/ Become(p, t)
      <3>1. UNCHANGED vault => Fills(history', vault')
        BY <2>1 DEF Fills, IInv, TypeOK
      <3>2. Fills(history', vault')
        BY <1>0, <2>1, <2>2, <2>7, <3>1, FailsToOpenFills
      <3> HIDE DEF s, t, q
      <3> QED BY <2>1, <2>3, <2>5, <2>7, <3>2, MovesOnFilling
    <2>8. s.name = r.name
      BY <2>4
    <2> QED BY <1>7, <2>6, <2>7, <2>8 DEF Build
  <1>8. CASE OpenPasswords(p)
    <2> DEFINE s == [r EXCEPT !.panel = TRUE]
    <2>1. r.stage = "running" /\ UNCHANGED <<history, historyMarker, vaultMarker>>
      BY <1>8 DEF OpenPasswords
    <2>2. CASE r.session # "none" /\ OpenVault(p, r, r.session, ~HasVaultPassphrase(r))
      <3>1. (~HasVaultPassphrase(r)) \in BOOLEAN /\ r.session \in Passphrases
        BY <1>0, <2>2 DEF HasVaultPassphrase, Record, MaybePassphrase
      <3> QED BY <1>0, <2>1, <2>2, <3>1, OpenVaultMakes
    <2>3. CASE /\ Become(p, s)
               /\ \/ UNCHANGED vault
                  \/ r.session # "none" /\ FailsToOpen(vault, r.name, r.session)
      <3>1. s \in Record
        BY <1>0 DEF Record
      <3>2. /\ s.stage = "running" /\ s.session = r.session /\ s.passwords = r.passwords
            /\ s.ephemeral = r.ephemeral /\ s.name = r.name
        BY <1>0, <2>1 DEF Record
      <3>3. KnowsOK(s, history, vault)
        BY <1>0, <2>1, <3>2 DEF KnowsOK
      <3>4. UNCHANGED vault => Fills(history', vault')
        BY <2>1 DEF Fills, IInv, TypeOK
      <3>5. r.session # "none" => r.session \in Passphrases
        BY <1>0 DEF Record, MaybePassphrase
      <3>6. Fills(history', vault')
        BY <1>0, <2>1, <2>3, <3>4, <3>5, FailsToOpenFills
      <3> HIDE DEF s
      <3> QED BY <2>1, <2>3, <3>1, <3>3, <3>6, MovesOnFilling
    <2> QED BY <1>8, <2>2, <2>3 DEF OpenPasswords
  <1>9. ASSUME NEW q \in Passphrases, UnlockVaultClicked(p, q) PROVE \E s : Makes(p, s)
    <2> DEFINE s == [r EXCEPT !.panel = FALSE]
    <2>1. /\ r.stage = "running" /\ UNCHANGED <<history, historyMarker, vaultMarker>>
          /\ \/ OpenVault(p, s, q, ~HasVaultPassphrase(r))
             \/ FailsToOpen(vault, r.name, q) /\ UNCHANGED proc
          /\ (~HasVaultPassphrase(r)) \in BOOLEAN
      BY <1>9 DEF UnlockVaultClicked, HasVaultPassphrase
    <2>2. CASE OpenVault(p, s, q, ~HasVaultPassphrase(r))
      <3>1. s \in Record /\ s.stage = "running" /\ s.session = r.session /\ s.panel = FALSE
            /\ s.name = r.name /\ s.ephemeral = r.ephemeral
        BY <1>0, <2>1 DEF Record
      <3>2. KnowsOK(s, history, vault)
        BY <1>0, <2>1, <3>1 DEF KnowsOK
      <3> HIDE DEF s
      <3> QED BY <2>1, <2>2, <3>1, <3>2, OpenVaultMakes
    <2>3. CASE FailsToOpen(vault, r.name, q) /\ UNCHANGED proc
      <3>1. Fills(history', vault') /\ Become(p, r)
        BY <1>0, <2>1, <2>3, FailsToOpenFills, SameProc
      <3> QED BY <1>0, <2>1, <3>1, MovesOnFilling
    <2> QED BY <2>1, <2>2, <2>3
  <1>10. CASE MarkVault(p)
    <2> DEFINE s == VaultOpened(r, r.typed)
    <2>1. /\ r.stage = "vault_marking" /\ Become(p, s)
          /\ UNCHANGED <<history, vault, historyMarker>>
          /\ vaultMarker' \in {vaultMarker, vaultMarker \cup {r.name}}
      BY <1>10 DEF MarkVault
    <2>2. r.typed \in Passphrases /\ vault[r.name] = r.typed
      BY <1>0, <2>1 DEF KnowsOK
    <2>3. s \in Record /\ KnowsOK(s, history', vault')
      BY <1>0, <2>1, <2>2, VaultOpenedKnows DEF KnowsOK
    <2> HIDE DEF s
    <2> QED BY <1>0, <2>1, <2>2, <2>3 DEF Makes, Fills, Become, IInv, TypeOK
  <1>11. CASE ClosePasswords(p)
    <2> DEFINE s == [r EXCEPT !.panel = FALSE]
    <2>1. s \in Record
      BY <1>0 DEF Record
    <2>2. s.stage = r.stage /\ s.session = r.session /\ s.panel = FALSE /\ s.typed = r.typed
          /\ s.name = r.name /\ s.ephemeral = r.ephemeral
      BY <1>0 DEF Record
    <2>3. KnowsOK(s, history, vault)
      BY <1>0, <2>2 DEF KnowsOK
    <2> QED BY <1>11, <2>1, <2>3, MovesOn DEF ClosePasswords
  <1>12. CASE End(p)
    BY <1>0, <1>12, MovesOn DEF End
  <1>13. ASSUME NEW line \in Lines, Main(p, line) PROVE \E s : Makes(p, s)
    BY <1>1, <1>2, <1>13, MainLaunches
  <1> QED BY <1>3, <1>4, <1>5, <1>6, <1>7, <1>8, <1>9, <1>10, <1>11, <1>12, <1>13
       DEF Step

(* No step takes a fault back.                                             *)
LEMMA StepFaults ==
  ASSUME NEW p \in Procs, Step(p)
  PROVE  Worse
  <1>1. ASSUME NEW n \in Profiles, NEW private \in BOOLEAN, NEW setup \in BOOLEAN,
               Launch(p, n, private, setup)
        PROVE Worse
    BY <1>1 DEF Launch, NoFault, Worse
  <1>2. CASE LaunchLink(p) \/ ClosePasswords(p) \/ End(p)
    BY <1>2 DEF LaunchLink, ClosePasswords, End, NoFault, Fault, Worse
  <1>3. ASSUME NEW n \in Profiles, Choose(p, n) PROVE Worse
    BY <1>3 DEF Choose, NoFault, Worse
  <1>4. CASE OpenPlain(p)
    BY <1>4 DEF OpenPlain, FailsToOpen, NoFault, Fault, Worse
  <1>5. ASSUME NEW q \in Passphrases, EnterHistory(p, q) \/ UnlockVaultClicked(p, q) PROVE Worse
    BY <1>5 DEF EnterHistory, UnlockVaultClicked, OpenVault, FailsToOpen, NoFault, Fault, Worse
  <1>6. CASE MarkHistory(p) \/ MarkVault(p)
    BY <1>6 DEF MarkHistory, MarkVault, NoFault, Fault, Worse
  <1>7. CASE Build(p)
    BY <1>7 DEF Build, OpenVault, FailsToOpen, NoFault, Fault, Worse
  <1>8. CASE OpenPasswords(p)
    BY <1>8 DEF OpenPasswords, OpenVault, FailsToOpen, NoFault, Fault, Worse
  <1>9. ASSUME NEW line \in Lines, Main(p, line) PROVE Worse
    BY <1>1, <1>2, <1>9, MainLaunches
  <1> QED BY <1>2, <1>3, <1>4, <1>5, <1>6, <1>7, <1>8, <1>9 DEF Step

(* No process runs and nothing is on the disk at first.                    *)
LEMMA InitIInv == Init => IInv
  <1> SUFFICES ASSUME Init PROVE IInv
    OBVIOUS
  <1>1. Ended \in Record /\ KnowsOK(Ended, history, vault)
    BY UnlockAssumption DEF Record, Ended, Stages, MaybePassphrase, KnowsOK
  <1>2. proc = [p \in Procs |-> Ended] /\ \A p \in Procs : proc[p] = Ended
    BY DEF Init
  <1>3. TypeOK
    BY <1>1, <1>2 DEF TypeOK, Init, Record
  <1>4. MarkersTell
    BY DEF Init, MarkersTell
  <1> QED BY <1>1, <1>2, <1>3, <1>4 DEF IInv

(* Every step keeps the invariant.                                         *)
LEMMA NextIInv == IInv /\ [Next]_vars => IInv'
  <1> SUFFICES ASSUME IInv, [Next]_vars PROVE IInv'
    OBVIOUS
  <1>1. ASSUME NEW p \in Procs, Step(p) PROVE IInv'
    BY <1>1, StepMakes, StepFaults, MakesKeepsIInv
  <1>2. CASE UNCHANGED vars
    BY <1>2 DEF vars, IInv, TypeOK, MarkersTell
  <1> QED BY <1>1, <1>2 DEF Next

(* So it always holds.                                                     *)
LEMMA Inductive == Spec => []IInv
  BY InitIInv, NextIInv, PTL DEF Spec

(* The databases, the markers and the processes keep their types.          *)
THEOREM UnlockTypeCorrect == Spec => []TypeOK
  <1>1. IInv => TypeOK
    BY DEF IInv
  <1> QED BY Inductive, <1>1, PTL

(* A marker is never there for a database that is not encrypted.           *)
THEOREM MarkersAreTrue == Spec => []MarkersTell
  <1>1. IInv => MarkersTell
    BY DEF IInv
  <1> QED BY Inductive, <1>1, PTL

(* A remembered passphrase opens a database of the profile.                *)
THEOREM SessionPassphrases == Spec => []SessionPassphraseOpens
  <1>1. IInv => SessionPassphraseOpens
    BY DEF IInv, KnowsOK, SessionPassphraseOpens
  <1> QED BY Inductive, <1>1, PTL

-----------------------------------------------------------------------------
(* One passphrase for both databases.                                      *)

(* A step by which p shares the history's passphrase keeps that all do:    *)
(* nobody has a window on a profile whose history is yet to be created.    *)
LEMMA MakesKeepsShared ==
  ASSUME IInv, Shared, NEW p \in Procs, NEW r, Makes(p, r), SharesOK(r, history'),
         \A n \in Profiles \ {Private} :
           vault'[n] = vault[n] \/ history'[n] \in {"plain", vault'[n]}
  PROVE  Shared'
  <1>2. ShareDatabases'
    BY UnlockAssumption DEF Shared, ShareDatabases, Makes, Fills
  <1>3. ASSUME NEW o \in Procs PROVE SharesOK(proc[o], history)'
    <2>1. CASE o = p
      BY <2>1 DEF Makes, Fills, IInv, TypeOK
    <2>2. CASE o # p
      <3>1. proc'[o] = proc[o] /\ proc[o].name \in Profiles
        BY <2>2 DEF Makes, Fills, IInv, TypeOK
      <3>2. SharesOK(proc[o], history)
        BY DEF Shared
      <3> QED BY <3>1, <3>2, UnlockAssumption DEF SharesOK, Makes, Fills
    <2> QED BY <2>1, <2>2
  <1> QED BY <1>2, <1>3 DEF Shared

(* A window whose vault was opened shares what it shared before.           *)
LEMMA VaultOpenedShares ==
  ASSUME NEW r \in Record, NEW h, NEW q \in Passphrases,
         r.name # Private => \/ h[r.name] = "plain"
                             \/ /\ h[r.name] \in Passphrases
                                /\ r.session = h[r.name] /\ ~r.panel
  PROVE  SharesOK(VaultOpened(r, q), h)
  <1>1. /\ VaultOpened(r, q).name = r.name /\ VaultOpened(r, q).panel = r.panel
        /\ VaultOpened(r, q).session = IF r.session = "none" THEN q ELSE r.session
    BY DEF VaultOpened, Record
  <1> QED BY <1>1, UnlockAssumption DEF SharesOK

(* After OpenVault p is what VaultOpened says, or shares what it did.      *)
LEMMA OpenVaultShares ==
  ASSUME IInv, NEW p \in Procs, NEW r \in Record, NEW q \in Passphrases,
         NEW isSetup \in BOOLEAN, OpenVault(p, r, q, isSetup), UNCHANGED history,
         r.stage = "running", SharesOK(r, history),
         r.name # Private => history[r.name] \in {"plain", q}
  PROVE  /\ SharesOK(proc'[p], history')
         /\ \A n \in Profiles \ {Private} :
              vault'[n] = vault[n] \/ history'[n] \in {"plain", vault'[n]}
  <1>1. /\ vault' = [vault EXCEPT ![r.name] = q] /\ r.name \in Profiles
        /\ proc'[p] = IF isSetup THEN [r EXCEPT !.stage = "vault_marking", !.typed = q]
                      ELSE VaultOpened(r, q)
    BY DEF OpenVault, Become, Record, IInv, TypeOK
  <1>2. \A n \in Profiles \ {Private} :
          vault'[n] = vault[n] \/ history'[n] \in {"plain", vault'[n]}
    BY <1>1 DEF IInv, TypeOK
  <1>3. CASE isSetup
    <2>1. /\ proc'[p].stage = "vault_marking" /\ proc'[p].name = r.name
          /\ proc'[p].session = r.session /\ proc'[p].panel = r.panel
      BY <1>1, <1>3 DEF Record
    <2> QED BY <1>2, <2>1 DEF SharesOK
  <1>4. CASE ~isSetup
    <2>1. r.name # Private => \/ history[r.name] = "plain"
                              \/ /\ history[r.name] \in Passphrases
                                 /\ r.session = history[r.name] /\ ~r.panel
      BY DEF SharesOK
    <2>2. SharesOK(VaultOpened(r, q), history)
      BY <2>1, VaultOpenedShares
    <2>3. proc'[p] = VaultOpened(r, q) /\ history' = history
      BY <1>1, <1>4
    <2> QED BY <1>2, <2>2, <2>3
  <1> QED BY <1>3, <1>4

(* A process at whose step nothing has failed shares the passphrase.       *)
LEMMA StepShares ==
  ASSUME IInv, Shared, "error" \notin faults', NEW p \in Procs, Step(p)
  PROVE  /\ SharesOK(proc'[p], history')
         /\ \A n \in Profiles \ {Private} :
              vault'[n] = vault[n] \/ history'[n] \in {"plain", vault'[n]}
  <1> DEFINE r == proc[p]
             Goal == /\ SharesOK(proc'[p], history')
                     /\ \A n \in Profiles \ {Private} :
                          vault'[n] = vault[n] \/ history'[n] \in {"plain", vault'[n]}
  <1>0. /\ r \in Record /\ r.name \in Profiles /\ KnowsOK(r, history, vault)
        /\ SharesOK(r, history) /\ Ended \in Record
        /\ \A s : Become(p, s) => proc'[p] = s
    BY ProcRecord DEF Shared, IInv, TypeOK, Become
  <1>1. CASE UNCHANGED vault /\ proc'[p].stage \notin {"running", "vault_marking"}
    BY <1>1 DEF SharesOK
  <1>2. ASSUME NEW n \in Profiles, NEW private \in BOOLEAN, NEW setup \in BOOLEAN,
               Launch(p, n, private, setup)
        PROVE Goal
    <2> DEFINE s == [Ended EXCEPT
          !.name = IF private THEN Private ELSE n,
          !.ephemeral = private,
          !.stage = IF setup THEN "setup"
                    ELSE IF ~private /\ n \in historyMarker THEN "unlock"
                    ELSE "opening"]
    <2>0. Become(p, s) /\ UNCHANGED vault
      BY <1>2 DEF Launch, disk
    <2>2. proc'[p] = s
      BY <1>0, <2>0
    <2>3. s.stage \in {"setup", "unlock", "opening"}
      BY DEF Ended
    <2> HIDE DEF s
    <2>1. proc'[p].stage \in {"setup", "unlock", "opening"} /\ UNCHANGED vault
      BY <2>0, <2>2, <2>3
    <2> QED BY <1>1, <2>1
  <1>3. CASE LaunchLink(p) \/ End(p)
    <2> DEFINE s == [Ended EXCEPT !.stage = "choosing", !.link = TRUE]
    <2>2. (Become(p, s) \/ Become(p, Ended)) /\ UNCHANGED vault
      BY <1>3 DEF LaunchLink, End, disk
    <2>3. s.stage = "choosing" /\ Ended.stage = "ended"
      BY DEF Ended
    <2>4. proc'[p] = s \/ proc'[p] = Ended
      BY <1>0, <2>2
    <2> HIDE DEF s
    <2>1. proc'[p].stage \in {"choosing", "ended"} /\ UNCHANGED vault
      BY <2>2, <2>3, <2>4
    <2> QED BY <1>1, <2>1
  <1>4. ASSUME NEW n \in Profiles, Choose(p, n) PROVE Goal
    <2>1. proc'[p].stage = "opening" /\ UNCHANGED vault
      BY <1>0, <1>4 DEF Choose, disk, Record
    <2> QED BY <1>1, <2>1
  <1>5. CASE OpenPlain(p)
    <2>1. UNCHANGED vault
      BY <1>5 DEF OpenPlain
    <2>2. CASE proc'[p] = IF r.link THEN [r EXCEPT !.stage = "stuck"] ELSE Ended
      <3>1. proc'[p].stage \in {"stuck", "ended"}
        BY <1>0, <2>2 DEF Record, Ended
      <3> QED BY <1>1, <2>1, <3>1
    <2>3. CASE /\ proc'[p] = [r EXCEPT !.stage = "running", !.passwords = InitialVaultState(r)]
               /\ r.ephemeral \/ history' = [history EXCEPT ![r.name] = "plain"]
      <3>1. proc'[p].name = r.name /\ (r.ephemeral => r.name = Private)
        BY <1>0, <2>3 DEF Record, KnowsOK
      <3>2. ~r.ephemeral => history'[r.name] = "plain"
        BY <1>0, <2>3 DEF Shared, IInv, TypeOK
      <3> QED BY <2>1, <3>1, <3>2 DEF SharesOK
    <2> QED BY <1>0, <1>5, <2>2, <2>3 DEF OpenPlain
  <1>6. ASSUME NEW q \in Passphrases, EnterHistory(p, q) PROVE Goal
    <2> DEFINE s == [r EXCEPT !.typed = q,
                       !.stage = IF r.stage = "setup" THEN "marking" ELSE "building"]
    <2>1. /\ r.stage \in {"setup", "unlock"} /\ UNCHANGED vault
          /\ Become(p, s) \/ UNCHANGED proc
      BY <1>6 DEF EnterHistory
    <2>2. s.stage \in {"marking", "building"}
      BY <1>0 DEF Record
    <2> HIDE DEF s
    <2> QED BY <1>0, <1>1, <2>1, <2>2
  <1>7. CASE MarkHistory(p)
    <2>1. proc'[p].stage = "building" /\ UNCHANGED vault
      BY <1>0, <1>7 DEF MarkHistory, Record
    <2> QED BY <1>1, <2>1
  <1>8. CASE Build(p)
    <2> DEFINE q == r.typed
               s == [r EXCEPT !.stage = "running", !.session = q, !.typed = "none",
                              !.passwords = InitialVaultState(r)]
    <2>1. /\ r.stage = "building" /\ UNCHANGED history
          /\ \/ OpenVault(p, s, q, FALSE)
             \/ Become(p, s) /\ UNCHANGED vault
      BY <1>8, FailsToOpenVault DEF Build, Fault
    <2>2. q \in Passphrases /\ history[r.name] = q /\ ~r.panel
      BY <1>0, <2>1 DEF KnowsOK, Record
    <2>3. s \in Record
      BY <1>0, <2>2 DEF Record, Stages, MaybePassphrase, InitialVaultState
    <2>4. s.stage = "running" /\ s.session = q /\ ~s.panel /\ s.name = r.name
      BY <1>0, <2>2 DEF Record
    <2>5. SharesOK(s, history)
      BY <2>2, <2>4 DEF SharesOK
    <2> HIDE DEF s, q
    <2> QED BY <1>0, <2>1, <2>2, <2>3, <2>4, <2>5, OpenVaultShares
  <1>9. CASE OpenPasswords(p)
    <2> DEFINE s == [r EXCEPT !.panel = TRUE]
    <2>1. r.stage = "running" /\ UNCHANGED history
      BY <1>9 DEF OpenPasswords
    <2>2. CASE r.session # "none" /\ OpenVault(p, r, r.session, ~HasVaultPassphrase(r))
      <3>1. (~HasVaultPassphrase(r)) \in BOOLEAN /\ r.session \in Passphrases
        BY <1>0, <2>2 DEF HasVaultPassphrase, Record, MaybePassphrase
      <3>2. r.name # Private => history[r.name] \in {"plain", r.session}
        BY <1>0, <2>1 DEF SharesOK
      <3> QED BY <1>0, <2>1, <2>2, <3>1, <3>2, OpenVaultShares
    <2>3. CASE /\ r.session # "none" => ~OpensWith(vault, r.name, r.session)
               /\ Become(p, s) /\ vault' = vault
      <3>1. s.name = r.name /\ proc'[p] = s
        BY <1>0, <2>3 DEF Record
      <3>2. r.name = Private \/ history[r.name] = "plain"
        <4>1. SUFFICES ASSUME r.name # Private, r.session = history[r.name],
                              r.session \in Passphrases
                       PROVE  FALSE
          BY <1>0, <2>1 DEF SharesOK
        <4>2. vault[r.name] \in Passphrases /\ vault[r.name] # r.session
          BY <1>0, <2>3, <4>1, UnlockAssumption DEF OpensWith, Shared, IInv, TypeOK
        <4> QED BY <1>0, <4>1, <4>2, UnlockAssumption DEF Shared, ShareDatabases
      <3> QED BY <2>1, <2>3, <3>1, <3>2 DEF SharesOK
    <2> QED BY <1>9, <2>2, <2>3, FailsToOpenVault DEF OpenPasswords
  <1>10. ASSUME NEW q \in Passphrases, UnlockVaultClicked(p, q) PROVE Goal
    <2> DEFINE s == [r EXCEPT !.panel = FALSE]
    <2>1. /\ r.stage = "running" /\ r.panel /\ UNCHANGED history
          /\ \/ OpenVault(p, s, q, ~HasVaultPassphrase(r))
             \/ UNCHANGED <<vault, proc>>
          /\ (~HasVaultPassphrase(r)) \in BOOLEAN
      BY <1>10, FailsToOpenVault DEF UnlockVaultClicked, HasVaultPassphrase
    <2>2. r.name # Private => history[r.name] \in {"plain", q}
      BY <1>0, <2>1 DEF SharesOK
    <2>3. /\ s \in Record /\ s.stage = "running" /\ s.name = r.name
          /\ s.session = r.session /\ s.panel = FALSE
      BY <1>0, <2>1 DEF Record
    <2>4. SharesOK(s, history)
      BY <1>0, <2>1, <2>3 DEF SharesOK
    <2> HIDE DEF s
    <2> QED BY <1>0, <2>1, <2>2, <2>3, <2>4, OpenVaultShares
  <1>11. CASE MarkVault(p)
    <2>1. /\ r.stage = "vault_marking" /\ proc'[p] = VaultOpened(r, r.typed)
          /\ UNCHANGED <<history, vault>>
      BY <1>0, <1>11 DEF MarkVault
    <2>2. r.typed \in Passphrases
      BY <1>0, <2>1 DEF KnowsOK
    <2>3. SharesOK(VaultOpened(r, r.typed), history)
      <3>1. r.name # Private => \/ history[r.name] = "plain"
                                \/ /\ history[r.name] \in Passphrases
                                   /\ r.session = history[r.name] /\ ~r.panel
        BY <1>0, <2>1 DEF SharesOK
      <3> QED BY <1>0, <2>2, <3>1, VaultOpenedShares
    <2> QED BY <2>1, <2>3
  <1>12. CASE ClosePasswords(p)
    <2> DEFINE s == [r EXCEPT !.panel = FALSE]
    <2>1. proc'[p] = s /\ UNCHANGED <<history, vault>> /\ r.stage = "running"
      BY <1>0, <1>12 DEF ClosePasswords, disk
    <2>2. s.stage = r.stage /\ s.name = r.name /\ s.session = r.session /\ s.panel = FALSE
      BY <1>0 DEF Record
    <2> HIDE DEF s
    <2> QED BY <1>0, <2>1, <2>2 DEF SharesOK
  <1>13. ASSUME NEW line \in Lines, Main(p, line) PROVE Goal
    BY <1>2, <1>3, <1>13, MainLaunches
  <1> QED BY <1>3, <1>4, <1>5, <1>6, <1>7, <1>8, <1>9, <1>10, <1>11, <1>12, <1>13 DEF Step

(* Every step keeps the second invariant.                                  *)
LEMMA NextOneInv == OneInv /\ [Next]_vars => OneInv'
  <1> SUFFICES ASSUME OneInv, [Next]_vars PROVE OneInv'
    OBVIOUS
  <1>1. IInv /\ IInv'
    BY NextIInv DEF OneInv
  <1>2. ASSUME NEW p \in Procs, Step(p), "error" \notin faults' PROVE Shared'
    <2>1. PICK r : Makes(p, r)
      BY <1>1, <1>2, StepMakes
    <2>2. proc'[p] = r
      BY <1>1, <2>1 DEF Makes, IInv, TypeOK
    <2>3. Shared
      BY <1>2, StepFaults DEF OneInv, Worse
    <2> QED BY <1>1, <1>2, <2>1, <2>2, <2>3, StepShares, MakesKeepsShared
  <1>3. CASE UNCHANGED vars
    BY <1>1, <1>3 DEF vars, OneInv, Shared, ShareDatabases
  <1> QED BY <1>1, <1>2, <1>3 DEF Next, OneInv

(* At first no database exists and no window is open.                      *)
LEMMA InitOneInv == Init => OneInv
  <1> SUFFICES ASSUME Init PROVE OneInv
    OBVIOUS
  <1>1. IInv
    BY InitIInv
  <1>2. ShareDatabases
    BY UnlockAssumption DEF Init, ShareDatabases
  <1>3. ASSUME NEW p \in Procs PROVE SharesOK(proc[p], history)
    <2>1. proc[p].stage = "ended"
      BY DEF Init, Ended
    <2> QED BY <2>1 DEF SharesOK
  <1> QED BY <1>1, <1>2, <1>3 DEF OneInv, Shared

(* Unless a file operation has failed, a named profile's two databases     *)
(* share one passphrase, whatever processes run on it and crash.           *)
THEOREM OnePassphraseEach == Spec => []OnePassphraseUnlessError
  <1>1. OneInv => OnePassphraseUnlessError
    BY UnlockAssumption
       DEF OneInv, Shared, ShareDatabases, OnePassphraseUnlessError, OnePassphrase
  <1> QED BY InitOneInv, NextOneInv, <1>1, PTL DEF Spec

(* Nor does a process ever prompt for the vault on a profile with an       *)
(* encrypted history.                                                      *)
THEOREM NeverAskedTwice == Spec => []NoSecondPrompt
  <1>1. OneInv => NoSecondPrompt
    BY UnlockAssumption DEF OneInv, Shared, IInv, TypeOK, KnowsOK, SharesOK, NoSecondPrompt
  <1> QED BY InitOneInv, NextOneInv, <1>1, PTL DEF Spec

-----------------------------------------------------------------------------
(* A database that was encrypted has its marker.                           *)

(* A database of n is marked, or p is about to mark it.                    *)
HistoryMarked(n) ==
  n \in historyMarker \/ \E p \in Procs : proc[p].stage = "marking" /\ proc[p].name = n
VaultMarked(n) ==
  n \in vaultMarker \/ \E p \in Procs : proc[p].stage = "vault_marking" /\ proc[p].name = n

Marked ==
  \A n \in Profiles : /\ history[n] \in Passphrases => HistoryMarked(n)
                      /\ vault[n] \in Passphrases => VaultMarked(n)

(* A process unlocks only what is marked; it will not mark it again.       *)
UnlocksMarked == \A p \in Procs : proc[p].stage = "unlock" => proc[p].name \in historyMarker

MarkedInv == IInv /\ (faults = {} => Marked /\ UnlocksMarked)

(* What a step of p does about the markers: it takes none away, it encrypts *)
(* only what is marked or what p marks next, and p leaves the stage in     *)
(* which it is about to mark by marking.                                   *)
MarksWhat(p) ==
  /\ historyMarker \subseteq historyMarker' /\ vaultMarker \subseteq vaultMarker'
  /\ proc'[p].stage = "unlock" => proc'[p].name \in historyMarker'
  /\ \A n \in Profiles :
       /\ \/ history'[n] \in {history[n], "plain"} \/ n \in historyMarker'
          \/ proc'[p].stage = "marking" /\ proc'[p].name = n
       /\ \/ vault'[n] = vault[n] \/ n \in vaultMarker'
          \/ proc'[p].stage = "vault_marking" /\ proc'[p].name = n
  /\ proc[p].stage = "marking" => proc[p].name \in historyMarker'
  /\ proc[p].stage = "vault_marking" => proc[p].name \in vaultMarker'

(* Such a step leaves every encrypted database marked.                     *)
LEMMA MarksKeepMarked ==
  ASSUME IInv, Marked, UnlocksMarked, NEW p \in Procs, NEW r, Makes(p, r), MarksWhat(p)
  PROVE  Marked' /\ UnlocksMarked'
  <1>1. \A o \in Procs \ {p} : proc'[o] = proc[o]
    BY DEF Makes, IInv, TypeOK
  <1>2. ASSUME NEW n \in Profiles, HistoryMarked(n) PROVE HistoryMarked(n)'
    BY <1>1, <1>2 DEF HistoryMarked, MarksWhat
  <1>3. ASSUME NEW n \in Profiles, VaultMarked(n) PROVE VaultMarked(n)'
    BY <1>1, <1>3 DEF VaultMarked, MarksWhat
  <1>4. ASSUME NEW n \in Profiles, history'[n] \in Passphrases PROVE HistoryMarked(n)'
    <2>1. CASE history'[n] = history[n]
      BY <1>2, <1>4, <2>1 DEF Marked
    <2>2. CASE history'[n] # history[n]
      BY <1>4, <2>2, UnlockAssumption DEF HistoryMarked, MarksWhat
    <2> QED BY <2>1, <2>2
  <1>5. ASSUME NEW n \in Profiles, vault'[n] \in Passphrases PROVE VaultMarked(n)'
    <2>1. CASE vault'[n] = vault[n]
      BY <1>3, <1>5, <2>1 DEF Marked
    <2>2. CASE vault'[n] # vault[n]
      BY <2>2 DEF VaultMarked, MarksWhat
    <2> QED BY <2>1, <2>2
  <1>6. UnlocksMarked'
    BY <1>1 DEF UnlocksMarked, MarksWhat
  <1> QED BY <1>4, <1>5, <1>6 DEF Marked

(* A vault is opened by one who marks it next, or is marked already.       *)
LEMMA OpenVaultMarks ==
  ASSUME IInv, NEW p \in Procs, NEW r \in Record, NEW q \in Passphrases,
         NEW isSetup \in BOOLEAN, OpenVault(p, r, q, isSetup),
         UNCHANGED <<history, historyMarker, vaultMarker>>,
         ~isSetup => r.name \in vaultMarker, proc[p].stage \notin {"marking", "vault_marking"}
  PROVE  MarksWhat(p)
  <1>1. /\ vault' = [vault EXCEPT ![r.name] = q]
        /\ proc'[p] = IF isSetup THEN [r EXCEPT !.stage = "vault_marking", !.typed = q]
                      ELSE VaultOpened(r, q)
    BY DEF OpenVault, Become, IInv, TypeOK
  <1>2. \A n \in Profiles : n # r.name => vault'[n] = vault[n]
    BY <1>1 DEF IInv, TypeOK
  <1>3. CASE isSetup
    <2>1. proc'[p].stage = "vault_marking" /\ proc'[p].name = r.name
      BY <1>1, <1>3 DEF Record
    <2> QED BY <1>2, <2>1 DEF MarksWhat
  <1>4. CASE ~isSetup
    <2>1. proc'[p].stage = "running"
      BY <1>1, <1>4 DEF VaultOpened, Record
    <2> QED BY <1>2, <1>4, <2>1 DEF MarksWhat
  <1> QED BY <1>3, <1>4

(* Every step at which nothing fails and nothing crashes does that.        *)
LEMMA StepMarks ==
  ASSUME IInv, UnlocksMarked, faults' = {}, NEW p \in Procs, Step(p)
  PROVE  MarksWhat(p)
  <1> DEFINE r == proc[p]
  <1>0. /\ r \in Record /\ r.name \in Profiles /\ KnowsOK(r, history, vault)
        /\ Ended \in Record /\ \A s : Become(p, s) => proc'[p] = s
    BY ProcRecord DEF IInv, TypeOK, Become
  <1>1. ASSUME UNCHANGED disk, r.stage \notin {"marking", "vault_marking"},
               proc'[p].stage = "unlock" => proc'[p].name \in historyMarker
        PROVE  MarksWhat(p)
    BY <1>1 DEF MarksWhat, disk
  <1>2. ASSUME NEW n \in Profiles, NEW private \in BOOLEAN, NEW setup \in BOOLEAN,
               Launch(p, n, private, setup)
        PROVE MarksWhat(p)
    <2> DEFINE s == [Ended EXCEPT
          !.name = IF private THEN Private ELSE n,
          !.ephemeral = private,
          !.stage = IF setup THEN "setup"
                    ELSE IF ~private /\ n \in historyMarker THEN "unlock"
                    ELSE "opening"]
    <2>1. r.stage = "ended" /\ proc'[p] = s /\ UNCHANGED disk
      BY <1>0, <1>2 DEF Launch
    <2>2. s.stage = "unlock" => s.name \in historyMarker
      BY DEF Ended
    <2> HIDE DEF s
    <2> QED BY <1>1, <2>1, <2>2
  <1>3. CASE LaunchLink(p)
    <2>1. r.stage = "ended" /\ proc'[p].stage = "choosing" /\ UNCHANGED disk
      BY <1>0, <1>3 DEF LaunchLink, Ended
    <2> QED BY <1>1, <2>1
  <1>4. ASSUME NEW n \in Profiles, Choose(p, n) PROVE MarksWhat(p)
    <2>1. r.stage = "choosing" /\ proc'[p].stage = "opening" /\ UNCHANGED disk
      BY <1>0, <1>4 DEF Choose, Record
    <2> QED BY <1>1, <2>1
  <1>5. CASE OpenPlain(p)
    <2>1. /\ r.stage = "opening" /\ UNCHANGED <<vault, historyMarker, vaultMarker>>
          /\ history' \in {history, [history EXCEPT ![r.name] = "plain"]}
          /\ proc'[p] \in {[r EXCEPT !.stage = "running", !.passwords = InitialVaultState(r)],
                           [r EXCEPT !.stage = "stuck"], Ended}
      BY <1>0, <1>5 DEF OpenPlain, FailsToOpen, Fault
    <2>2. proc'[p].stage \in {"running", "stuck", "ended"}
      <3>1. /\ [r EXCEPT !.stage = "running", !.passwords = InitialVaultState(r)].stage = "running"
            /\ [r EXCEPT !.stage = "stuck"].stage = "stuck"
            /\ Ended.stage = "ended"
        BY <1>0 DEF Record, Ended
      <3> HIDE DEF r
      <3> QED BY <2>1, <3>1
    <2>3. \A n \in Profiles : history'[n] \in {history[n], "plain"}
      BY <2>1 DEF IInv, TypeOK
    <2> QED BY <2>1, <2>2, <2>3 DEF MarksWhat
  <1>6. ASSUME NEW q \in Passphrases, EnterHistory(p, q) PROVE MarksWhat(p)
    <2>1. /\ r.stage \in {"setup", "unlock"} /\ UNCHANGED <<vault, historyMarker, vaultMarker>>
          /\ r.stage = "unlock" => r.name \in historyMarker
      BY <1>6 DEF EnterHistory, UnlocksMarked
    <2>2. CASE /\ history' = [history EXCEPT ![r.name] = q]
               /\ proc'[p] = [r EXCEPT !.typed = q,
                     !.stage = IF r.stage = "setup" THEN "marking" ELSE "building"]
      <3>1. /\ proc'[p].name = r.name
            /\ proc'[p].stage = IF r.stage = "setup" THEN "marking" ELSE "building"
        BY <1>0, <2>2 DEF Record
      <3>2. \A n \in Profiles : n # r.name => history'[n] = history[n]
        BY <2>2 DEF IInv, TypeOK
      <3> QED BY <2>1, <3>1, <3>2 DEF MarksWhat
    <2>3. CASE history' = history /\ UNCHANGED proc
      BY <1>1, <2>1, <2>3 DEF disk
    <2> QED BY <1>0, <1>6, <2>2, <2>3 DEF EnterHistory, FailsToOpen, Fault
  <1>7. CASE MarkHistory(p)
    <2>1. /\ r.stage = "marking" /\ UNCHANGED <<history, vault, vaultMarker>>
          /\ historyMarker' = historyMarker \cup {r.name}
      BY <1>7 DEF MarkHistory, Fault
    <2>2. proc'[p].stage = "building"
      BY <1>0, <1>7 DEF MarkHistory, Record
    <2> QED BY <2>1, <2>2 DEF MarksWhat
  <1>8. CASE Build(p)
    <2> DEFINE q == r.typed
               s == [r EXCEPT !.stage = "running", !.session = q, !.typed = "none",
                              !.passwords = InitialVaultState(r)]
    <2>1. /\ r.stage = "building" /\ UNCHANGED <<history, historyMarker, vaultMarker>>
          /\ \/ s.passwords = "Locked" /\ OpenVault(p, s, q, FALSE)
             \/ Become(p, s) /\ UNCHANGED vault
      BY <1>8, FailsToOpenVault DEF Build, Fault
    <2>2. q \in Passphrases
      BY <1>0, <2>1 DEF KnowsOK
    <2>3. s \in Record
      BY <1>0, <2>2 DEF Record, Stages, MaybePassphrase, InitialVaultState
    <2>4. /\ s.stage = "running" /\ s.name = r.name
          /\ s.passwords = "Locked" => r.name \in vaultMarker
      BY <1>0 DEF Record, InitialVaultState, HasVaultPassphrase
    <2> HIDE DEF s, q
    <2>5. CASE s.passwords = "Locked" /\ OpenVault(p, s, q, FALSE)
      BY <2>1, <2>2, <2>3, <2>4, <2>5, OpenVaultMarks
    <2>6. CASE Become(p, s) /\ UNCHANGED vault
      BY <1>0, <1>1, <2>1, <2>4, <2>6 DEF disk
    <2> QED BY <2>1, <2>5, <2>6
  <1>9. CASE OpenPasswords(p)
    <2> DEFINE s == [r EXCEPT !.panel = TRUE]
    <2>1. /\ r.stage = "running" /\ UNCHANGED <<history, historyMarker, vaultMarker>>
          /\ \/ r.session # "none" /\ OpenVault(p, r, r.session, ~HasVaultPassphrase(r))
             \/ Become(p, s) /\ UNCHANGED vault
      BY <1>9, FailsToOpenVault DEF OpenPasswords
    <2>2. CASE r.session # "none" /\ OpenVault(p, r, r.session, ~HasVaultPassphrase(r))
      <3>1. /\ (~HasVaultPassphrase(r)) \in BOOLEAN /\ r.session \in Passphrases
            /\ HasVaultPassphrase(r) => r.name \in vaultMarker
        BY <1>0, <2>2 DEF HasVaultPassphrase, Record, MaybePassphrase
      <3> QED BY <1>0, <2>1, <2>2, <3>1, OpenVaultMarks
    <2>3. CASE Become(p, s) /\ UNCHANGED vault
      <3>1. proc'[p].stage = "running"
        BY <1>0, <2>1, <2>3 DEF Record
      <3> QED BY <1>1, <2>1, <2>3, <3>1 DEF disk
    <2> QED BY <2>1, <2>2, <2>3
  <1>10. ASSUME NEW q \in Passphrases, UnlockVaultClicked(p, q) PROVE MarksWhat(p)
    <2> DEFINE s == [r EXCEPT !.panel = FALSE]
    <2>1. /\ r.stage = "running" /\ UNCHANGED <<history, historyMarker, vaultMarker>>
          /\ \/ OpenVault(p, s, q, ~HasVaultPassphrase(r))
             \/ UNCHANGED <<vault, proc>>
      BY <1>10, FailsToOpenVault DEF UnlockVaultClicked
    <2>2. s \in Record /\ s.stage = "running" /\ s.name = r.name
      BY <1>0, <2>1 DEF Record
    <2>3. /\ (~HasVaultPassphrase(r)) \in BOOLEAN
          /\ HasVaultPassphrase(r) => r.name \in vaultMarker
      BY DEF HasVaultPassphrase
    <2> HIDE DEF s
    <2>4. CASE UNCHANGED <<vault, proc>>
      BY <1>1, <2>1, <2>4 DEF disk
    <2>5. CASE OpenVault(p, s, q, ~HasVaultPassphrase(r))
      BY <2>1, <2>2, <2>3, <2>5, OpenVaultMarks
    <2> QED BY <2>1, <2>4, <2>5
  <1>11. CASE MarkVault(p)
    <2>1. /\ r.stage = "vault_marking" /\ proc'[p] = VaultOpened(r, r.typed)
          /\ UNCHANGED <<history, vault, historyMarker>>
          /\ vaultMarker' = vaultMarker \cup {r.name}
      BY <1>0, <1>11 DEF MarkVault, Fault
    <2>2. proc'[p].stage = "running"
      BY <1>0, <2>1 DEF VaultOpened, Record
    <2> QED BY <2>1, <2>2 DEF MarksWhat
  <1>12. CASE ClosePasswords(p)
    <2>1. r.stage = "running" /\ UNCHANGED disk /\ proc'[p].stage = r.stage
      BY <1>0, <1>12 DEF ClosePasswords, Record
    <2> QED BY <1>1, <2>1
  <1>13. CASE End(p)
    <2>1. /\ r.stage \notin {"marking", "vault_marking"} /\ UNCHANGED disk
          /\ proc'[p].stage = "ended"
      BY <1>0, <1>13 DEF End, Fault, Ended
    <2> QED BY <1>1, <2>1
  <1>14. ASSUME NEW line \in Lines, Main(p, line) PROVE MarksWhat(p)
    BY <1>2, <1>3, <1>14, MainLaunches
  <1> QED BY <1>4, <1>5, <1>6, <1>7, <1>8, <1>9, <1>10, <1>11, <1>12, <1>13, <1>14 DEF Step

(* Every step keeps it.                                                    *)
LEMMA NextMarkedInv == MarkedInv /\ [Next]_vars => MarkedInv'
  <1> SUFFICES ASSUME MarkedInv, [Next]_vars PROVE MarkedInv'
    OBVIOUS
  <1>1. IInv /\ IInv'
    BY NextIInv DEF MarkedInv
  <1>2. ASSUME NEW p \in Procs, Step(p), faults' = {} PROVE Marked' /\ UnlocksMarked'
    <2>1. PICK r : Makes(p, r)
      BY <1>1, <1>2, StepMakes
    <2>2. Marked /\ UnlocksMarked
      BY <1>2, StepFaults DEF MarkedInv, Worse
    <2> QED BY <1>1, <1>2, <2>1, <2>2, StepMarks, MarksKeepMarked
  <1>3. CASE UNCHANGED vars
    BY <1>1, <1>3
       DEF vars, MarkedInv, Marked, UnlocksMarked, HistoryMarked, VaultMarked
  <1> QED BY <1>1, <1>2, <1>3 DEF Next, MarkedInv

(* It holds before the first launch.                                       *)
LEMMA InitMarkedInv == Init => MarkedInv
  <1> SUFFICES ASSUME Init PROVE MarkedInv
    OBVIOUS
  <1>1. Marked
    BY UnlockAssumption DEF Init, Marked
  <1>2. UnlocksMarked
    BY DEF Init, UnlocksMarked, Ended
  <1> QED BY <1>1, <1>2, InitIInv DEF MarkedInv

(* Unless something failed or a process died in the middle of setting a    *)
(* passphrase up, every encrypted database is marked or about to be, so    *)
(* the next start of its profile asks for the passphrase.                  *)
THEOREM EncryptedAreMarked == Spec => []EncryptedIsMarked
  <1>1. MarkedInv => EncryptedIsMarked
    BY DEF MarkedInv, Marked, HistoryMarked, VaultMarked, EncryptedIsMarked
  <1> QED BY InitMarkedInv, NextMarkedInv, <1>1, PTL DEF Spec

-----------------------------------------------------------------------------
(* A window of a profile is started for that profile, asks to set a        *)
(* passphrase up when that was ticked, and is not private: the name the    *)
(* profile page passes on comes back as the profile's, whatever it is,     *)
(* unless it is spelled like a flag (launch_new_profile_process,           *)
(* launch_new_encrypted_profile_process).                                  *)
THEOREM StartedOpensItsProfile ==
  ASSUME NEW p \in Procs, NEW n \in Safe \ Flags
  PROVE  /\ Main(p, Started(n)) => Launch(p, n, FALSE, FALSE)
         /\ Main(p, StartedEncrypted(n)) => Launch(p, n, FALSE, TRUE)
  <1> DEFINE line == Started(n)
             encrypted == StartedEncrypted(n)
  <1>1. /\ Len(line) = 3 /\ DOMAIN line = 1..3
        /\ line[1] = "program" /\ line[2] = "--profile" /\ line[3] = n
    BY DEF Started
  <1>2. /\ Len(encrypted) = 4 /\ DOMAIN encrypted = 1..4
        /\ encrypted[1] = "program" /\ encrypted[2] = "--profile" /\ encrypted[3] = n
        /\ encrypted[4] = "--setup-passphrase"
    BY DEF Started, StartedEncrypted
  <1> HIDE DEF line, encrypted
  <1>3. /\ "--profile" \in Flags /\ "--setup-passphrase" \in Flags /\ PrivateFlags \subseteq Flags
        /\ "--setup-passphrase" \notin PrivateFlags /\ "--profile" \notin PrivateFlags
        /\ "program" \notin Flags /\ "--profile" \in TwoToken
    BY DEF Flags, TwoToken, PrivateFlags
  <1>4. ASSUME NEW l, Len(l) \in {3, 4}, DOMAIN l = 1..Len(l), l[1] = "program",
               l[2] = "--profile", l[3] = n, Len(l) = 4 => l[4] = "--setup-passphrase"
        PROVE  /\ ~HasUrl(l) /\ ResolveProfileName(l) = n /\ ~ResolveEphemeralRequested(l)
    <2>1. IsValue(l)[3]
      <3> DEFINE Body(f) == [i \in DOMAIN l |-> i > 2 /\ l[i - 1] \in TwoToken /\ ~f[i - 1]]
                 g == [i \in DOMAIN l |-> i = 3]
      <3>1. g = Body(g)
        <4>1. \A i \in DOMAIN l : g[i] <=> i = 3
          OBVIOUS
        <4> HIDE DEF g
        <4>2. ASSUME NEW i \in DOMAIN l
              PROVE  i = 3 <=> i > 2 /\ l[i - 1] \in TwoToken /\ ~g[i - 1]
          <5>1. i \in 1..4 /\ 1 \in DOMAIN l /\ 2 \in DOMAIN l /\ 3 \in DOMAIN l
            BY <1>4, <4>2
          <5>2. CASE i = 3
            <6>1. i - 1 = 2 /\ ~g[2]
              BY <5>1, <5>2, <4>1
            <6> QED BY <5>2, <6>1, <1>4, <1>3
          <5>3. CASE i = 4
            <6>1. i - 1 = 3 /\ g[3]
              BY <5>1, <5>3, <4>1
            <6> QED BY <5>3, <6>1
          <5>4. CASE i \in {1, 2}
            BY <5>4
          <5> QED BY <5>1, <5>2, <5>3, <5>4
        <4>3. Body(g) = [i \in DOMAIN l |-> i = 3]
          BY <4>2, Zenon
        <4> QED BY <4>3 DEF g
      <3> HIDE DEF g
      <3>2. LET f == CHOOSE f : f = Body(f) IN f = Body(f)
        BY <3>1
      <3>3. IsValue(l) = Body(IsValue(l))
        BY <3>2 DEF IsValue
      <3>4. \A i \in DOMAIN l : IsValue(l)[i] <=> Body(IsValue(l))[i]
        BY <3>3
      <3>5. \A i \in DOMAIN l :
              IsValue(l)[i] <=> i > 2 /\ l[i - 1] \in TwoToken /\ ~IsValue(l)[i - 1]
        BY <3>4, Zenon
      <3>6. 2 \in DOMAIN l /\ 3 \in DOMAIN l /\ 3 - 1 = 2 /\ ~(2 > 2) /\ 3 > 2
        BY <1>4
      <3>7. ~IsValue(l)[2]
        BY <3>5, <3>6
      <3> QED BY <3>5, <3>6, <3>7, <1>4, <1>3
    <2>2. ~HasUrl(l)
      BY <2>1, <1>4, <1>3 DEF HasUrl
    <2>3. ResolveProfileName(l) = n
      BY <1>4, <1>3 DEF ResolveProfileName
    <2>4. ~ResolveEphemeralRequested(l)
      BY <1>4, <1>3 DEF ResolveEphemeralRequested, Tokens
    <2> QED BY <2>2, <2>3, <2>4
  <1>5. /\ ~ResolvePassphraseSetupRequested(line) /\ ResolvePassphraseSetupRequested(encrypted)
    BY <1>1, <1>2, <1>3 DEF ResolvePassphraseSetupRequested, Tokens
  <1>6. /\ ~HasUrl(line) /\ ResolveProfileName(line) = n /\ ~ResolveEphemeralRequested(line)
    BY <1>1, <1>4
  <1>7. /\ ~HasUrl(encrypted) /\ ResolveProfileName(encrypted) = n
        /\ ~ResolveEphemeralRequested(encrypted)
    BY <1>2, <1>4
  <1>8. ProfileNew(n) = n
    BY DEF ProfileNew
  <1>9. /\ ResolveEphemeralRequested(line) = FALSE
        /\ ResolveEphemeralRequested(encrypted) = FALSE
        /\ ResolvePassphraseSetupRequested(line) = FALSE
        /\ ResolvePassphraseSetupRequested(encrypted) = TRUE
    BY <1>5, <1>6, <1>7 DEF ResolveEphemeralRequested, ResolvePassphraseSetupRequested
  <1>10. /\ Main(p, line) => Launch(p, n, FALSE, FALSE)
         /\ Main(p, encrypted) => Launch(p, n, FALSE, TRUE)
    BY <1>6, <1>7, <1>8, <1>9 DEF Main
  <1> QED BY <1>10 DEF line, encrypted

=============================================================================
