----------------------------- MODULE CommandLine -----------------------------
(***************************************************************************)
(* What a process learns from the command line it was started with: the    *)
(* resolve_* functions of browser-core's profile.rs, and the command lines *)
(* with which the profile page of one window starts another.               *)
(*                                                                         *)
(* A line is a sequence of tokens, the program first.  The single-token    *)
(* form --profile=NAME and empty tokens are left out.                      *)
(***************************************************************************)
EXTENDS Naturals, Sequences

CONSTANTS
  Safe      (* names a directory of the profiles can have *)

ASSUME CommandLineAssumption == "default" \in Safe

TwoToken == {"--profile", "--app-id", "--test-command-socket", "--test-command-port"}
PrivateFlags == {"--incognito", "--private", "--guest"}
Flags == TwoToken \cup PrivateFlags \cup {"--setup-passphrase"}

Tokens(line) == {line[i] : i \in DOMAIN line}

-----------------------------------------------------------------------------
(* The tokens that are the value of the flag before them.                  *)
IsValue(line) ==
  LET taken[i \in DOMAIN line] == i > 2 /\ line[i - 1] \in TwoToken /\ ~taken[i - 1]
  IN taken

(* resolve_url_argument finds something: a token after the program that is *)
(* neither a flag nor the value of one.                                    *)
HasUrl(line) ==
  \E i \in DOMAIN line : i > 1 /\ line[i] \notin Flags /\ ~IsValue(line)[i]

(* What follows the first --profile.                                       *)
ResolveProfileName(line) ==
  LET at == {i \in DOMAIN line : line[i] = "--profile" /\ i < Len(line)}
      first == CHOOSE i \in at : \A j \in at : i =< j
  IN IF at = {} THEN "default" ELSE line[first + 1]

(* Any token, the name given to --profile as well.                         *)
ResolveEphemeralRequested(line) == Tokens(line) \cap PrivateFlags # {}
ResolvePassphraseSetupRequested(line) == "--setup-passphrase" \in Tokens(line)

(* Profile::new: a name that is no directory's becomes the default one.    *)
ProfileNew(name) == IF name \in Safe THEN name ELSE "default"

-----------------------------------------------------------------------------
(* launch_new_profile_process, launch_new_encrypted_profile_process and    *)
(* launch_new_ephemeral_process.                                           *)
Started(name) == <<"program", "--profile", name>>
StartedEncrypted(name) == Append(Started(name), "--setup-passphrase")
StartedPrivate == <<"program", "--incognito">>
=============================================================================
