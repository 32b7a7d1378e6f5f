--------------------------- MODULE MCProfileUnlock ---------------------------
(* ProfileUnlock for TLC: processes and passphrases are interchangeable,    *)
(* profiles are not, since one is the default and one the private name.    *)
EXTENDS ProfileUnlock, TLC

Symmetry == Permutations(Procs) \cup Permutations(Passphrases)

(* The name "--private" is taken for the flag by the process started with  *)
(* it, so it never gets to name a directory and need not be safe.          *)
MCSafe == {"default", "Private Browsing"}
MCNames == MCSafe \cup {"..", "--private"}
MCTyped ==
  {<<"program">>, <<"program", "--app-id">>, <<"program", "--profile">>,
   <<"program", "https://example.org">>,
   <<"program", "--app-id", "https://example.org">>,
   <<"program", "--incognito", "--setup-passphrase">>,
   <<"program", "--incognito", "--profile", "default", "https://example.org">>}
=============================================================================
