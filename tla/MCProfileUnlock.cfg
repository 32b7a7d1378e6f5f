SPECIFICATION Spec
CONSTANTS
  Procs = {p1, p2}
  Safe <- MCSafe
  Names <- MCNames
  Typed <- MCTyped
  Private = "Private Browsing"
  Passphrases = {a, b}
SYMMETRY Symmetry
INVARIANTS
  OnePassphraseUnlessError
  EncryptedIsMarked
