SPECIFICATION Spec
CONSTANTS
  p1 = p1
  p2 = p2
  Blank = Blank
  NoCall = NoCall
  Passwords <- MCPasswords
  Typed <- MCTyped
  Saved <- MCSaved
  SavedInBitwarden <- MCSavedInBitwarden
  MaxId = 1
  MaxCalls = 2
INVARIANTS
  TypeOK
  PasswordsStayTheirs
  DeletedStayDeleted
