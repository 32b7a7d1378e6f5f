SPECIFICATION Spec
CHECK_DEADLOCK FALSE
CONSTRAINT OneSubject
VIEW ChromeView
CONSTANTS
  Blank = Blank
  home = home
  settings = settings
  vault = vault
  Urls <- MCUrls
  StartPage = home
  SettingsPage = settings
  PasswordsPage = vault
  SavedLogins <- MCSavedLogins
  MaxPages = 2
  MaxBookmarks = 1
INVARIANTS
  TypeOK
  NeverLeftInsensitive
  TitlesAreLive
PROPERTIES
  AloneNoConflict
  StarOutdatedByMoves
