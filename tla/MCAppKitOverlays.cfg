SPECIFICATION Spec
CHECK_DEADLOCK FALSE
CONSTANTS
  NoRow = NoRow
  NoText = NoText
  NoAction = NoAction
  NoChord = NoChord
  home = home
  away = away
  reload = reload
  key1 = key1
  key2 = key2
  old = old
  new = new
  Urls <- MCUrls
  StartPage = home
  Visited <- MCVisited
  Actions <- MCActions
  Chords <- MCChords
  KeyEquivalent <- MCKeyEquivalent
  Contents <- MCContents
  Site <- MCSite
  MaxPages = 2
  MaxLogins = 2
CONSTRAINT OneSubject
VIEW MCView
INVARIANTS
  TilesAreLive
  ToolbarTells
PROPERTIES
  VaultChangesAreShown
  TilesAreNew
