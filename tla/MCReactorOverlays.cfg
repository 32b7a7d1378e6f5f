SPECIFICATION Spec
CONSTANTS
  NoRow = NoRow
  NoText = NoText
  NoAction = NoAction
  Unlimited = Unlimited
  home = home
  away = away
  key1 = key1
  key2 = key2
  Urls <- MCUrls
  Visited <- MCVisited
  Engines = 1
  Limits <- MCLimits
  Actions = {"ClosePage"}
  Chords <- MCChords
  MaxPages = 3
  MaxUnseen = 1
CONSTRAINT OneSubject
INVARIANTS
  RenderIsDue
PROPERTIES
  OnlyTheShownPageCloses
