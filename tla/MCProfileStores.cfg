SPECIFICATION Spec
CONSTANTS
  w1 = w1
  w2 = w2
  p = p
  google = google
  bing = bing
  close = close
  key1 = key1
  key2 = key2
  Nothing = Nothing
  Torn = Torn
  Windows <- MCWindows
  Private <- MCPrivate
  Names <- MCNames
  Offered <- MCOffered
  Actions <- MCActions
  Chords <- MCChords
  Preset <- MCPreset
  MaxOpen = 2
  MaxPages = 2
  Urls = {home, away}
INVARIANTS
  TypeOK
  LastSaveStands
PROPERTIES
  OnlyStalePagesLose
