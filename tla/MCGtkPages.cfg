SPECIFICATION Spec
CONSTANTS
  NoPage = NoPage
  Unlimited = Unlimited
  NoUrl = NoUrl
  home = home
  away = away
  StartPage = home
  Urls <- MCUrls
  Limits <- MCLimits
  MaxPages = 3
INVARIANTS
  TypeOK
  OpenPagesSaved
  WindowFollowsPages
PROPERTIES
  UnloadingKeepsUrl
  RestoreKeepsOtherTabs
VIEW MCView
