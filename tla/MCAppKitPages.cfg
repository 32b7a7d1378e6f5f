SPECIFICATION Spec
CONSTANTS
  NoPage = NoPage
  Unlimited = Unlimited
  NoUrl = NoUrl
  home = home
  away = away
  StartPage = home
  HomeUrl = home
  Urls <- MCUrls
  Limits <- MCLimits
  MaxPages = 3
INVARIANTS
  TypeOK
  WebviewsFollowPages
PROPERTIES
  RefinesTabs
  RestoreIsFaithful
