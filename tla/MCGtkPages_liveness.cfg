SPECIFICATION FairSpec
CONSTANTS
  NoPage = NoPage
  Unlimited = Unlimited
  NoUrl = NoUrl
  home = home
  away = away
  StartPage = home
  Urls <- MCUrls
  Limits <- MCLimits
  MaxPages = 2
PROPERTIES
  QuitEnds
