SPECIFICATION Spec
CONSTANTS
  NoPage = NoPage
  Unlimited = Unlimited
  NoUrl = NoUrl
  Blank = Blank
  NoWeb = NoWeb
  home = home
  away = away
  StartPage = home
  HomeUrl = home
  Urls <- MCUrls
  Limits <- MCLimits
  MaxPages = 2
  MaxAsked = 1
CONSTRAINT OneUrlWithRequests
VIEW MCView
INVARIANTS
  TypeOK
  ControlsFollowPages
  NeverEmpty
PROPERTIES
  RefinesTabs
  UrlsAreKept
  PopupsAreHandedOver
