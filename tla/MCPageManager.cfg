SPECIFICATION Spec
CONSTANTS
  NoPage = NoPage
  Unlimited = Unlimited
  Limits <- MCLimits
  MaxPages = 4
INVARIANTS
  EvictionMatchesLoop
PROPERTIES
  LeastRecentlyUsedFirst
