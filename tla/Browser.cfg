SPECIFICATION FairSpec
CONSTANTS
  Pages = {home, list}
  None = None
  CacheSize = 1
  Fetches = {f1, f2}
  MaxWaiting = 2
  MaxEpoch = 1
INVARIANTS
  TypeOK
  ShownIsAddressed
  CacheIsTrue
  FreshCache
  PrefetchesInFlight
  OneFetchPerPage
PROPERTY
  NewsIsShown
