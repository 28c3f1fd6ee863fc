SPECIFICATION CacheSpec
CONSTANTS
  Tasks = {t1, t2}
  Apis = {people_get}
  Params = {1, 2}
  Error = Error
  Ttl = 2
  MaxEntries = 1
  MaxClock = 2
  MaxVersion = 1
INVARIANT CacheTypeOK
PROPERTY CacheIsTransparent
