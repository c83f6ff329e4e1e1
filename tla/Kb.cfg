SPECIFICATION MCSpec
CONSTANTS
  f1 = f1
  f2 = f2
  f3 = f3
  b1 = b1
  b2 = b2
  Calls = {f1, f2, f3}
  BatchOf <- MCBatchOf
  Slots = 1
  Kinds = {"normal", "force", "direct"}
  MaxVersion = 3
  Secret = {2}
  MaxPurges = 1
  Cancellable = {b1}
  Failures = {"net", "read", "tx", "secure", "row", "delete"}
  Searches = {s1, s2}
  MaxTree = 1
  MaxClock = 1
  DirtyTTL = 1
  ReuseTTL = 1
  MaxEntries = 1
  Breaks = {"rg", "index"}
INVARIANTS
  NotCancelledByOthers
  DirtyStateIsRecent
  IndexedIsSearchable
PROPERTIES
  HitIsBacked
  RefusedNotStored
  RowNeverGoesBack
  AllReturn
