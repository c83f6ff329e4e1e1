SPECIFICATION ToolsSpec
CONSTANTS
  Vars = {"x", "y"}
  Abs = {"/a", "/b"}
  Lits = {"w"}
  Scripts <- MCScripts
  Dirs <- MCDirs
  Workdirs <- MCWorkdirs
  HostOf <- MCHostOf
  V4 <- MCV4
  Inner <- MCInner
  Fds = {0, 1, 3}
  MaxRedirs = 3
  MaxCommands = 3
  Concurrency = 2
  LogLimit = 5
  MaxBytes = 14
  Seconds = {3, 6, 8, 13}
  Newlines = {1, 4, 9, 10, 14}
  LineCounts = {1, 2}
  ByteCounts = {0, 1, 2, 4}
  MaxRead = 4
  h1 = h1
  h2 = h2
  j1 = j1
  j2 = j2
  j3 = j3
  Hosts = {h1, h2}
  Jobs = {j1, j2, j3}
  SharedTmp = TRUE
  MaxLive = 1
  MaxDone = 1
  MaxEnds = 1
  RgFiles = {1, 2}
  MaxLines = 4
  BufCells = 5
  FetchLimit = 3
  Limit = 1
  MaxShown = 2
  MaxText = 2
  MaxFiles = 25
  Docs = {d1, d2, d3}
  Prefixed = {d1, d2}
  Limits = {4}
  MaxWrites = 1
  FirstKinds = {"plain", "big", "secret", "alias", "linky", "linkout"}
  LastKinds = {"plain", "binary", "hidden", "secret", "alias", "linksecret", "linkdead", "fifo", "locked"}
  MaxFound = 2
  MaxHits = 1
  ByteCap = 2
  MaxChanges = 1
  MaxOut = 4
  ShowLimit = 1
  KeepLimit = 2
  Names = {"n"}
  MaxRedirects = 3
INVARIANTS
  OmissionIsTold
  StoredIsFit
  EveryWordIsScreened
  
  AuditTells
  SecretStays
  TailIsNewest
  
  PagesPartition
  SearchIsFair
  GitStaysInside
  DialsAreChecked
CHECK_DEADLOCK FALSE
