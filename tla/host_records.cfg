CONSTANTS
  s1 = s1
  s2 = s2
  None = None
  Session = {s1, s2}
  Mortal = {s1}
  Starved = {s2}
  MaxSize = 2
  MaxFiles = 2
  MaxRotateAttempts = 2
  MaxIndex = 2
  Copies = 2
  Quota <- MCQuota
  ViewQuota <- MCViewQuota
  Matching <- MCMatching
  Limit = 2

  w1 = w1
  w2 = w2
  Watched = {w1, w2}
  KillLimit <- MCKillLimit
  NoRecord = NoRecord

  OutboundLists <- MCOutboundLists
  Statuses = {0, 78, 137}
  LookupFailed = 127

  t1 = t1
  t2 = t2
  d1 = d1
  d2 = d2
  Loaders = {t1, t2}
  Projects = {d1, d2}
  LocalFiles <- MCLocalFiles
  Globals <- MCGlobals
  Includes <- MCIncludes
  NoFile = NoFile
  Edits = 1

  v1 = v1
  v2 = v2
  HomePaths <- MCHomePaths
  XdgDirs <- MCXdgDirs
  Overlays <- MCOverlays
  Shared <- MCShared
  MountSets <- MCMountSets
  Ships <- MCShips
  Dangling <- MCDangling
  HostMises = {"absent", "m1"}
  GuestSteps = 1
  Boots = 2

  Boxes = {"boxed", "pad"}
  InDocker = {"boxed"}
  Scratchpads = {"boxed", "pad"}
  Used <- MCUsed
  OldRank = 2
  PruneOptions <- MCPruneOptions
  StartLimit = 2
SPECIFICATION RecordsSpec
INVARIANTS RecordsTypeOK WritersApart EntriesKept   AppliedAsApproved   
PROPERTIES ArchiveBeforeUnlink
CHECK_DEADLOCK FALSE
