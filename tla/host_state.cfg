SPECIFICATION HostStateSpec
CONSTANTS
  l1 = l1
  l2 = l2
  client = client
  Launches = {l1, l2}
  Clients = {client}
  Names <- MCNames
  AskedNames <- MCAskedNames
  AutoPorts = {8080}
  AskedPorts = {3000}
  NoEntry = NoEntry
  NoName = NoName
  NoPort = NoPort

  u1 = u1
  u2 = u2
  e1 = e1
  e2 = e2
  envFile = envFile
  Users = {u1, u2}
  Settings <- MCSettings
  Earlier = Earlier
  NoCtr = NoCtr
  NoNet = NoNet

  m1 = m1
  m2 = m2
  ba = ba
  bb = bb
  sweeper = sweeper
  Makers = {m1, m2}
  Sweepers = {sweeper}
  Branches = {ba, bb}
  NoBranch = NoBranch

  Rels <- MCRels
  WalkOrder <- MCWalkOrder
  Layers = 2
  MaxRuns = 2

  s1 = s1
  c1 = c1
  c2 = c2
  i1 = i1
  i2 = i2
  userPane = userPane
  pane = pane
  Sessions = {s1}
  Conns = {c1, c2}
  SessionOf <- MCSessionOf
  Ids = {i1, i2}
  SendChoices <- MCSendChoices
  Panes = {userPane, pane}
  UserPanes = {userPane}
  MaxInFlight = 2
  NoPane = NoPane
  NoReq = NoReq
  NoBody = NoBody

  q1 = q1
  q2 = q2
  h1 = h1
  h2 = h2
  Reqs = {q1, q2}
  Hosts = {h1, h2}
  Kinds <- MCKinds
  Secrets <- MCSecrets
  Configs <- MCConfigs
  NoKind = NoKind
  NoRule = NoRule
  NoAnswer = NoAnswer

  Home <- MCHome
  SandboxCopies <- MCSandbox
  Runtime <- MCRuntime
  ClaudeDir <- NoDir
  Binary <- MCBinary
  ProjectDirs <- MCProjects
  MainRepo <- MCMainRepo
  HostFiles <- MCHostFiles
  Missing = {}
  EnvFiles <- MCEnvFiles
  LocalConfig = ".devsandbox.toml"
  SkippedNames = {"node_modules", ".git", "vendor", ".venv"}
  EnvDepth = 3
  SystemLists <- MCSystemLists
  CACertPath <- MCCACertPath
  ContainerHome <- MCContainerHome
  HostMise <- MCHostMise
  ShadowDir = "shadow"
  CacheVolume <- MCCache
  CacheDir <- MCCache
  Manifest <- MCManifest
  ManifestPath <- MCManifest
  CACert <- MCManifest
  ContainerCA <- MCContainerCA
  RuleSets <- MCRuleSets
  ToolSets <- MCToolSets
  Options <- MCOptions
  CoreVars = {"HOME", "PATH"}
  ToolVars = {"TMPDIR"}
  ProxyVars = {"HTTP_PROXY", "NO_PROXY"}
  CAVars = {"SSL_CERT_FILE"}
  DefaultVar = "MISE_TIMEOUT"

INVARIANTS
  HostStateTypeOK
  
  WorkloadPlace
  
  
  
  PlanAsConfigured
  
  ContainerCanBeMade
PROPERTIES
  
  LiveTreeKept
CHECK_DEADLOCK FALSE
