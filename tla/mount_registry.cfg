SPECIFICATION PlanSpec
CONSTANTS
  Home <- MCHome
  SandboxCopies <- MCSandbox
  Runtime <- MCRuntime
  ClaudeDir <- NoDir
  Binary <- MCBinary
  ProjectDirs <- MCProjects
  MainRepo <- MCMainRepo
  HostFiles <- MCHostFiles
  Missing = {}
  EnvFiles <- MCEnvFiles
  LocalConfig = ".devsandbox.toml"
  SkippedNames = {"node_modules", ".git", "vendor", ".venv"}
  EnvDepth = 3
  SystemLists <- MCSystemLists
  CACertPath <- MCCACertPath
  ContainerHome <- MCContainerHome
  HostMise <- MCHostMise
  ShadowDir = "shadow"
  CacheVolume <- MCCache
  CacheDir <- MCCache
  Manifest <- MCManifest
  ManifestPath <- MCManifest
  CACert <- MCManifest
  ContainerCA <- MCContainerCA
  RuleSets <- NoRules
  ToolSets <- ZshHost
  Options <- MCOptions
  CoreVars = {"HOME", "PATH"}
  ToolVars = {"TMPDIR"}
  ProxyVars = {"HTTP_PROXY", "NO_PROXY"}
  CAVars = {"SSL_CERT_FILE"}
  DefaultVar = "MISE_TIMEOUT"
INVARIANTS
  ToolsAgree
CHECK_DEADLOCK FALSE
