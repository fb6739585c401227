SPECIFICATION RequestSpec
CONSTANTS
  q1 = q1
  q2 = q2
  h1 = h1
  h2 = h2
  Reqs = {q1, q2}
  Hosts = {h1, h2}
  Kinds <- MCKinds
  Secrets <- MCSecrets
  Configs <- MCConfigs
  NoKind = NoKind
  NoRule = NoRule
  NoAnswer = NoAnswer
INVARIANTS
  RememberedOnlyForPrompts
CHECK_DEADLOCK FALSE
