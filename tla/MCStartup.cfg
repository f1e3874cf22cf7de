CONSTANTS
  Run = {r1, r2}
  None = None
  Foreign = Foreign
  Absent = Absent
  Null = Null
  NotString = NotString
  Lower <- MCLower
  Identifier <- MCIdentifier
  OwnerName = {"acme"}
  RepositoryName = {"app", "APP", "lib", "x.git"}
  GiteaName = {"acme", "a.b", "app", "APP", "lib", "x.git"}
  DotGit = {"x.git"}
  SSHUserName = {"git", "gitea"}
  TokenEnvName <- MCTokenEnv
  Host <- MCHost
  Ref = {"refs/heads/main"}
  ValidToken = {"rw1_a", "rw1_b", "rw1_old"}
  Controls <- MCControls
  Scenarios <- MCScenarios
  Fresh <- MCFresh
  Requests <- MCRequests
SPECIFICATION Spec
INVARIANTS ServedAsConfigured SecretsStayHome CertificatesHold
CHECK_DEADLOCK FALSE
