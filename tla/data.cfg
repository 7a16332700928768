\* Two callers and two migs, two maintainers, two runs with tokens, two
\* uploaders, two operators, two hydrations; small inputs of each kind.
CONSTANTS
  MigIDs = {1, 2}
  Urls = {"u1", "u2"}
  Bodies <- TwoBodies
  Imports <- OneImport
  Callers = {c1, c2}
  MaxCalls = 3
  PageSize = 1
  MaxRuns = 2
  Maintainers = {m1, m2}
  MaxDecisions = 2
  MaxRevision = 4
  KeepCount = 2
  Uploads <- ThreeUploads
  TokenRuns = {"r1", "r2"}
  Hashes = {"h1", "h2"}
  TokenCallers = {t1, t2}
  MaxRestarts = 1
  MaxReboots = 1
  ChainJobs <- TwoJobs
  Archivers = {"j2"}
  Contents = {"c1"}
  Uploaders = {u1, u2}
  MaxUploads = 2
  MaxSweeps = 1
  MaxFaults = 1
  Operators = {o1, o2}
  EnvValues = {"v1", "v2"}
  MaxCommands = 2
  MaxEnvFaults = 1
  Hydrations = {h1, h2}
  MaxHydrationCancels = 1
  MaxHydrationFaults = 1
  MaxHydrationCrashes = 1
  MaxPublished = 3
  Workspaces <- MCWorkspaces
  GateSpecs <- MCGateSpecs
  GateWorkspaces <- MCGateWorkspaces
  Catalogs <- MCCatalogs
  MaxGates = 2
  Trees <- MCTrees
  TreeHome <- MCHome
  Submissions <- MCSubmissions
  Reports <- MCReports
SPECIFICATION DataSpec
INVARIANTS
   RecordsKept TokensFollowRuns  EnvConsistent 
    CompilationSound  ReportsSound
CHECK_DEADLOCK FALSE
