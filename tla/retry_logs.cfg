\* One line of output in each of two executions of a job.
CONSTANTS
  Publishers = {p1, p2}
  Clients = {cl1}
  BufferSize = 1
  HistorySize = 1
  MaxEvents = 2
  MaxSubs = 2
  MaxResume = 1
  LogLines <- OneLineEach
  SoftLimit = 2
  LogRetries = 1
  MaxNetFaults = 1
  Texts <- DistinctTexts
  MaxSeconds = 1
  MaxRetries = 2
  FirstDelay = 250
  LastDelay = 1000
  MaxIDs = 2
  FollowJobs = {j1, j2}
  PollRetries = 1
  MaxTrackers = 2
  RenewBefore = 1
  Validity = 2
  RunTime = 1
  MaxFailures = 1
  Clock = 4
  CatalogRepos = {repo1}
  Requests = {q1, q2}
  TrackedRefs <- BothTracked
  MaxCancels = 1
  MaxGitFaults = 1
SPECIFICATION ServerSpec
INVARIANTS RetryLogsAccepted
CHECK_DEADLOCK FALSE
