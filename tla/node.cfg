\* A chain of two steps over two attempts, one job on an agent with two
\* goroutines, one host added twice, one outage; one crash of a kind.
CONSTANTS
  Chain <- MigAndGate
  Edits = {"e1", "missing"}
  MaxAttempts = 2
  MaxResumes = 1
  MaxCrashes = 1
  AgentJobs = {j1}
  Goroutines = {1, 2}
  Capacity = 2
  MaxJobResumes = 1
  MaxControls = 1
  MaxNodeCrashes = 1
  MaxAdds = 2
  MaxTries = 2
  MaxBoots = 2
  MaxLosses = 1
  MaxFalls = 1
  MaxErrors = 1
  Interval = 6
  Timeout = 2
  FirstBackoff = 1
  LastBackoff = 8
  StaleAfter = 12
  ScanEvery = 6
  MaxOutages = 1
SPECIFICATION NodeSpec
INVARIANTS
  PatchDescribesWorkspace SlotsConserved MaintenanceExclusive ExecutionUndisturbed
   

  
CHECK_DEADLOCK FALSE
