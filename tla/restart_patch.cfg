\* Two code-change steps, restarted once.
CONSTANTS
  Chain <- TwoMigs
  Edits = {"e1", "missing"}
  MaxAttempts = 2
  MaxResumes = 0
  MaxCrashes = 0
  AgentJobs = {j1}
  Goroutines = {1, 2}
  Capacity = 2
  MaxJobResumes = 1
  MaxControls = 1
  MaxNodeCrashes = 1
  MaxAdds = 2
  MaxTries = 2
  MaxBoots = 2
  MaxLosses = 1
  MaxFalls = 1
  MaxErrors = 1
  Interval = 6
  Timeout = 2
  FirstBackoff = 1
  LastBackoff = 8
  StaleAfter = 12
  ScanEvery = 6
  MaxOutages = 1
SPECIFICATION NodeSpec
INVARIANTS PatchAppliesToSource
CHECK_DEADLOCK FALSE
