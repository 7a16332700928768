\* One run, restarted and cancelled, without the recovery task.
CONSTANTS
  w1 = w1
  w2 = w2
  r1 = r1
  r2 = r2
  repo1 = repo1
  repo2 = repo2
  h1 = h1
  h2 = h2
  h3 = h3
  n1 = n1
  n2 = n2
  c1 = c1
  c2 = c2
  N = 2
  Nodes = {n1}
  NoNode = NoNode
  Commits = {c1}
  NoSha = NoSha
  Sha0 = c1
  GateSteps = {1}
  Waves = {w1}
  Runs = {r1}
  Repos = {repo1}
  WaveOf <- OneWaveOneRun
  RepoOf <- OneRepo
  Handlers = {h1, h2}
  Recovery = Recovery
  MaxAttempt = 2
  MaxResume = 1
  Ops = {"create", "claim", "complete", "restart", "resume", "cancelRun", "cancelWave", "drain"}
SPECIFICATION Spec
SYMMETRY Symmetry
INVARIANTS
  TerminalRunIsSettled
CHECK_DEADLOCK FALSE
