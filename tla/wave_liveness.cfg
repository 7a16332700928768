\* Two runs of a wave that end together, or are recovered.
CONSTANTS
  w1 = w1
  w2 = w2
  r1 = r1
  r2 = r2
  repo1 = repo1
  repo2 = repo2
  h1 = h1
  h2 = h2
  h3 = h3
  n1 = n1
  n2 = n2
  c1 = c1
  c2 = c2
  N = 1
  Nodes = {n1}
  NoNode = NoNode
  Commits = {c1}
  NoSha = NoSha
  Sha0 = c1
  GateSteps = {}
  Waves = {w1}
  Runs = {r1, r2}
  Repos = {repo1, repo2}
  WaveOf <- OneWaveTwoRuns
  RepoOf <- TwoRepos
  Handlers = {h1, h2}
  Recovery = Recovery
  MaxAttempt = 1
  MaxResume = 0
  Ops = {"create", "claim", "complete", "recover"}
SPECIFICATION FairSpec
INVARIANTS
  EndedWaveIsSettled
PROPERTIES
  LifecycleProgress
CHECK_DEADLOCK FALSE
