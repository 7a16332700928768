------------------------ MODULE RunLifecycle_safety -------------------------
(***************************************************************************)
(* The invariant IInv is inductive, for every number of waves, runs,       *)
(* repositories, nodes, steps, handlers and attempts, and what follows     *)
(* from it.                                                                *)
(***************************************************************************)
EXTENDS RunLifecycle_requests

-----------------------------------------------------------------------------
(* The chains of a run                                                     *)

\* Who may change a chain, and how.
ChainChange(r, a) ==
  \/ QuietStep(jobs[r][a], jobs'[r][a])
  \/ \E w \in Waves : /\ CreateWaveWithRuns(w) /\ WaveOf[r] = w /\ a = 1
                      /\ jobs'[r][a] = createPlannedJobs
  \/ \E h \in Handlers : CompleteCommit(h) /\ req[h].run = r /\ req[h].attempt = a
  \/ \E h \in Handlers : /\ RestartCommit(h) /\ RestartFull(h) /\ req[h].run = r
                         /\ a = run[r].attempt + 1 /\ jobs'[r][a] = createPlannedJobs
  \/ \E h \in Handlers, k \in Steps : /\ RestartCommit(h) /\ RestartFromFailed(h, k)
                                      /\ req[h].run = r /\ a = run[r].attempt

\* Every step changes every chain in one of these ways.
LEMMA JobsChange ==
  ASSUME IInv, [Next]_vars, NEW r \in Runs, NEW a \in Attempts
  PROVE  ChainChange(r, a)
<1>0. CASE jobs'[r][a] = jobs[r][a]
  BY <1>0 DEF ChainChange, QuietStep
<1>1. CASE QuietStep(jobs[r][a], jobs'[r][a])
  BY <1>1 DEF ChainChange
<1>2. ASSUME NEW w \in Waves, CreateWaveWithRuns(w)
      PROVE  ChainChange(r, a)
  BY <1>0, <1>2, CreateChains DEF ChainChange
<1>3. ASSUME NEW h \in Handlers, Complete(h)
      PROVE  ChainChange(r, a)
  BY <1>0, <1>3, CompleteChains DEF ChainChange, Complete, CompleteBegin
<1>4. ASSUME NEW h \in Handlers, RestartCommit(h)
      PROVE  ChainChange(r, a)
  <2>1. CASE RestartFull(h)
    <3>1. CASE r = req[h].run /\ a = run[r].attempt
      <4>1. jobs'[r][a] = CancelActiveJobs(jobs[r][a])
        BY <1>4, <2>1, <3>1, RestartFullChains, RestartFinds DEF Attempts
      <4> QED
        BY ZenonT(30), <4>1 DEF ChainChange, QuietStep
    <3>2. CASE r = req[h].run /\ a = run[r].attempt + 1
      <4>1. jobs'[r][a] = createPlannedJobs
        BY ZenonT(30), <1>4, <2>1, <3>2, RestartFullChains, RestartFinds DEF Attempts
      <4> QED
        BY Zenon, <1>4, <2>1, <3>2, <4>1 DEF ChainChange
    <3> QED
      BY <1>0, <1>4, <2>1, <3>1, <3>2, RestartFullChains
  <2>2. ASSUME NEW k \in Steps, RestartFromFailed(h, k)
        PROVE  ChainChange(r, a)
    BY <1>0, <1>4, <2>2, ResumeChains DEF ChainChange
  <2> QED
    BY <1>4, <2>1, <2>2 DEF RestartCommit
<1>5. ASSUME NEW h \in Handlers, RestartRun(h)
      PROVE  ChainChange(r, a)
  BY Zenon, <1>0, <1>4, <1>5 DEF RestartRun, RestartRead, RestartBegin, RestartRefused
<1>6. ASSUME NEW p \in Procs, FinishWave(p) \/ Abort(p)
      PROVE  ChainChange(r, a)
  BY <1>0, <1>6 DEF FinishWave, WaveCount, WaveCheck, WaveWrite, Abort
<1>7. ASSUME NEW n \in Nodes, NEW d \in BOOLEAN, SetNodeDrained(n, d)
      PROVE  ChainChange(r, a)
  BY <1>0, <1>7 DEF SetNodeDrained
<1>8. CASE UNCHANGED vars
  BY <1>0, <1>8 DEF vars
<1> QED
  BY <1>1, <1>2, <1>3, <1>5, <1>6, <1>7, <1>8, ClaimChains, CancelChains, RecoverChains DEF Next

\* Every chain stays in order, with one owner and its commits linked.
LEMMA ChainsKept ==
  ASSUME IInv, [Next]_vars
  PROVE  ChainsOK'
<1> SUFFICES ASSUME NEW r \in Runs, NEW a \in Attempts
             PROVE  ChainOK(jobs'[r][a])
  BY DEF ChainsOK
<1>1. jobs[r][a] \in Chains /\ ChainOK(jobs[r][a])
  BY DEF IInv, TypeOK, ChainsOK
<1> QED
  BY <1>1, JobsStep, ChainStepOK

\* A chain that was not planned is planned by submission or a full restart only.
LEMMA UnplannedKept ==
  ASSUME IInv, [Next]_vars, NEW r \in Runs, NEW a \in Attempts, jobs[r][a] = NoChain
  PROVE  \/ jobs'[r][a] = NoChain
         \/ \E w \in Waves : CreateWaveWithRuns(w) /\ WaveOf[r] = w /\ a = 1
         \/ \E h \in Handlers : /\ RestartCommit(h) /\ RestartFull(h) /\ req[h].run = r
                                /\ a = run[r].attempt + 1
<1>1. \A k \in Steps : jobs[r][a][k].status = "None"
  BY DEF NoChain, NoJob
<1>2. CASE QuietStep(jobs[r][a], jobs'[r][a])
  <2>1. NoChain \in Chains /\ CancelActiveJobs(NoChain) = NoChain
    BY PlannedType, CancelSettles
  <2> QED
    BY <1>1, <1>2, <2>1 DEF QuietStep, Claimable
<1>3. ASSUME NEW h \in Handlers, CompleteCommit(h), req[h].run = r, req[h].attempt = a
      PROVE  FALSE
  <2>1. /\ Completable(jobs[r][a], req[h].step, req[h].status, req[h].sha)
        /\ req[h].step \in Steps
    BY <1>3, CompleteChains DEF CompleteReq
  <2> QED
    BY <1>1, <2>1 DEF Completable
<1>4. ASSUME NEW h \in Handlers, NEW k \in Steps, RestartFromFailed(h, k), req[h].run = r,
             a = run[r].attempt
      PROVE  FALSE
  BY Zenon, <1>1, <1>4 DEF RestartFromFailed, failedJobSuffix
<1> QED
  BY <1>2, <1>3, <1>4, JobsChange DEF ChainChange

\* A run row appears only by submission.
LEMMA RunAbsent ==
  ASSUME IInv, [Next]_vars, NEW r \in Runs, run[r].status = "None",
         \A w \in Waves : CreateWaveWithRuns(w) => WaveOf[r] # w
  PROVE  run'[r] = run[r]
<1> TypeOK /\ RequestsCurrent
  BY DEF IInv
<1>1. ASSUME NEW h \in Handlers, CompleteCommit(h)
      PROVE  req[h].run # r
  <2>1. h \in Procs /\ req[h].op = "complete"
    BY <1>1 DEF Procs, CompleteCommit
  <2> QED
    BY <2>1, HeldExists DEF LockedBy
<1>2. ASSUME NEW h \in Handlers, RestartCommit(h)
      PROVE  req[h].run # r
  BY <1>2, RestartFinds DEF RunTerminal
<1>3. ASSUME NEW h \in Handlers, CancelRunCommit(h)
      PROVE  req[h].run # r
  BY <1>3 DEF CancelRunCommit, RequestsCurrent, RequestOK, Procs
<1>4. ASSUME NEW h \in Handlers, CancelWaveCommit(h)
      PROVE  r \notin req[h].runs
  BY <1>4 DEF CancelWaveCommit, RequestsCurrent, RequestOK, Procs
<1>5. RecoverWriteRun => req[Recovery].run # r
  BY DEF RecoverWriteRun, RequestsCurrent, RequestOK, Procs
<1> QED
  BY Zenon, <1>1, <1>2, <1>3, <1>4, <1>5, RunStep DEF RunChange

\* So does a wave row.
LEMMA WaveAbsent ==
  ASSUME IInv, [Next]_vars, NEW w \in Waves, wave[w] = "None", ~CreateWaveWithRuns(w)
  PROVE  wave'[w] = "None"
<1> TypeOK /\ RequestsCurrent
  BY DEF IInv
<1>1. CASE wave' = wave
  BY <1>1
<1>2. ASSUME NEW v \in Waves, CreateWaveWithRuns(v)
      PROVE  wave'[w] = "None"
  BY Zenon, <1>2 DEF CreateWaveWithRuns, TypeOK
<1>3. ASSUME NEW p \in Procs, FinishWave(p)
      PROVE  wave'[w] = "None"
  <2>1. WaveWrite(p) => req[p].wave # w
    BY DEF WaveWrite, RequestsCurrent, RequestOK
  <2> QED
    BY Zenon, <1>1, <1>3, <2>1 DEF FinishWave, WaveCount, WaveCheck, WaveWrite, TypeOK
<1>4. ASSUME NEW h \in Handlers, RestartRun(h)
      PROVE  wave'[w] = "None"
  <2>1. ASSUME RestartCommit(h)
        PROVE  /\ WaveOf[req[h].run] # w
               /\ wave' \in {wave, [wave EXCEPT ![WaveOf[req[h].run]] = "Started"]}
    <3>1. req[h].run \in Runs /\ run[req[h].run].status # "None"
      BY <2>1, RestartFinds DEF RunTerminal
    <3> QED
      BY ZenonT(30), <2>1, <3>1 DEF IInv, ChainsPlanned, RestartCommit, RestartFull, RestartFromFailed,
                        ReviveWave
  <2> QED
    BY Zenon, <1>1, <1>4, <2>1 DEF RestartRun, RestartRead, RestartBegin, RestartRefused, TypeOK
<1>5. ASSUME NEW h \in Handlers, CancelWave(h)
      PROVE  wave'[w] = "None"
  <2>1. CancelWaveCommit(h) => req[h].wave # w
    BY DEF CancelWaveCommit, RequestsCurrent, RequestOK, Procs
  <2> QED
    BY Zenon, <1>1, <1>5, <2>1 DEF CancelWave, CancelWaveRead, CancelWaveRuns, CancelWaveCommit, TypeOK
<1> QED
  <2>1. ASSUME NEW h \in Handlers, Claim(h) \/ Complete(h) \/ CancelRun(h)
        PROVE  wave' = wave
    BY Zenon, <2>1 DEF Claim, ClaimJob, ClaimDelivered, ClaimPayloadError, ClaimTerminalError,
                ClaimCompletionFailed, UnclaimJob, Complete, CompleteBegin, CompleteCommit,
                CancelRun, CancelRunRead, CancelRunBegin, CancelRunCommit
  <2>2. Recover => wave' = wave
    BY Zenon DEF Recover, ListStaleRunningJobs, RecoverCancelJobs, RecoverCancelFailed,
           RecoverEvalRun, RecoverWriteRun
  <2>3. ASSUME NEW p \in Procs, Abort(p)
        PROVE  wave' = wave
    BY <2>3 DEF Abort
  <2> QED
    BY <1>1, <1>2, <1>3, <1>4, <1>5, <2>1, <2>2, <2>3 DEF Next, vars, SetNodeDrained

\* The attempt of a run only grows, and grows only by a full restart.
LEMMA AttemptStep ==
  ASSUME IInv, [Next]_vars, NEW r \in Runs
  PROVE  \/ run'[r].attempt = run[r].attempt
         \/ /\ run'[r].attempt = run[r].attempt + 1
            /\ \E h \in Handlers : RestartCommit(h) /\ RestartFull(h) /\ req[h].run = r
<1>1. run[r] \in RunRows
  BY DEF IInv, TypeOK
<1>2. \A s : [run[r] EXCEPT !.status = s].attempt = run[r].attempt
  BY <1>1 DEF RunRows
<1>3. \A x : [run[r] EXCEPT !.status = "Running", !.resume = x].attempt = run[r].attempt
  BY <1>1 DEF RunRows
<1>4. [status |-> "Running", attempt |-> run[r].attempt + 1, resume |-> 0].attempt
        = run[r].attempt + 1
  OBVIOUS
<1>5. \/ run'[r].attempt = run[r].attempt
      \/ \E h \in Handlers :
           /\ RestartCommit(h) /\ RestartFull(h) /\ req[h].run = r
           /\ run'[r] = [status |-> "Running", attempt |-> run[r].attempt + 1, resume |-> 0]
  <2>1. RunChange(r)
    BY RunStep
  <2> QED
    BY ZenonT(30), <1>2, <1>3, <2>1, Zenon DEF RunChange
<1> QED
  BY <1>4, <1>5

\* A run has jobs exactly in the attempts it has reached.
LEMMA PlannedKept ==
  ASSUME IInv, [Next]_vars
  PROVE  ChainsPlanned'
<1> TypeOK /\ ChainsPlanned
  BY DEF IInv
<1> SUFFICES ASSUME NEW r \in Runs
             PROVE  /\ wave'[WaveOf[r]] = "None" <=> run'[r].status = "None"
                    /\ run'[r].status = "None" => run'[r].attempt = 1
                    /\ \A a \in Attempts :
                         IF run'[r].status = "None" \/ a > run'[r].attempt
                         THEN jobs'[r][a] = NoChain
                         ELSE \A k \in Steps : jobs'[r][a][k].status # "None"
  BY DEF ChainsPlanned
<1>1. WaveOf[r] \in Waves /\ run[r] \in RunRows
  BY LifecycleAssumption DEF TypeOK
<1>2. run[r].attempt \in Nat /\ run[r].attempt >= 1
  BY <1>1 DEF RunRows, Attempts
<1>3. \A k \in Steps : createPlannedJobs[k].status # "None"
  BY DEF createPlannedJobs, NoJob
<1>4. CASE CreateWaveWithRuns(WaveOf[r])
  <2>1. run[r].status = "None" /\ \A a \in Attempts : jobs[r][a] = NoChain
    BY <1>1, <1>4 DEF CreateWaveWithRuns, ChainsPlanned
  <2>2. run'[r] = [run[r] EXCEPT !.status = "Running"]
    BY <1>4 DEF CreateWaveWithRuns, RunsOf
  <2>3. run'[r].status = "Running" /\ run'[r].attempt = 1 /\ wave'[WaveOf[r]] = "Started"
    BY <1>1, <1>4, <2>1, <2>2 DEF CreateWaveWithRuns, ChainsPlanned, RunRows, TypeOK
  <2>4. \A a \in Attempts : jobs'[r][a] = IF a = 1 THEN createPlannedJobs ELSE NoChain
    BY <1>1, <1>4, <2>1, CreateChains
  <2> QED
    BY <1>3, <2>3, <2>4 DEF Attempts
<1>5. CASE ~CreateWaveWithRuns(WaveOf[r])
  <2>1. \A w \in Waves : CreateWaveWithRuns(w) => WaveOf[r] # w
    BY <1>5
  <2>2. CASE run[r].status = "None"
    <3>1. wave'[WaveOf[r]] = "None" /\ run'[r] = run[r]
      BY ZenonT(30), <1>1, <1>5, <2>1, <2>2, RunAbsent, WaveAbsent DEF ChainsPlanned
    <3>2. \A h \in Handlers : RestartCommit(h) => req[h].run # r
      BY <2>2, RestartFinds DEF RunTerminal
    <3>3. \A a \in Attempts : jobs'[r][a] = NoChain
      BY <2>1, <2>2, <3>2, UnplannedKept DEF ChainsPlanned
    <3> QED
      BY <2>2, <3>1, <3>3 DEF ChainsPlanned
  <2>3. CASE run[r].status # "None"
    <3>1. run'[r].status # "None" /\ wave'[WaveOf[r]] # "None"
      BY <1>1, <2>3, RunKept, WaveKept DEF ChainsPlanned
    <3>2. ASSUME NEW a \in Attempts, a > run'[r].attempt
          PROVE  jobs'[r][a] = NoChain
      <4>2. a > run[r].attempt
        BY <1>2, <3>2, AttemptStep DEF Attempts
      <4>3. jobs[r][a] = NoChain
        BY <4>2 DEF ChainsPlanned
      <4>4. ASSUME NEW h \in Handlers, RestartCommit(h), RestartFull(h), req[h].run = r
            PROVE  run'[r].attempt = run[r].attempt + 1
        BY <4>4 DEF RestartFull, TypeOK
      <4> QED
        BY <1>2, <2>1, <3>2, <4>3, <4>4, UnplannedKept DEF Attempts
    <3>3. ASSUME NEW a \in Attempts, ~(a > run'[r].attempt)
          PROVE  \A k \in Steps : jobs'[r][a][k].status # "None"
      <4>1. CASE ~(a > run[r].attempt)
        <5>1. jobs[r][a] \in Chains /\ ChainOK(jobs[r][a])
          BY DEF IInv, TypeOK, ChainsOK
        <5>2. \A k \in Steps : jobs[r][a][k].status # "None"
          BY <2>3, <4>1 DEF ChainsPlanned
        <5> QED
          BY <5>1, <5>2, JobsStep, InsertedKept
      <4>2. CASE a > run[r].attempt
        <5>1. PICK h \in Handlers : RestartCommit(h) /\ RestartFull(h) /\ req[h].run = r
          BY <1>2, <3>3, <4>2, AttemptStep DEF Attempts
        <5>2. a = run[r].attempt + 1
          BY SMTT(30), <1>2, <3>3, <4>2, AttemptStep DEF Attempts
        <5>3. jobs'[r][a] = createPlannedJobs
          BY <1>2, <5>1, <5>2, RestartFullChains DEF Attempts
        <5> QED
          BY <1>3, <5>3
      <4> QED
        BY <4>1, <4>2
    <3> QED
      BY <3>1, <3>2, <3>3
  <2> QED
    BY <2>2, <2>3
<1> QED
  BY <1>4, <1>5

\* The attempts a run has left behind stay settled.
LEMMA OldAttemptsKept ==
  ASSUME IInv, [Next]_vars
  PROVE  OldAttemptsSettled'
<1> TypeOK /\ ChainsPlanned
  BY DEF IInv
<1> SUFFICES ASSUME NEW r \in Runs, NEW a \in Attempts, a < run'[r].attempt
             PROVE  AllTerminal(jobs'[r][a])
  BY DEF OldAttemptsSettled
<1>1. run[r].attempt \in Nat /\ run[r].attempt >= 1 /\ a \in Nat
  BY DEF TypeOK, RunRows, Attempts
<1>2. CASE a < run[r].attempt
  <2>1. jobs[r][a] \in Chains /\ AllTerminal(jobs[r][a])
    BY <1>2 DEF TypeOK, IInv, OldAttemptsSettled
  <2>2. CASE QuietStep(jobs[r][a], jobs'[r][a])
    BY <2>1, <2>2, QuietFacts DEF AllTerminal
  <2>3. ASSUME NEW w \in Waves, CreateWaveWithRuns(w), WaveOf[r] = w
        PROVE  FALSE
    <3>1. run[r].status = "None"
      BY <2>3 DEF CreateWaveWithRuns, ChainsPlanned
    <3> QED
      BY <1>1, <1>2, <3>1 DEF ChainsPlanned, Attempts
  <2>4. ASSUME NEW h \in Handlers, CompleteCommit(h), req[h].run = r, req[h].attempt = a
        PROVE  FALSE
    <3>1. run[r].attempt = a
      BY <2>4 DEF CompleteCommit, IInv, RequestsCurrent, RequestOK, Procs
    <3> QED
      BY <1>1, <1>2, <3>1
  <2> QED
    BY <1>1, <1>2, <2>2, <2>3, <2>4, JobsChange DEF ChainChange
<1>3. CASE ~(a < run[r].attempt)
  <2>1. PICK h \in Handlers : RestartCommit(h) /\ RestartFull(h) /\ req[h].run = r
    BY <1>1, <1>3, AttemptStep
  <2>2. a = run[r].attempt
    BY <1>1, <1>3, AttemptStep
  <2>3. jobs'[r][a] = CancelActiveJobs(jobs[r][a])
    BY <1>1, <2>1, <2>2, RestartFullChains
  <2>4. run[r].status # "None"
    BY <2>1, RestartFinds DEF RunTerminal
  <2>5. jobs[r][a] \in Chains /\ \A k \in Steps : jobs[r][a][k].status # "None"
    BY <1>1, <2>2, <2>4 DEF TypeOK, ChainsPlanned
  <2> QED
    BY <2>3, <2>5, CancelSettles
<1> QED
  BY <1>2, <1>3

-----------------------------------------------------------------------------
(* Repositories                                                            *)

\* A run becomes active only on a repository without an active run, and no
\* other run of that repository becomes active with it.
LEMMA ActiveKept ==
  ASSUME IInv, [Next]_vars
  PROVE  OneActiveRunPerRepo'
<1> TypeOK /\ OneActiveRunPerRepo
  BY DEF IInv
<1>1. ASSUME NEW r \in Runs, NEW s \in Runs, RepoOf[r] = RepoOf[s],
             run'[r].status = "Running", run'[s].status = "Running",
             run[r].status # "Running"
      PROVE  r = s
  <2>1. run[r] \in RunRows
    BY DEF TypeOK
  <2>2. \A x \in RunTerminal : [run[r] EXCEPT !.status = x].status # "Running"
    BY <2>1 DEF RunRows, RunTerminal
  <2>3. "Cancelled" \in RunTerminal
    BY DEF RunTerminal
  <2>4. \/ \E w \in Waves : CreateWaveWithRuns(w) /\ WaveOf[r] = w
        \/ \E h \in Handlers : RestartCommit(h) /\ req[h].run = r
    <3>1. RunChange(r)
      BY RunStep
    <3> QED
      BY <1>1, <2>2, <2>3, <3>1, Zenon DEF RunChange
  <2>5. ASSUME NEW w \in Waves, CreateWaveWithRuns(w), WaveOf[r] = w
        PROVE  r = s
    <3>1. r \in RunsOf(w) /\ run[s].status # "Running"
      BY <1>1, <2>5 DEF CreateWaveWithRuns, RepoWithoutActiveRun, RunsOf
    <3>2. s \in RunsOf(w)
      BY <1>1, <2>5, <3>1 DEF CreateWaveWithRuns
    <3> QED
      BY <1>1, <2>5, <3>1, <3>2 DEF CreateWaveWithRuns
  <2>6. ASSUME NEW h \in Handlers, RestartCommit(h), req[h].run = r
        PROVE  r = s
    <3>1. run[s].status # "Running"
      BY Zenon, <1>1, <2>6 DEF RestartCommit, RestartFull, RestartFromFailed, RepoWithoutActiveRun
    <3>2. s # r => run'[s] = run[s]
      BY <2>6 DEF RestartCommit, RestartFull, RestartFromFailed, TypeOK
    <3> QED
      BY Zenon, <1>1, <3>1, <3>2
  <2> QED
    BY <2>4, <2>5, <2>6
<1> QED
  BY <1>1 DEF OneActiveRunPerRepo

-----------------------------------------------------------------------------
(* The invariant and what follows from it                                  *)

\* The empty database satisfies the invariant.
LEMMA InitInvariant == Init => IInv
<1> SUFFICES ASSUME Init PROVE IInv
  OBVIOUS
<1>1. TypeOK
  BY InitType
<1>2. \A p \in Procs : req[p].op = "idle"
  BY DEF Init, Idle
<1>3. LocksExclusive
  BY <1>2 DEF LocksExclusive, LockedBy
<1>4. RequestsCurrent
  BY <1>2 DEF RequestsCurrent, RequestOK, Init
<1>5. \A r \in Runs : /\ run[r].status = "None" /\ run[r].attempt = 1
                      /\ wave[WaveOf[r]] = "None"
                      /\ \A a \in Attempts : jobs[r][a] = NoChain
  BY LifecycleAssumption DEF Init
<1>6. ChainsPlanned
  BY <1>5 DEF ChainsPlanned
<1>7. ChainsOK
  BY Zenon, <1>5, PlannedOK DEF ChainsOK
<1>8. OldAttemptsSettled /\ OneActiveRunPerRepo
  BY <1>5 DEF OldAttemptsSettled, OneActiveRunPerRepo, Attempts
<1> QED
  BY <1>1, <1>3, <1>4, <1>6, <1>7, <1>8 DEF IInv

\* The invariant is inductive: it holds in every reachable state, whatever
\* requests, reports, cancellations, recoveries and faults interleave.
THEOREM Invariance == Spec => []IInv
<1>1. IInv /\ [Next]_vars => IInv'
  <2> SUFFICES ASSUME IInv, [Next]_vars
               PROVE  IInv'
    OBVIOUS
  <2>1. TypeOK'
    BY NextTypeOK DEF IInv
  <2> QED
    BY <2>1, LocksKept, RequestsKept, PlannedKept, ChainsKept, OldAttemptsKept, ActiveKept
       DEF IInv
<1> QED
  BY <1>1, InitInvariant, PTL DEF Spec

\* Every variable keeps its type; in particular a run only ever takes the
\* statuses the schema allows, and attempts and resumes stay in their bounds.
THEOREM TypeCorrect == Spec => []TypeOK
<1>1. IInv => TypeOK
  BY DEF IInv
<1> QED
  BY <1>1, Invariance, PTL

\* The repository guard of CreateWaveWithRuns and RestartRun is enough: a
\* repository never has two active runs.
THEOREM RepositoryExclusive == Spec => []OneActiveRunPerRepo
<1>1. IInv => OneActiveRunPerRepo
  BY DEF IInv
<1> QED
  BY <1>1, Invariance, PTL

\* Every chain of every attempt is in order, has one owner and passes its commits
\* on, whatever completions, cancellations, recoveries and restarts interleave.
THEOREM ChainsSound == Spec => []ChainsOK
<1>1. IInv => ChainsOK
  BY DEF IInv
<1> QED
  BY <1>1, Invariance, PTL

\* Steps are entered in the order of the chain.
THEOREM ChainOrder == Spec => []StepsRunInOrder
<1>1. IInv => StepsRunInOrder
  BY DEF IInv, ChainsOK, ChainOK, StepsRunInOrder
<1> QED
  BY <1>1, Invariance, PTL

\* The jobs of an attempt share one node.
THEOREM ChainOwner == Spec => []OneOwnerPerAttempt
<1>1. IInv => OneOwnerPerAttempt
  BY DEF IInv, ChainsOK, ChainOK, OneOwnerPerAttempt
<1> QED
  BY <1>1, Invariance, PTL

\* A step works on the commit its predecessor produced.
THEOREM ChainCommits == Spec => []CommitChain
<1>1. IInv => CommitChain
  BY DEF IInv, ChainsOK, ChainOK, CommitChain
<1> QED
  BY <1>1, Invariance, PTL

\* Nothing is left to do in the attempts a run has left behind.
THEOREM OldAttempts == Spec => []OldAttemptsSettled
<1>1. IInv => OldAttemptsSettled
  BY DEF IInv
<1> QED
  BY <1>1, Invariance, PTL

\* Of all the jobs of a run, over all its attempts, one at most is queued or
\* running.
THEOREM SingleJob == Spec => []OneJobAtATime
<1>1. ASSUME IInv
      PROVE  OneJobAtATime
  <2> SUFFICES ASSUME NEW r \in Runs, NEW a \in Attempts, NEW b \in Attempts,
                      NEW i \in Steps, NEW j \in Steps,
                      jobs[r][a][i].status \in {"Queued", "Running"},
                      jobs[r][b][j].status \in {"Queued", "Running"}
               PROVE  a = b /\ i = j
    BY DEF OneJobAtATime
  <2>1. ASSUME NEW z \in Attempts, NEW k \in Steps,
               jobs[r][z][k].status \in {"Queued", "Running"}
        PROVE  z = run[r].attempt
    <3>1. ~(z < run[r].attempt)
      BY <1>1, <2>1 DEF IInv, OldAttemptsSettled, AllTerminal, Outcomes
    <3>2. jobs[r][z] # NoChain
      BY <2>1 DEF NoChain, NoJob
    <3>3. ~(z > run[r].attempt)
      BY <1>1, <3>2 DEF IInv, ChainsPlanned
    <3>4. z \in Nat /\ run[r].attempt \in Nat
      BY <1>1 DEF IInv, TypeOK, RunRows, Attempts
    <3> QED
      BY <3>1, <3>3, <3>4
  <2>2. a = b
    BY <2>1
  <2>3. InOrder(jobs[r][a])
    BY <1>1 DEF IInv, ChainsOK, ChainOK
  <2>4. ~(i < j) /\ ~(j < i)
    BY <2>2, <2>3 DEF InOrder, Entered
  <2>5. i \in Nat /\ j \in Nat
    BY ChainAssumption DEF Steps
  <2> QED
    BY <2>2, <2>4, <2>5
<1> QED
  BY <1>1, Invariance, PTL

-----------------------------------------------------------------------------
(* What a step may never do                                                *)

\* Whatever a step does to a chain, a job that succeeded keeps its status and
\* its output commit.
THEOREM SuccessFinal == Spec => SuccessIsFinal
<1>1. ASSUME IInv, [Next]_vars,
             NEW r \in Runs, NEW a \in Attempts, NEW k \in Steps,
             jobs[r][a][k].status = "Success"
      PROVE  /\ jobs'[r][a][k].status = "Success"
             /\ jobs'[r][a][k].shaOut = jobs[r][a][k].shaOut
  <2>1. jobs[r][a] \in Chains /\ ChainOK(jobs[r][a])
    BY <1>1 DEF IInv, TypeOK, ChainsOK
  <2> QED
    BY <1>1, <2>1, JobsStep, SuccessKept
<1>2. IInv /\ [Next]_vars =>
        [\A r \in Runs, a \in Attempts, k \in Steps :
           jobs[r][a][k].status = "Success" =>
             /\ jobs'[r][a][k].status = "Success"
             /\ jobs'[r][a][k].shaOut = jobs[r][a][k].shaOut]_vars
  BY Zenon, <1>1
<1> QED
  BY <1>2, Invariance, PTL DEF Spec, SuccessIsFinal

\* A job gets an outcome of its own from the completion that names it only.
LEMMA OutcomeStep ==
  ASSUME IInv, [Next]_vars, NEW r \in Runs, NEW a \in Attempts, NEW k \in Steps,
         jobs'[r][a][k].status \in Outcomes \ {"Cancelled"},
         jobs'[r][a][k].status # jobs[r][a][k].status
  PROVE  /\ run[r].attempt = a
         /\ \E h \in Handlers : /\ req[h].op = "complete"
                                /\ req[h].run = r /\ req[h].attempt = a
                                /\ req[h].step = k /\ req[h].resume = run[r].resume
<1> DEFINE c == jobs[r][a]
           d == jobs'[r][a]
<1>1. c \in Chains /\ ChainOK(c)
  BY Zenon DEF IInv, TypeOK, ChainsOK
<1>2. ASSUME QuietStep(c, d)
      PROVE  FALSE
  <2>1. c[k].status \in Entered
    BY <1>1, <1>2, QuietFacts DEF Entered, Outcomes
  <2> QED
    BY SMTT(30), <1>1, <1>2, <2>1, QuietFacts DEF Entered, Outcomes
<1>3. d # createPlannedJobs
  BY ZenonT(30) DEF createPlannedJobs, NoJob, Outcomes
<1>4. ASSUME NEW h \in Handlers, CompleteCommit(h), req[h].run = r, req[h].attempt = a
      PROVE  /\ req[h].op = "complete" /\ run[r].attempt = a
             /\ req[h].step = k /\ req[h].resume = run[r].resume
  <2>1. /\ req[h] \in CompleteReq
        /\ Completable(c, req[h].step, req[h].status, req[h].sha)
        /\ d = CompleteStep(c, req[h].step, req[h].status, req[h].sha)
    BY <1>4, CompleteChains
  <2>2. req[h].step \in Steps /\ req[h].status \in Outcomes /\ req[h].sha \in Shas
    BY Zenon, <2>1 DEF CompleteReq
  <2> HIDE DEF c, d
  <2>3. /\ k < req[h].step => d[k] = c[k]
        /\ k > req[h].step => d[k].status \in {c[k].status, "Cancelled", "Queued"}
    <3>1. PICK s, t, sha : s = req[h].step /\ t = req[h].status /\ sha = req[h].sha
      OBVIOUS
    <3>2. s \in Steps /\ t \in Outcomes /\ sha \in Shas /\ Completable(c, s, t, sha)
      BY Zenon, <2>1, <2>2, <3>1
    <3>3. d = CompleteStep(c, s, t, sha)
      BY Zenon, <2>1, <3>1
    <3>4. /\ k < s => d[k] = c[k]
          /\ k > s => d[k].status \in {c[k].status, "Cancelled", "Queued"}
      BY <1>1, <3>2, <3>3, CompleteFacts
    <3> QED
      BY Zenon, <3>1, <3>4
  <2>4. ~(k < req[h].step) /\ ~(k > req[h].step)
    BY <2>3 DEF c, d, Outcomes
  <2>5. k \in Nat /\ req[h].step \in Nat
    BY SMTT(30), <2>2, ChainAssumption DEF Steps
  <2>6. req[h].op = "complete" /\ RequestOK(req[h])
    BY Zenon, <1>4 DEF CompleteCommit, IInv, RequestsCurrent, Procs
  <2>7. run[r].attempt = a /\ req[h].resume = run[r].resume
    BY <1>4, <2>6 DEF RequestOK
  <2>8. req[h].step = k
    BY SMTT(30), <2>4, <2>5
  <2> QED
    BY <2>6, <2>7, <2>8
<1>5. ASSUME NEW h \in Handlers, NEW i \in Steps, RestartCommit(h), RestartFromFailed(h, i),
             req[h].run = r, a = run[r].attempt
      PROVE  FALSE
  <2>1. d = resumeFailedJobs(c, i)
    BY Zenon, <1>5, ResumeChains
  <2>2. resumeFailedJobs(c, i)[k].status \in {c[k].status, "Queued", "Created"}
    BY <1>1 DEF resumeFailedJobs, Chains, Jobs
  <2> QED
    BY <2>1, <2>2 DEF Outcomes
<1> QED
  <2>1. PICK h \in Handlers : CompleteCommit(h) /\ req[h].run = r /\ req[h].attempt = a
    <3>1. ChainChange(r, a)
      BY Zenon, JobsChange
    <3> QED
      BY <1>2, <1>3, <1>5, <3>1 DEF ChainChange
  <2> QED
    BY Zenon, <1>4, <2>1

\* The fence of WithJobExecution holds up to the commit: no report of an
\* earlier attempt or an earlier execution ever becomes a job's outcome.
THEOREM OutcomesCurrent == Spec => OutcomesAreCurrent
<1>1. IInv /\ [Next]_vars =>
        [\A r \in Runs, a \in Attempts, k \in Steps :
           /\ jobs'[r][a][k].status \in Outcomes \ {"Cancelled"}
           /\ jobs'[r][a][k].status # jobs[r][a][k].status
           => /\ run[r].attempt = a
              /\ \E h \in Handlers : /\ req[h].op = "complete"
                                     /\ req[h].run = r /\ req[h].attempt = a
                                     /\ req[h].step = k /\ req[h].resume = run[r].resume]_vars
  BY OutcomeStep
<1> QED
  BY <1>1, Invariance, PTL DEF Spec, OutcomesAreCurrent

\* A run moves to a new attempt or a new resume count from a terminal status
\* only, one at a time, and a new attempt finds no chain in its place.
THEOREM RestartsSerial == Spec => RestartsFromTerminal
<1>1. ASSUME IInv, [Next]_vars, NEW r \in Runs,
             <<run'[r].attempt, run'[r].resume>> # <<run[r].attempt, run[r].resume>>
      PROVE  /\ run[r].status \in RunTerminal
             /\ run'[r].status = "Running"
             /\ \/ /\ run'[r].attempt = run[r].attempt + 1 /\ run'[r].resume = 0
                   /\ jobs[r][run'[r].attempt] = NoChain
                \/ /\ run'[r].attempt = run[r].attempt
                   /\ run'[r].resume = run[r].resume + 1
  <2>1. run[r] \in RunRows
    BY <1>1 DEF IInv, TypeOK
  <2>2. \A s : run'[r] # [run[r] EXCEPT !.status = s]
    BY <1>1, <2>1 DEF RunRows
  <2>3. RunChange(r)
    BY <1>1, RunStep
  <2>4. \/ \E h \in Handlers :
             /\ RestartCommit(h) /\ RestartFull(h) /\ req[h].run = r
             /\ run'[r] = [status |-> "Running", attempt |-> run[r].attempt + 1, resume |-> 0]
        \/ \E h \in Handlers, k \in Steps :
             /\ RestartCommit(h) /\ RestartFromFailed(h, k) /\ req[h].run = r
             /\ run'[r] = [run[r] EXCEPT !.status = "Running", !.resume = run[r].resume + 1]
    BY ZenonT(30), <1>1, <2>2, <2>3, Zenon DEF RunChange
  <2>5. ASSUME NEW h \in Handlers, RestartCommit(h), req[h].run = r
        PROVE  /\ run[r].status \in RunTerminal
               /\ RestartFull(h) => jobs[r][run[r].attempt + 1] = NoChain
    BY <1>1, <2>5, RestartFinds DEF RestartFull
  <2>6. ASSUME NEW h \in Handlers, RestartCommit(h), RestartFull(h), req[h].run = r,
               run'[r] = [status |-> "Running", attempt |-> run[r].attempt + 1, resume |-> 0]
        PROVE  /\ run'[r].status = "Running" /\ run'[r].attempt = run[r].attempt + 1
               /\ run'[r].resume = 0 /\ jobs[r][run'[r].attempt] = NoChain
    <3>1. /\ run'[r].status = "Running" /\ run'[r].attempt = run[r].attempt + 1
          /\ run'[r].resume = 0
      BY SMTT(30), <2>6
    <3>2. jobs[r][run[r].attempt + 1] = NoChain
      BY <2>5, <2>6
    <3> QED
      BY Zenon, <3>1, <3>2
  <2>7. ASSUME run'[r] = [run[r] EXCEPT !.status = "Running", !.resume = run[r].resume + 1]
        PROVE  /\ run'[r].status = "Running" /\ run'[r].attempt = run[r].attempt
               /\ run'[r].resume = run[r].resume + 1
    BY Zenon, <2>1, <2>7 DEF RunRows
  <2> QED
    BY ZenonT(30), <2>4, <2>5, <2>6, <2>7, Zenon
<1>2. IInv /\ [Next]_vars =>
        [\A r \in Runs :
           <<run'[r].attempt, run'[r].resume>> # <<run[r].attempt, run[r].resume>> =>
             /\ run[r].status \in RunTerminal
             /\ run'[r].status = "Running"
             /\ \/ /\ run'[r].attempt = run[r].attempt + 1 /\ run'[r].resume = 0
                   /\ jobs[r][run'[r].attempt] = NoChain
                \/ run'[r].attempt = run[r].attempt /\ run'[r].resume = run[r].resume + 1]_vars
  BY <1>1
<1> QED
  BY <1>2, Invariance, PTL DEF Spec, RestartsFromTerminal
=============================================================================
