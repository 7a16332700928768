------------------------- MODULE RunLifecycle_proofs -------------------------
(***************************************************************************)
(* Invariance proofs for RunLifecycle, for every number of waves, runs,    *)
(* repositories, nodes, steps, handlers and attempts: the types, and what  *)
(* one step does to a chain, to a run and to a wave, each action as one of *)
(* a few kinds of change.                                                  *)
(***************************************************************************)
EXTENDS RunLifecycle, JobChain_proofs

\* Writing the request of one process keeps the requests well formed.
LEMMA GotoType ==
  ASSUME TypeOK, NEW p \in Procs, NEW x \in Requests, Goto(p, x)
  PROVE  req' \in [Procs -> Requests]
BY DEF Goto, TypeOK

\* The operation of a request determines the fields it has.
LEMMA ReqFields ==
  ASSUME TypeOK, NEW p \in Procs
  PROVE  /\ req[p].op \in {"claimed", "unclaim"} => req[p] \in ClaimReq
         /\ req[p].op = "complete" => req[p] \in CompleteReq
         /\ req[p].op \in {"waveCount", "waveCheck", "waveWrite"} => req[p] \in WaveReq
         /\ req[p].op = "restart" => req[p] \in RestartReq
         /\ req[p].op = "restartTx" => req[p] \in RestartTxReq
         /\ req[p].op = "cancelRun" => req[p] \in CancelRunReq
         /\ req[p].op = "cancelRunTx" => req[p] \in CancelRunTxReq
         /\ req[p].op = "cancelWave" => req[p] \in CancelWaveReq
         /\ req[p].op = "cancelWaveTx" => req[p] \in CancelWaveTxReq
         /\ req[p].op = "staleEval" => req[p] \in StaleEvalReq
         /\ req[p].op = "staleWrite" => req[p] \in StaleWriteReq
<1>1. req[p] \in Requests
  BY DEF TypeOK
<1> QED
  BY <1>1 DEF Requests, Idle, ClaimReq, CompleteReq, WaveReq, RestartReq, RestartTxReq,
              CancelRunReq, CancelRunTxReq, CancelWaveReq, CancelWaveTxReq,
              StaleEvalReq, StaleWriteReq

\* Replacing one chain by a chain keeps the job table well formed.
LEMMA JobsType ==
  ASSUME TypeOK, NEW r \in Runs, NEW a \in Attempts, NEW c \in Chains
  PROVE  [jobs EXCEPT ![r][a] = c] \in [Runs -> [Attempts -> Chains]]
BY DEF TypeOK

\* An accepted report becomes a well-formed request.
LEMMA CompletionType ==
  ASSUME TypeOK, NEW r \in Runs, NEW a \in Attempts, NEW k \in Steps,
         NEW resume \in 0..MaxResume, NEW s \in Outcomes, NEW sha \in Shas,
         NEW n \in Nodes \cup {NoNode}
  PROVE  Completion(r, a, k, resume, s, sha, n) \in Requests
<1>1. jobs[r][a] \in Chains
  BY DEF TypeOK
<1>2. EffectiveSha(jobs[r][a][k], k, s, sha) \in Shas
  BY <1>1, EffectiveShaType
<1> QED
  BY <1>2 DEF Completion, Requests, CompleteReq

\* TypeOK holds initially.
LEMMA InitType == Init => TypeOK
<1> SUFFICES ASSUME Init PROVE TypeOK
  OBVIOUS
<1>1. NoChain \in Chains
  BY PlannedType
<1> QED
  BY <1>1, LifecycleAssumption DEF Init, TypeOK, RunRows, Attempts, RunTerminal, Requests

\* A claim step keeps TypeOK.
LEMMA ClaimTypeOK ==
  ASSUME TypeOK, NEW h \in Handlers, Claim(h)
  PROVE  TypeOK'
<1> h \in Procs
  BY DEF Procs
<1>1. ASSUME NEW n \in Nodes, NEW r \in Runs, NEW a \in Attempts, NEW k \in Steps,
             ClaimJob(h, n, r, a, k)
      PROVE  TypeOK'
  <2>1. jobs' \in [Runs -> [Attempts -> Chains]]
    BY ZenonT(30), <1>1, ClaimType, JobsType DEF ClaimJob, TypeOK
  <2> DEFINE x == [op |-> "claimed", node |-> n, run |-> r, attempt |-> a, step |-> k]
  <2>2. x \in Requests
    BY DEF Requests, ClaimReq
  <2>3. req' \in [Procs -> Requests]
    BY <1>1, <2>2, GotoType DEF ClaimJob
  <2> QED
    BY <1>1, <2>1, <2>3 DEF ClaimJob, TypeOK
<1>2. CASE ClaimDelivered(h)
  <2>1. req[h] \in ClaimReq
    BY <1>2, ReqFields DEF ClaimDelivered
  <2>2. run[req[h].run].resume \in 0..MaxResume
    BY <2>1 DEF TypeOK, RunRows, ClaimReq
  <2>3. exec' \in SUBSET Execs
    BY <1>2, <2>1, <2>2 DEF ClaimDelivered, TypeOK, Execs, ClaimReq
  <2>4. req' \in [Procs -> Requests]
    BY <1>2, GotoType DEF ClaimDelivered, Requests
  <2> QED
    BY <1>2, <2>3, <2>4 DEF ClaimDelivered, TypeOK
<1>3. CASE ClaimPayloadError(h)
  <2>1. req[h] \in ClaimReq
    BY <1>3, ReqFields DEF ClaimPayloadError
  <2>2. [req[h] EXCEPT !.op = "unclaim"] \in Requests
    BY <2>1 DEF Requests, ClaimReq
  <2>3. req' \in [Procs -> Requests]
    BY <1>3, <2>2, GotoType DEF ClaimPayloadError
  <2> QED
    BY <1>3, <2>3 DEF ClaimPayloadError, TypeOK
<1>4. CASE ClaimTerminalError(h)
  <2>1. req[h] \in ClaimReq
    BY <1>4, ReqFields DEF ClaimTerminalError
  <2>2. [req[h] EXCEPT !.op = "unclaim"] \in Requests
    BY <2>1 DEF Requests, ClaimReq
  <2>3. Completion(req[h].run, req[h].attempt, req[h].step, 0, "Error", NoSha, req[h].node) \in Requests
    <3>1. /\ req[h].run \in Runs /\ req[h].attempt \in Attempts /\ req[h].step \in Steps
          /\ 0 \in 0..MaxResume /\ "Error" \in Outcomes /\ NoSha \in Shas
          /\ req[h].node \in Nodes
      BY <2>1, LifecycleAssumption DEF ClaimReq, Outcomes, Shas
    <3> QED
      BY <3>1, CompletionType
  <2>4. req' \in [Procs -> Requests]
    BY <1>4, <2>2, <2>3, GotoType DEF ClaimTerminalError
  <2> QED
    BY <1>4, <2>4 DEF ClaimTerminalError, TypeOK
<1>5. CASE UnclaimJob(h)
  <2>1. req[h] \in ClaimReq
    BY <1>5, ReqFields DEF UnclaimJob
  <2>2. jobs' \in [Runs -> [Attempts -> Chains]]
    <3> DEFINE r == req[h].run
               a == req[h].attempt
               k == req[h].step
    <3>1. r \in Runs /\ a \in Attempts /\ k \in Steps /\ (run[r].resume > 0) \in BOOLEAN
      BY <2>1 DEF ClaimReq
    <3>2. jobs[r][a] \in Chains
      BY <3>1 DEF TypeOK
    <3>3. Requeued(jobs[r][a], k, run[r].resume > 0) \in Chains
      BY ZenonT(30), <3>1, <3>2, ChainAssumption
         DEF Requeued, Chains, Jobs, JobStatuses, Active
    <3>4. \/ jobs' = jobs
          \/ jobs' = [jobs EXCEPT ![r][a] = Requeued(jobs[r][a], k, run[r].resume > 0)]
      BY Zenon, <1>5 DEF UnclaimJob
    <3>5. jobs \in [Runs -> [Attempts -> Chains]]
      BY DEF TypeOK
    <3>6. [jobs EXCEPT ![r][a] = Requeued(jobs[r][a], k, run[r].resume > 0)]
            \in [Runs -> [Attempts -> Chains]]
      BY <3>1, <3>3, JobsType
    <3> QED
      BY <3>4, <3>5, <3>6
  <2>3. req' \in [Procs -> Requests]
    BY <1>5, GotoType DEF UnclaimJob, Requests
  <2> QED
    BY ZenonT(30), <1>5, <2>2, <2>3 DEF UnclaimJob, TypeOK
<1>6. CASE ClaimCompletionFailed(h)
  <2>1. req[h] \in CompleteReq
    BY <1>6, ReqFields DEF ClaimCompletionFailed
  <2>2. [op |-> "unclaim", node |-> req[h].claimer, run |-> req[h].run,
         attempt |-> req[h].attempt, step |-> req[h].step] \in Requests
    BY <1>6, <2>1 DEF Requests, ClaimReq, CompleteReq, ClaimCompletionFailed
  <2>3. req' \in [Procs -> Requests]
    BY <1>6, <2>2, GotoType DEF ClaimCompletionFailed
  <2> QED
    BY <1>6, <2>3 DEF ClaimCompletionFailed, TypeOK
<1> QED
  BY <1>1, <1>2, <1>3, <1>4, <1>5, <1>6 DEF Claim

\* A completion step keeps TypeOK.
LEMMA CompleteTypeOK ==
  ASSUME TypeOK, NEW h \in Handlers, Complete(h)
  PROVE  TypeOK'
<1> h \in Procs
  BY DEF Procs
<1>1. ASSUME NEW e \in exec, NEW s \in Outcomes, NEW sha \in Shas,
             CompleteBegin(h, e, s, sha)
      PROVE  TypeOK'
  <2>1. e \in Execs
    BY DEF TypeOK
  <2>2. Completion(e.run, e.attempt, e.step, e.resume, s, sha, NoNode) \in Requests
    BY <2>1, CompletionType DEF Execs
  <2>3. req' \in [Procs -> Requests]
    BY <1>1, <2>2, GotoType DEF CompleteBegin
  <2> QED
    BY <1>1, <2>3 DEF CompleteBegin, TypeOK
<1>2. CASE CompleteCommit(h)
  <2>1. req[h] \in CompleteReq
    BY <1>2, ReqFields DEF CompleteCommit
  <2> DEFINE r == req[h].run
             a == req[h].attempt
             c == CompleteStep(jobs[r][a], req[h].step, req[h].status, req[h].sha)
  <2>2. r \in Runs /\ a \in Attempts
    BY <2>1 DEF CompleteReq
  <2>3. c \in Chains
    <3>1. jobs[r][a] \in Chains
      BY <2>2 DEF TypeOK
    <3> QED
      BY <2>1, <3>1, CompleteType DEF CompleteReq
  <2>4. jobs' \in [Runs -> [Attempts -> Chains]]
    BY <1>2, <2>2, <2>3, JobsType DEF CompleteCommit
  <2>5. /\ run' \in [Runs -> RunRows]
        /\ req' \in [Procs -> Requests]
    <3>1. CASE AllTerminal(c)
      <4>1. RunOutcome(c) \in RunTerminal
        BY <2>3, OutcomeType DEF RunTerminal
      <4>2. run' = [run EXCEPT ![r].status = RunOutcome(c)]
        BY <1>2, <3>1 DEF CompleteCommit
      <4>3. run' \in [Runs -> RunRows]
        BY <4>1, <4>2, <2>2 DEF TypeOK, RunRows
      <4>4. [op |-> "waveCount", wave |-> WaveOf[r]] \in Requests
        BY <2>2, LifecycleAssumption DEF Requests, WaveReq
      <4>5. Goto(h, [op |-> "waveCount", wave |-> WaveOf[r]])
        BY <1>2, <3>1 DEF CompleteCommit
      <4> QED
        BY <4>3, <4>4, <4>5, GotoType
    <3>2. CASE ~AllTerminal(c)
      <4>1. run' = run /\ Goto(h, Idle)
        BY <1>2, <3>2 DEF CompleteCommit
      <4> QED
        BY <4>1, GotoType DEF TypeOK, Requests
    <3> QED
      BY <3>1, <3>2
  <2> QED
    BY <1>2, <2>4, <2>5 DEF CompleteCommit, TypeOK
<1> QED
  BY <1>1, <1>2 DEF Complete

\* A step that finishes a wave keeps TypeOK.
LEMMA FinishWaveTypeOK ==
  ASSUME TypeOK, NEW p \in Procs, FinishWave(p)
  PROVE  TypeOK'
<1>1. req[p] \in WaveReq
  BY ReqFields DEF FinishWave, WaveCount, WaveCheck, WaveWrite
<1>2. /\ [req[p] EXCEPT !.op = "waveCheck"] \in Requests
      /\ [req[p] EXCEPT !.op = "waveWrite"] \in Requests
      /\ Idle \in Requests
  BY <1>1 DEF Requests, WaveReq
<1>3. req' \in [Procs -> Requests]
  BY <1>2, GotoType DEF FinishWave, WaveCount, WaveCheck, WaveWrite
<1> QED
  BY <1>1, <1>3 DEF FinishWave, WaveCount, WaveCheck, WaveWrite, TypeOK, WaveReq, WaveTerminal

\* A restart step keeps TypeOK.
LEMMA RestartTypeOK ==
  ASSUME TypeOK, RequestsCurrent, NEW h \in Handlers, RestartRun(h)
  PROVE  TypeOK'
<1> h \in Procs
  BY DEF Procs
<1>1. ASSUME NEW r \in Runs, NEW f \in BOOLEAN, RestartRead(h, r, f)
      PROVE  TypeOK'
  <2>1. [op |-> "restart", run |-> r, attempt |-> run[r].attempt,
         resume |-> run[r].resume, fromFailed |-> f] \in Requests
    BY DEF Requests, RestartReq, TypeOK, RunRows
  <2>2. req' \in [Procs -> Requests]
    BY <1>1, <2>1, GotoType DEF RestartRead
  <2> QED
    BY <1>1, <2>2 DEF RestartRead, TypeOK
<1>2. CASE RestartBegin(h)
  <2>1. req[h] \in RestartReq
    BY <1>2, ReqFields DEF RestartBegin
  <2>2. [op |-> "restartTx", run |-> req[h].run, attempt |-> req[h].attempt,
         resume |-> req[h].resume, fromFailed |-> req[h].fromFailed,
         revive |-> wave[WaveOf[req[h].run]] = "Finished"] \in Requests
    BY ZenonT(30), <2>1 DEF Requests, RestartReq, RestartTxReq
  <2>3. req' \in [Procs -> Requests]
    BY <1>2, <2>2, GotoType DEF RestartBegin, Requests
  <2> QED
    BY Zenon, <1>2, <2>3 DEF RestartBegin, TypeOK
<1>3. CASE RestartCommit(h)
  <2>1. req[h] \in RestartTxReq
    BY <1>3, ReqFields DEF RestartCommit
  <2> DEFINE r == req[h].run
             a == run[r].attempt
  <2>2. r \in Runs /\ WaveOf[r] \in Waves /\ run[r] \in RunRows /\ a \in Attempts
    BY <2>1, LifecycleAssumption DEF RestartTxReq, TypeOK, RunRows
  <2>3. jobs[r][a] \in Chains
    BY <2>2 DEF TypeOK
  <2>4. req' \in [Procs -> Requests]
    BY <1>3, GotoType DEF RestartCommit, Requests
  <2>5. CASE RestartFull(h)
    <3> a + 1 \in Attempts
      <4>1. ~req[h].fromFailed /\ req[h].op = "restartTx" /\ RequestOK(req[h])
        BY <1>3, <2>5 DEF RequestsCurrent, RestartCommit, RestartFull
      <4>2. a < MaxAttempt
        BY <4>1 DEF RequestOK
      <4> HIDE DEF r, a
      <4> QED
        BY <2>2, <4>2, LifecycleAssumption DEF Attempts
    <3>1. jobs' \in [Runs -> [Attempts -> Chains]]
      <4>1. CancelActiveJobs(jobs[r][a]) \in Chains /\ createPlannedJobs \in Chains
        BY ZenonT(30), <2>3, CancelType, PlannedType
      <4> QED
        BY Zenon, <2>2, <2>5, <4>1 DEF RestartFull, TypeOK
    <3>2. run' \in [Runs -> RunRows]
      BY SMTT(30), <2>2, <2>5, LifecycleAssumption DEF RestartFull, TypeOK, RunRows
    <3>3. wave' \in [Waves -> {"None", "Started"} \cup WaveTerminal]
      BY <2>2, <2>5 DEF RestartFull, ReviveWave, TypeOK
    <3> QED
      BY Zenon, <1>3, <2>4, <3>1, <3>2, <3>3 DEF RestartCommit, TypeOK
  <2>6. ASSUME NEW k \in Steps, RestartFromFailed(h, k)
        PROVE  TypeOK'
    <3> run[r].resume + 1 \in 0..MaxResume
      <4>1. req[h].op = "restartTx" /\ req[h].fromFailed /\ run[r].resume = req[h].resume
        BY Zenon, <1>3, <2>6 DEF RestartCommit, RestartFromFailed
      <4>2. req[h].resume < MaxResume
        BY <4>1 DEF RequestsCurrent, RequestOK
      <4>3. run[r].resume \in 0..MaxResume
        BY <2>2 DEF RunRows
      <4> QED
        BY <4>1, <4>2, <4>3, LifecycleAssumption
    <3>1. jobs' \in [Runs -> [Attempts -> Chains]]
      BY ZenonT(30), <2>2, <2>3, <2>6, ResumeType, JobsType DEF RestartFromFailed
    <3>2. run' \in [Runs -> RunRows]
      BY Zenon, <2>2, <2>6 DEF RestartFromFailed, TypeOK, RunRows
    <3>3. wave' \in [Waves -> {"None", "Started"} \cup WaveTerminal]
      BY Zenon, <2>2, <2>6 DEF RestartFromFailed, ReviveWave, TypeOK
    <3> QED
      BY <1>3, <2>4, <3>1, <3>2, <3>3 DEF RestartCommit, TypeOK
  <2> QED
    BY <1>3, <2>5, <2>6 DEF RestartCommit
<1>4. CASE RestartRefused(h)
  <2>1. req' \in [Procs -> Requests]
    BY <1>4, GotoType DEF RestartRefused, Requests
  <2> QED
    BY ZenonT(30), <1>4, <2>1 DEF RestartRefused, TypeOK
<1> QED
  BY <1>1, <1>2, <1>3, <1>4 DEF RestartRun

\* Submitting a wave keeps TypeOK.
LEMMA CreateTypeOK ==
  ASSUME TypeOK, NEW w \in Waves, CreateWaveWithRuns(w)
  PROVE  TypeOK'
<1>1. \A r \in Runs : [run[r] EXCEPT !.status = "Running"] \in RunRows
  BY DEF TypeOK, RunRows
<1>2. run' \in [Runs -> RunRows]
  BY <1>1 DEF TypeOK, CreateWaveWithRuns
<1>3. \A r \in Runs : [jobs[r] EXCEPT ![1] = createPlannedJobs] \in [Attempts -> Chains]
  BY Zenon, PlannedType DEF TypeOK
<1>4. jobs' \in [Runs -> [Attempts -> Chains]]
  BY <1>3 DEF TypeOK, CreateWaveWithRuns
<1> QED
  BY <1>2, <1>4 DEF TypeOK, CreateWaveWithRuns

\* Cancelling a run keeps TypeOK.
LEMMA CancelRunTypeOK ==
  ASSUME TypeOK, NEW h \in Handlers, CancelRun(h)
  PROVE  TypeOK'
<1> h \in Procs
  BY DEF Procs
<1>1. ASSUME NEW r \in Runs, CancelRunRead(h, r)
      PROVE  TypeOK'
  <2>1. req' \in [Procs -> Requests]
    BY <1>1, GotoType DEF CancelRunRead, Requests, CancelRunReq
  <2> QED
    BY <1>1, <2>1 DEF CancelRunRead, TypeOK
<1>2. CASE CancelRunBegin(h)
  <2>1. req[h] \in CancelRunReq
    BY <1>2, ReqFields DEF CancelRunBegin
  <2>2. [op |-> "cancelRunTx", run |-> req[h].run,
         active |-> run[req[h].run].status \notin RunTerminal] \in Requests
    BY ZenonT(30), <2>1 DEF Requests, CancelRunReq, CancelRunTxReq
  <2>3. req' \in [Procs -> Requests]
    BY <1>2, <2>2, GotoType DEF CancelRunBegin
  <2> QED
    BY <1>2, <2>3 DEF CancelRunBegin, TypeOK
<1>3. CASE CancelRunCommit(h)
  <2>1. req[h] \in CancelRunTxReq
    BY <1>3, ReqFields DEF CancelRunCommit
  <2> DEFINE r == req[h].run
  <2>2. r \in Runs
    BY <2>1 DEF CancelRunTxReq
  <2>3. run' \in [Runs -> RunRows]
    <3>1. run' = run \/ run' = [run EXCEPT ![r].status = "Cancelled"]
      BY <1>3 DEF CancelRunCommit
    <3> QED
      BY <2>2, <3>1 DEF TypeOK, RunRows, RunTerminal
  <2>4. [a \in Attempts |-> CancelActiveJobs(jobs[r][a])] \in [Attempts -> Chains]
    BY <2>2, CancelType DEF TypeOK
  <2>5. jobs' \in [Runs -> [Attempts -> Chains]]
    BY <1>3, <2>2, <2>4 DEF CancelRunCommit, TypeOK
  <2>6. req' \in [Procs -> Requests]
    BY <1>3, GotoType DEF CancelRunCommit, Requests
  <2> QED
    BY <1>3, <2>3, <2>5, <2>6 DEF CancelRunCommit, TypeOK
<1> QED
  BY <1>1, <1>2, <1>3 DEF CancelRun

\* Cancelling a wave keeps TypeOK.
LEMMA CancelWaveTypeOK ==
  ASSUME TypeOK, NEW h \in Handlers, CancelWave(h)
  PROVE  TypeOK'
<1> h \in Procs
  BY DEF Procs
<1>1. ASSUME NEW w \in Waves, CancelWaveRead(h, w)
      PROVE  TypeOK'
  <2>1. [op |-> "cancelWave", wave |-> w, active |-> wave[w] \notin WaveTerminal] \in Requests
    BY DEF Requests, CancelWaveReq
  <2>2. req' \in [Procs -> Requests]
    BY <1>1, <2>1, GotoType DEF CancelWaveRead
  <2> QED
    BY <1>1, <2>2 DEF CancelWaveRead, TypeOK
<1>2. CASE CancelWaveRuns(h)
  <2>1. req[h] \in CancelWaveReq
    BY <1>2, ReqFields DEF CancelWaveRuns
  <2> DEFINE running == {r \in RunsOf(req[h].wave) : run[r].status = "Running"}
  <2>2. running \in SUBSET Runs
    BY DEF RunsOf
  <2>3. [op |-> "cancelWaveTx", wave |-> req[h].wave, active |-> req[h].active,
         runs |-> running] \in Requests
    BY Zenon, <2>1, <2>2 DEF Requests, CancelWaveReq, CancelWaveTxReq
  <2>4. req' \in [Procs -> Requests]
    BY <1>2, <2>3, GotoType DEF CancelWaveRuns
  <2> QED
    BY <1>2, <2>4 DEF CancelWaveRuns, TypeOK
<1>3. CASE CancelWaveCommit(h)
  <2>1. req[h] \in CancelWaveTxReq
    BY <1>3, ReqFields DEF CancelWaveCommit
  <2>2. wave' \in [Waves -> {"None", "Started"} \cup WaveTerminal]
    BY <1>3, <2>1 DEF CancelWaveCommit, TypeOK, CancelWaveTxReq, WaveTerminal
  <2>3. \A r \in Runs : [run[r] EXCEPT !.status = "Cancelled"] \in RunRows
    BY DEF TypeOK, RunRows, RunTerminal
  <2>4. run' \in [Runs -> RunRows]
    BY <1>3, <2>3 DEF CancelWaveCommit, TypeOK
  <2>5. \A r \in Runs : [a \in Attempts |-> CancelActiveJobs(jobs[r][a])] \in [Attempts -> Chains]
    BY CancelType DEF TypeOK
  <2>6. jobs' \in [Runs -> [Attempts -> Chains]]
    BY <1>3, <2>5 DEF CancelWaveCommit, TypeOK
  <2>7. req' \in [Procs -> Requests]
    BY <1>3, GotoType DEF CancelWaveCommit, Requests
  <2> QED
    BY <1>3, <2>2, <2>4, <2>6, <2>7 DEF CancelWaveCommit, TypeOK
<1> QED
  BY <1>1, <1>2, <1>3 DEF CancelWave

\* A step of the recovery task keeps TypeOK.
LEMMA RecoverTypeOK ==
  ASSUME TypeOK, Recover
  PROVE  TypeOK'
<1> Recovery \in Procs
  BY Zenon DEF Procs
<1>1. ASSUME NEW overdue \in SUBSET Nodes, ListStaleRunningJobs(overdue)
      PROVE  TypeOK'
  BY <1>1 DEF ListStaleRunningJobs, TypeOK
<1>2. ASSUME NEW r \in Runs, NEW a \in Attempts, RecoverCancelJobs(r, a)
      PROVE  TypeOK'
  <2>1. CancelActiveJobs(jobs[r][a]) \in Chains
    BY CancelType DEF TypeOK
  <2>2. jobs' \in [Runs -> [Attempts -> Chains]]
    BY <1>2, <2>1, JobsType DEF RecoverCancelJobs
  <2>3. [op |-> "staleEval", run |-> r, attempt |-> a] \in Requests
    BY DEF Requests, StaleEvalReq
  <2>4. req' \in [Procs -> Requests]
    BY Zenon, <1>2, <2>3, GotoType DEF RecoverCancelJobs
  <2> QED
    BY <1>2, <2>2, <2>4 DEF RecoverCancelJobs, TypeOK
<1>3. CASE RecoverEvalRun
  <2>1. req[Recovery] \in StaleEvalReq
    BY <1>3, ReqFields DEF RecoverEvalRun
  <2> DEFINE c == jobs[req[Recovery].run][req[Recovery].attempt]
  <2>2. c \in Chains
    BY ZenonT(30), <2>1 DEF StaleEvalReq, TypeOK
  <2>3. [op |-> "staleWrite", run |-> req[Recovery].run, status |-> RunOutcome(c)] \in Requests
    BY Zenon, <2>1, <2>2, OutcomeType DEF Requests, StaleEvalReq, StaleWriteReq, RunTerminal
  <2>4. req' \in [Procs -> Requests]
    BY <1>3, <2>3, GotoType DEF RecoverEvalRun, Requests
  <2> QED
    BY ZenonT(30), <1>3, <2>4 DEF RecoverEvalRun, TypeOK
<1>4. CASE RecoverWriteRun
  <2>1. req[Recovery] \in StaleWriteReq
    BY Zenon, <1>4, ReqFields DEF RecoverWriteRun
  <2>2. [op |-> "waveCount", wave |-> WaveOf[req[Recovery].run]] \in Requests
    BY <2>1, LifecycleAssumption DEF Requests, StaleWriteReq, WaveReq
  <2>3. req' \in [Procs -> Requests]
    BY <1>4, <2>2, GotoType DEF RecoverWriteRun
  <2>4. run' \in [Runs -> RunRows]
    BY ZenonT(30), <1>4, <2>1 DEF RecoverWriteRun, StaleWriteReq, TypeOK, RunRows
  <2> QED
    BY <1>4, <2>3, <2>4 DEF RecoverWriteRun, TypeOK
<1>5. ASSUME NEW r \in Runs, NEW a \in Attempts, RecoverCancelFailed(r, a)
      PROVE  TypeOK'
  BY <1>5 DEF RecoverCancelFailed, TypeOK
<1> QED
  BY <1>1, <1>2, <1>3, <1>4, <1>5 DEF Recover

\* Every step keeps TypeOK; only the restarts need more than TypeOK for that.
LEMMA NextTypeOK ==
  ASSUME TypeOK, RequestsCurrent, [Next]_vars
  PROVE  TypeOK'
<1>1. ASSUME NEW n \in Nodes, NEW d \in BOOLEAN, SetNodeDrained(n, d)
      PROVE  TypeOK'
  BY <1>1 DEF SetNodeDrained, TypeOK
<1>2. ASSUME NEW p \in Procs, Abort(p)
      PROVE  TypeOK'
  <2>1. req' \in [Procs -> Requests]
    BY <1>2, GotoType DEF Abort, Requests
  <2> QED
    BY <1>2, <2>1 DEF Abort, TypeOK
<1>3. CASE UNCHANGED vars
  BY <1>3 DEF vars, TypeOK
<1> QED
  BY <1>1, <1>2, <1>3, CreateTypeOK, ClaimTypeOK, CompleteTypeOK, FinishWaveTypeOK,
     RestartTypeOK, CancelRunTypeOK, CancelWaveTypeOK, RecoverTypeOK DEF Next

-----------------------------------------------------------------------------
(* What one step does to a chain                                           *)

\* Claiming and giving back.
LEMMA ClaimChains ==
  ASSUME IInv, NEW h \in Handlers, Claim(h), NEW r \in Runs, NEW a \in Attempts
  PROVE  QuietStep(jobs[r][a], jobs'[r][a])
<1> h \in Procs
  BY DEF Procs
<1> TypeOK
  BY DEF IInv
<1>1. ASSUME NEW n \in Nodes, NEW s \in Runs, NEW b \in Attempts, NEW k \in Steps,
             ClaimJob(h, n, s, b, k)
      PROVE  QuietStep(jobs[r][a], jobs'[r][a])
  <2>1. jobs'[r][a] = IF r = s /\ a = b THEN SetRunning(jobs[r][a], k, n) ELSE jobs[r][a]
    BY <1>1 DEF ClaimJob, TypeOK
  <2>2. Claimable(jobs[s][b], k, n)
    BY Zenon, <1>1 DEF ClaimJob
  <2> QED
    BY <2>1, <2>2 DEF QuietStep
<1>2. CASE UnclaimJob(h)
  <2> DEFINE s == req[h].run
             b == req[h].attempt
             k == req[h].step
             z == run[s].resume > 0
  <2>1. s \in Runs /\ b \in Attempts /\ k \in Steps /\ z \in BOOLEAN
    <3>1. req[h].op = "unclaim"
      BY Zenon, <1>2 DEF UnclaimJob
    <3>2. req[h] \in ClaimReq
      BY <3>1, ReqFields
    <3> QED
      BY <3>2 DEF ClaimReq
  <2>2. \/ jobs' = jobs
        \/ /\ jobs[s][b][k].status = "Running"
           /\ jobs' = [jobs EXCEPT ![s][b] = Requeued(jobs[s][b], k, z)]
    BY Zenon, <1>2 DEF UnclaimJob
  <2> HIDE DEF z
  <2>3. CASE jobs' = jobs
    BY ZenonT(30), <2>3 DEF QuietStep
  <2>4. CASE /\ jobs[s][b][k].status = "Running"
             /\ jobs' = [jobs EXCEPT ![s][b] = Requeued(jobs[s][b], k, z)]
    <3>1. jobs'[r][a] = IF r = s /\ a = b THEN Requeued(jobs[r][a], k, z) ELSE jobs[r][a]
      BY <2>1, <2>4 DEF TypeOK
    <3> QED
      BY <2>1, <2>4, <3>1 DEF QuietStep
  <2> QED
    BY ZenonT(30), <2>2, <2>3, <2>4
<1>3. ASSUME \/ ClaimDelivered(h) \/ ClaimPayloadError(h) \/ ClaimTerminalError(h)
             \/ ClaimCompletionFailed(h)
      PROVE  QuietStep(jobs[r][a], jobs'[r][a])
  BY <1>3 DEF ClaimDelivered, ClaimPayloadError, ClaimTerminalError, ClaimCompletionFailed,
              QuietStep
<1> QED
  BY <1>1, <1>2, <1>3 DEF Claim

\* Cancelling a run or a wave.
LEMMA CancelChains ==
  ASSUME IInv, NEW h \in Handlers, CancelRun(h) \/ CancelWave(h),
         NEW r \in Runs, NEW a \in Attempts
  PROVE  QuietStep(jobs[r][a], jobs'[r][a])
<1> h \in Procs
  BY DEF Procs
<1> TypeOK
  BY DEF IInv
<1>1. CASE CancelRunCommit(h)
  <2>1. req[h].run \in Runs
    BY <1>1, ReqFields DEF CancelRunCommit, CancelRunTxReq
  <2>2. jobs'[r][a] = IF r = req[h].run THEN CancelActiveJobs(jobs[r][a]) ELSE jobs[r][a]
    BY <1>1, <2>1 DEF CancelRunCommit, TypeOK
  <2> QED
    BY <2>2 DEF QuietStep
<1>2. CASE CancelWaveCommit(h)
  <2>1. jobs'[r][a] = IF WaveOf[r] = req[h].wave THEN CancelActiveJobs(jobs[r][a])
                                                 ELSE jobs[r][a]
    BY <1>2 DEF CancelWaveCommit, TypeOK
  <2> QED
    BY <2>1 DEF QuietStep
<1>3. CASE jobs' = jobs
  BY <1>3 DEF QuietStep
<1> QED
  BY Zenon, <1>1, <1>2, <1>3 DEF CancelRun, CancelWave, CancelRunRead, CancelRunBegin,
                          CancelWaveRead, CancelWaveRuns

\* The recovery task.
LEMMA RecoverChains ==
  ASSUME IInv, Recover, NEW r \in Runs, NEW a \in Attempts
  PROVE  QuietStep(jobs[r][a], jobs'[r][a])
<1>1. ASSUME NEW s \in Runs, NEW b \in Attempts, RecoverCancelJobs(s, b)
      PROVE  QuietStep(jobs[r][a], jobs'[r][a])
  <2>1. jobs'[r][a] = IF r = s /\ a = b THEN CancelActiveJobs(jobs[r][a]) ELSE jobs[r][a]
    BY <1>1 DEF RecoverCancelJobs, IInv, TypeOK
  <2> QED
    BY <2>1 DEF QuietStep
<1>2. CASE jobs' = jobs
  BY <1>2 DEF QuietStep
<1> QED
  BY Zenon, <1>1, <1>2 DEF Recover, ListStaleRunningJobs, RecoverCancelFailed, RecoverEvalRun,
                    RecoverWriteRun

\* A completion changes one chain, and only the job it names gets an outcome
\* other than Cancelled.
LEMMA CompleteChains ==
  ASSUME IInv, NEW h \in Handlers, CompleteCommit(h), NEW r \in Runs, NEW a \in Attempts
  PROVE  /\ req[h] \in CompleteReq
         /\ Completable(jobs[req[h].run][req[h].attempt], req[h].step, req[h].status, req[h].sha)
         /\ jobs'[r][a] = IF r = req[h].run /\ a = req[h].attempt
                          THEN CompleteStep(jobs[r][a], req[h].step, req[h].status, req[h].sha)
                          ELSE jobs[r][a]
<1> h \in Procs
  BY DEF Procs
<1> TypeOK
  BY DEF IInv
<1>1. req[h] \in CompleteReq
  BY ReqFields DEF CompleteCommit
<1>2. req[h].run \in Runs /\ req[h].attempt \in Attempts
  BY Zenon, <1>1 DEF CompleteReq
<1>3. Completable(jobs[req[h].run][req[h].attempt], req[h].step, req[h].status, req[h].sha)
  BY DEF CompleteCommit, IInv, RequestsCurrent, RequestOK
<1> DEFINE c == CompleteStep(jobs[req[h].run][req[h].attempt], req[h].step,
                             req[h].status, req[h].sha)
<1>4. jobs' = [jobs EXCEPT ![req[h].run][req[h].attempt] = c]
  BY DEF CompleteCommit
<1> HIDE DEF c
<1>5. jobs'[r][a] = IF r = req[h].run /\ a = req[h].attempt THEN c ELSE jobs[r][a]
  BY <1>2, <1>4 DEF TypeOK
<1> QED
  BY <1>1, <1>3, <1>5 DEF c

\* What a restart finds under the run lock.
LEMMA RestartFinds ==
  ASSUME IInv, NEW h \in Handlers, RestartCommit(h)
  PROVE  LET r == req[h].run
             a == run[r].attempt
         IN  /\ h \in Procs /\ req[h] \in RestartTxReq
             /\ r \in Runs /\ a \in Attempts /\ req[h].attempt = a /\ a + 1 # a
             /\ run[r].status \in RunTerminal
             /\ ~req[h].fromFailed => a + 1 \in Attempts /\ jobs[r][a + 1] = NoChain
<1> h \in Procs
  BY DEF Procs
<1> TypeOK
  BY DEF IInv
<1> DEFINE r == req[h].run
           a == run[r].attempt
<1>1. req[h] \in RestartTxReq
  BY ReqFields DEF RestartCommit
<1>2. r \in Runs /\ a \in Attempts
  BY <1>1 DEF RestartTxReq, TypeOK, RunRows
<1>3. RequestOK(req[h]) /\ req[h].op = "restartTx"
  BY DEF RestartCommit, IInv, RequestsCurrent
<1>4. /\ req[h].attempt = a /\ run[r].status \in RunTerminal
      /\ ~req[h].fromFailed => a < MaxAttempt
  BY <1>3 DEF RequestOK
<1>5. ~req[h].fromFailed => a + 1 \in Attempts
  BY <1>2, <1>4, LifecycleAssumption DEF Attempts
<1>6. ~req[h].fromFailed => jobs[r][a + 1] = NoChain
  <2>1. a + 1 > a
    BY <1>2 DEF Attempts
  <2> QED
    BY <1>2, <1>5, <2>1 DEF IInv, ChainsPlanned
<1>7. a + 1 # a
  BY <1>2 DEF Attempts
<1> QED
  BY <1>1, <1>2, <1>4, <1>5, <1>6, <1>7

\* A full restart cancels one chain and plans the next.
LEMMA RestartFullChains ==
  ASSUME IInv, NEW h \in Handlers, RestartCommit(h), RestartFull(h),
         NEW s \in Runs, NEW b \in Attempts
  PROVE  LET r == req[h].run
             a == run[r].attempt
         IN  jobs'[s][b] = CASE s = r /\ b = a     -> CancelActiveJobs(jobs[r][a])
                             [] s = r /\ b = a + 1 -> createPlannedJobs
                             [] OTHER              -> jobs[s][b]
<1> DEFINE r == req[h].run
           a == run[r].attempt
<1>0. ~req[h].fromFailed
  BY DEF RestartFull
<1>1. r \in Runs /\ a \in Attempts /\ a + 1 \in Attempts /\ a + 1 # a
  BY Zenon, <1>0, RestartFinds
<1>2. jobs' = [jobs EXCEPT ![r][a] = CancelActiveJobs(jobs[r][a]),
                           ![r][a + 1] = createPlannedJobs]
  BY Zenon DEF RestartFull
<1> HIDE DEF r, a
<1> QED
  BY ZenonT(30), <1>1, <1>2 DEF IInv, TypeOK, r, a

\* A resume rewrites one chain.
LEMMA ResumeChains ==
  ASSUME IInv, NEW h \in Handlers, RestartCommit(h), NEW k \in Steps,
         RestartFromFailed(h, k), NEW s \in Runs, NEW b \in Attempts
  PROVE  LET r == req[h].run
             a == run[r].attempt
         IN  /\ failedJobSuffix(jobs[r][a], k)
             /\ jobs'[s][b] = IF s = r /\ b = a THEN resumeFailedJobs(jobs[r][a], k)
                                                ELSE jobs[s][b]
<1> DEFINE r == req[h].run
           a == run[r].attempt
<1>1. r \in Runs /\ a \in Attempts
  BY ZenonT(30), RestartFinds
<1>2. /\ failedJobSuffix(jobs[r][a], k)
      /\ jobs' = [jobs EXCEPT ![r][a] = resumeFailedJobs(jobs[r][a], k)]
  BY DEF RestartFromFailed
<1> HIDE DEF r, a
<1> QED
  BY Zenon, <1>1, <1>2 DEF IInv, TypeOK, r, a

\* Submission plans the first chain of runs that had none.
LEMMA CreateChains ==
  ASSUME IInv, NEW w \in Waves, CreateWaveWithRuns(w), NEW r \in Runs, NEW a \in Attempts
  PROVE  /\ jobs'[r][a] = IF WaveOf[r] = w /\ a = 1 THEN createPlannedJobs ELSE jobs[r][a]
         /\ WaveOf[r] = w => jobs[r][a] = NoChain /\ run[r].status = "None"
<1>1. 1 \in Attempts
  BY LifecycleAssumption DEF Attempts
<1>2. jobs'[r][a] = IF WaveOf[r] = w /\ a = 1 THEN createPlannedJobs ELSE jobs[r][a]
  BY <1>1 DEF CreateWaveWithRuns, RunsOf, IInv, TypeOK
<1>3. WaveOf[r] = w => run[r].status = "None"
  BY DEF CreateWaveWithRuns, IInv, ChainsPlanned
<1> QED
  BY <1>2, <1>3 DEF IInv, ChainsPlanned

\* Every step moves every chain by a chain step.
LEMMA JobsStep ==
  ASSUME IInv, [Next]_vars, NEW r \in Runs, NEW a \in Attempts
  PROVE  ChainStep(jobs[r][a], jobs'[r][a])
<1>1. CASE QuietStep(jobs[r][a], jobs'[r][a])
  BY Zenon, <1>1 DEF ChainStep
<1>2. ASSUME NEW w \in Waves, CreateWaveWithRuns(w)
      PROVE  ChainStep(jobs[r][a], jobs'[r][a])
  <2>1. \/ jobs'[r][a] = jobs[r][a]
        \/ jobs'[r][a] = createPlannedJobs /\ jobs[r][a] = NoChain
    BY <1>2, CreateChains
  <2> QED
    BY Zenon, <2>1 DEF ChainStep, QuietStep
<1>3. ASSUME NEW h \in Handlers, CompleteCommit(h)
      PROVE  ChainStep(jobs[r][a], jobs'[r][a])
  <2>1. /\ req[h] \in CompleteReq
        /\ Completable(jobs[req[h].run][req[h].attempt], req[h].step, req[h].status, req[h].sha)
        /\ jobs'[r][a] = IF r = req[h].run /\ a = req[h].attempt
                         THEN CompleteStep(jobs[r][a], req[h].step, req[h].status, req[h].sha)
                         ELSE jobs[r][a]
    BY Zenon, <1>3, CompleteChains
  <2>2. CASE r = req[h].run /\ a = req[h].attempt
    <3>1. req[h].step \in Steps /\ req[h].status \in Outcomes /\ req[h].sha \in Shas
      BY <2>1 DEF CompleteReq
    <3>2. /\ Completable(jobs[r][a], req[h].step, req[h].status, req[h].sha)
          /\ jobs'[r][a] = CompleteStep(jobs[r][a], req[h].step, req[h].status, req[h].sha)
      BY Zenon, <2>1, <2>2
    <3> QED
      BY Zenon, <3>1, <3>2 DEF ChainStep
  <2>3. CASE ~(r = req[h].run /\ a = req[h].attempt)
    BY Zenon, <2>1, <2>3 DEF ChainStep, QuietStep
  <2> QED
    BY Zenon, <2>2, <2>3
<1>4. ASSUME NEW h \in Handlers, RestartCommit(h)
      PROVE  ChainStep(jobs[r][a], jobs'[r][a])
  <2>1. CASE RestartFull(h)
    <3> DEFINE s == req[h].run
               b == run[s].attempt
    <3>0. ~req[h].fromFailed
      BY Zenon, <2>1 DEF RestartFull
    <3>1. jobs[s][b + 1] = NoChain /\ b + 1 # b
      BY Zenon, <1>4, <3>0, RestartFinds
    <3>2. jobs'[r][a] = CASE r = s /\ a = b     -> CancelActiveJobs(jobs[s][b])
                          [] r = s /\ a = b + 1 -> createPlannedJobs
                          [] OTHER              -> jobs[r][a]
      BY <1>4, <2>1, RestartFullChains
    <3> HIDE DEF s, b
    <3>3. \/ jobs'[r][a] = CancelActiveJobs(jobs[r][a])
          \/ jobs'[r][a] = createPlannedJobs /\ jobs[r][a] = NoChain
          \/ jobs'[r][a] = jobs[r][a]
      <4>1. CASE r = s /\ a = b
        BY <3>1, <3>2, <4>1
      <4>2. CASE r = s /\ a = b + 1
        BY <3>1, <3>2, <4>2
      <4>3. CASE ~(r = s /\ a = b) /\ ~(r = s /\ a = b + 1)
        BY <3>2, <4>3
      <4> QED
        BY <4>1, <4>2, <4>3
    <3> QED
      BY Zenon, <3>3 DEF ChainStep, QuietStep
  <2>2. ASSUME NEW k \in Steps, RestartFromFailed(h, k)
        PROVE  ChainStep(jobs[r][a], jobs'[r][a])
    <3> DEFINE s == req[h].run
               b == run[s].attempt
    <3>1. /\ failedJobSuffix(jobs[s][b], k)
          /\ jobs'[r][a] = IF r = s /\ a = b THEN resumeFailedJobs(jobs[s][b], k)
                                             ELSE jobs[r][a]
      BY Zenon, <1>4, <2>2, ResumeChains
    <3> HIDE DEF s, b
    <3>2. CASE r = s /\ a = b
      BY Zenon, <3>1, <3>2 DEF ChainStep
    <3>3. CASE ~(r = s /\ a = b)
      BY Zenon, <3>1, <3>3 DEF ChainStep, QuietStep
    <3> QED
      BY Zenon, <3>2, <3>3
  <2> QED
    BY <1>4, <2>1, <2>2 DEF RestartCommit
<1>5. CASE jobs' = jobs
  BY <1>5 DEF ChainStep, QuietStep
<1> QED
  <2>1. ASSUME NEW h \in Handlers, Claim(h)
        PROVE  ChainStep(jobs[r][a], jobs'[r][a])
    BY <1>1, <2>1, ClaimChains
  <2>2. ASSUME NEW h \in Handlers, Complete(h)
        PROVE  ChainStep(jobs[r][a], jobs'[r][a])
    BY <1>3, <1>5, <2>2 DEF Complete, CompleteBegin
  <2>3. ASSUME NEW h \in Handlers, RestartRun(h)
        PROVE  ChainStep(jobs[r][a], jobs'[r][a])
    BY Zenon, <1>4, <1>5, <2>3 DEF RestartRun, RestartRead, RestartBegin, RestartRefused
  <2>4. ASSUME NEW h \in Handlers, CancelRun(h) \/ CancelWave(h)
        PROVE  ChainStep(jobs[r][a], jobs'[r][a])
    BY <1>1, <2>4, CancelChains
  <2>5. ASSUME NEW p \in Procs, FinishWave(p) \/ Abort(p)
        PROVE  ChainStep(jobs[r][a], jobs'[r][a])
    BY <1>5, <2>5 DEF FinishWave, WaveCount, WaveCheck, WaveWrite, Abort
  <2>6. ASSUME Recover
        PROVE  ChainStep(jobs[r][a], jobs'[r][a])
    BY <1>1, <2>6, RecoverChains
  <2>7. ASSUME NEW n \in Nodes, NEW d \in BOOLEAN, SetNodeDrained(n, d)
        PROVE  ChainStep(jobs[r][a], jobs'[r][a])
    BY <1>5, <2>7 DEF SetNodeDrained
  <2>8. CASE UNCHANGED vars
    BY <1>5, <2>8 DEF vars
  <2> QED
    BY <1>2, <2>1, <2>2, <2>3, <2>4, <2>5, <2>6, <2>7, <2>8 DEF Next

-----------------------------------------------------------------------------
(* What one step does to a run row                                         *)

\* The value a step may give to a run row, and who may do it.
RunChange(r) ==
  \/ run'[r] = run[r]
  \/ \E w \in Waves : /\ CreateWaveWithRuns(w) /\ WaveOf[r] = w
                      /\ run'[r] = [run[r] EXCEPT !.status = "Running"]
  \/ \E h \in Handlers : /\ CompleteCommit(h) /\ req[h].run = r
                         /\ \E s \in RunTerminal : run'[r] = [run[r] EXCEPT !.status = s]
  \/ \E h \in Handlers :
       /\ RestartCommit(h) /\ RestartFull(h) /\ req[h].run = r
       /\ run'[r] = [status |-> "Running", attempt |-> run[r].attempt + 1, resume |-> 0]
  \/ \E h \in Handlers, k \in Steps :
       /\ RestartCommit(h) /\ RestartFromFailed(h, k) /\ req[h].run = r
       /\ run'[r] = [run[r] EXCEPT !.status = "Running", !.resume = run[r].resume + 1]
  \/ \E h \in Handlers : /\ CancelRunCommit(h) /\ req[h].active /\ req[h].run = r
                         /\ run'[r] = [run[r] EXCEPT !.status = "Cancelled"]
  \/ \E h \in Handlers : /\ CancelWaveCommit(h) /\ r \in req[h].runs
                         /\ run'[r] = [run[r] EXCEPT !.status = "Cancelled"]
  \/ /\ RecoverWriteRun /\ req[Recovery].run = r
     /\ \E s \in RunTerminal : run'[r] = [run[r] EXCEPT !.status = s]

\* Every step changes every run row in one of these ways.
LEMMA RunStep ==
  ASSUME IInv, [Next]_vars, NEW r \in Runs
  PROVE  RunChange(r)
<1> TypeOK
  BY DEF IInv
<1>1. CASE run' = run
  BY <1>1 DEF RunChange
<1>2. ASSUME NEW w \in Waves, CreateWaveWithRuns(w)
      PROVE  RunChange(r)
  <2>1. run'[r] = IF WaveOf[r] = w THEN [run[r] EXCEPT !.status = "Running"] ELSE run[r]
    BY <1>2 DEF CreateWaveWithRuns, RunsOf
  <2> QED
    BY <1>2, <2>1 DEF RunChange
<1>3. ASSUME NEW h \in Handlers, CompleteCommit(h)
      PROVE  RunChange(r)
  <2> DEFINE c == CompleteStep(jobs[req[h].run][req[h].attempt], req[h].step,
                               req[h].status, req[h].sha)
  <2>1. run' = run \/ run' = [run EXCEPT ![req[h].run].status = RunOutcome(c)]
    BY <1>3 DEF CompleteCommit
  <2>2. RunOutcome(c) \in RunTerminal
    BY DEF RunOutcome, RunTerminal
  <2> HIDE DEF c
  <2>3. \/ run'[r] = run[r]
        \/ req[h].run = r /\ run'[r] = [run[r] EXCEPT !.status = RunOutcome(c)]
    BY <2>1 DEF TypeOK
  <2> QED
    BY <1>3, <2>2, <2>3 DEF RunChange
<1>4. ASSUME NEW h \in Handlers, RestartCommit(h)
      PROVE  RunChange(r)
  <2>1. CASE RestartFull(h)
    <3>1. run'[r] = IF req[h].run = r
                    THEN [status |-> "Running", attempt |-> run[r].attempt + 1, resume |-> 0]
                    ELSE run[r]
      BY <2>1 DEF RestartFull, TypeOK
    <3> QED
      BY ZenonT(30), <1>4, <2>1, <3>1 DEF RunChange
  <2>2. ASSUME NEW k \in Steps, RestartFromFailed(h, k)
        PROVE  RunChange(r)
    <3>1. run'[r] = IF req[h].run = r
                    THEN [run[r] EXCEPT !.status = "Running", !.resume = run[r].resume + 1]
                    ELSE run[r]
      BY Zenon, <2>2 DEF RestartFromFailed, TypeOK, RunRows
    <3> QED
      BY Zenon, <1>4, <2>2, <3>1 DEF RunChange
  <2> QED
    BY <1>4, <2>1, <2>2 DEF RestartCommit
<1>5. ASSUME NEW h \in Handlers, CancelRunCommit(h)
      PROVE  RunChange(r)
  <2>1. \/ run' = run
        \/ req[h].active /\ run' = [run EXCEPT ![req[h].run].status = "Cancelled"]
    BY <1>5 DEF CancelRunCommit
  <2>2. \/ run'[r] = run[r]
        \/ req[h].active /\ req[h].run = r /\ run'[r] = [run[r] EXCEPT !.status = "Cancelled"]
    BY Zenon, <2>1 DEF TypeOK
  <2> QED
    BY <1>5, <2>2 DEF RunChange
<1>6. ASSUME NEW h \in Handlers, CancelWaveCommit(h)
      PROVE  RunChange(r)
  <2>1. run'[r] = IF r \in req[h].runs THEN [run[r] EXCEPT !.status = "Cancelled"] ELSE run[r]
    BY <1>6 DEF CancelWaveCommit
  <2> QED
    BY <1>6, <2>1 DEF RunChange
<1>7. CASE RecoverWriteRun
  <2>1. req[Recovery].status \in RunTerminal
    BY <1>7, ReqFields DEF RecoverWriteRun, StaleWriteReq, Procs
  <2>2. \/ run'[r] = run[r]
        \/ req[Recovery].run = r /\ run'[r] = [run[r] EXCEPT !.status = req[Recovery].status]
    BY Zenon, <1>7 DEF RecoverWriteRun, TypeOK
  <2> QED
    BY <1>7, <2>1, <2>2 DEF RunChange
<1> QED
  <2>1. ASSUME NEW h \in Handlers, Claim(h)
        PROVE  RunChange(r)
    BY Zenon, <1>1, <2>1 DEF Claim, ClaimJob, ClaimDelivered, ClaimPayloadError, ClaimTerminalError,
                      ClaimCompletionFailed, UnclaimJob
  <2>2. ASSUME NEW h \in Handlers, Complete(h)
        PROVE  RunChange(r)
    BY <1>1, <1>3, <2>2 DEF Complete, CompleteBegin
  <2>3. ASSUME NEW h \in Handlers, RestartRun(h)
        PROVE  RunChange(r)
    BY Zenon, <1>1, <1>4, <2>3 DEF RestartRun, RestartRead, RestartBegin, RestartRefused
  <2>4. ASSUME NEW h \in Handlers, CancelRun(h) \/ CancelWave(h)
        PROVE  RunChange(r)
    BY Zenon, <1>1, <1>5, <1>6, <2>4 DEF CancelRun, CancelRunRead, CancelRunBegin,
                                  CancelWave, CancelWaveRead, CancelWaveRuns
  <2>5. ASSUME NEW p \in Procs, FinishWave(p) \/ Abort(p)
        PROVE  RunChange(r)
    BY <1>1, <2>5 DEF FinishWave, WaveCount, WaveCheck, WaveWrite, Abort
  <2>6. ASSUME Recover
        PROVE  RunChange(r)
    BY Zenon, <1>1, <1>7, <2>6 DEF Recover, ListStaleRunningJobs, RecoverCancelJobs,
                            RecoverCancelFailed, RecoverEvalRun
  <2>7. ASSUME NEW n \in Nodes, NEW d \in BOOLEAN, SetNodeDrained(n, d)
        PROVE  RunChange(r)
    BY <1>1, <2>7 DEF SetNodeDrained
  <2>8. CASE UNCHANGED vars
    BY <1>1, <2>8 DEF vars
  <2> QED
    BY <1>2, <2>1, <2>2, <2>3, <2>4, <2>5, <2>6, <2>7, <2>8 DEF Next

\* Rows are never removed.
LEMMA RunKept ==
  ASSUME IInv, [Next]_vars, NEW r \in Runs, run[r].status # "None"
  PROVE  run'[r].status # "None"
<1>1. run[r] \in RunRows
  BY DEF IInv, TypeOK
<1>2. CASE run'[r] = run[r]
  BY <1>2
<1>3. ASSUME NEW s \in {"Running"} \cup RunTerminal, run'[r] = [run[r] EXCEPT !.status = s]
      PROVE  run'[r].status # "None"
  BY <1>1, <1>3 DEF RunRows, RunTerminal
<1>4. CASE run'[r] = [status |-> "Running", attempt |-> run[r].attempt + 1, resume |-> 0]
  BY <1>4
<1>5. CASE run'[r] = [run[r] EXCEPT !.status = "Running", !.resume = run[r].resume + 1]
  BY <1>1, <1>5 DEF RunRows
<1>6. "Running" \in {"Running"} \cup RunTerminal /\ "Cancelled" \in RunTerminal
  BY DEF RunTerminal
<1>7. RunChange(r)
  BY RunStep
<1> QED
  BY Zenon, <1>2, <1>3, <1>4, <1>5, <1>6, <1>7 DEF RunChange

\* Nor are waves.
LEMMA WaveKept ==
  ASSUME IInv, [Next]_vars, NEW w \in Waves, wave[w] # "None"
  PROVE  wave'[w] # "None"
<1> TypeOK
  BY DEF IInv
<1>1. CASE wave' = wave
  BY <1>1
<1>2. ASSUME NEW v \in Waves, CreateWaveWithRuns(v)
      PROVE  wave'[w] # "None"
  BY <1>2 DEF CreateWaveWithRuns, TypeOK
<1>3. ASSUME NEW p \in Procs, FinishWave(p)
      PROVE  wave'[w] # "None"
  BY <1>1, <1>3 DEF FinishWave, WaveCount, WaveCheck, WaveWrite, TypeOK
<1>4. ASSUME NEW h \in Handlers, RestartRun(h)
      PROVE  wave'[w] # "None"
  <2>1. wave' = wave \/ \E v : wave' = [wave EXCEPT ![v] = "Started"]
    BY Zenon, <1>4 DEF RestartRun, RestartRead, RestartBegin, RestartRefused, RestartCommit,
                RestartFull, RestartFromFailed, ReviveWave
  <2> QED
    BY <1>1, <2>1 DEF TypeOK
<1>5. ASSUME NEW h \in Handlers, CancelWave(h)
      PROVE  wave'[w] # "None"
  BY Zenon, <1>1, <1>5 DEF CancelWave, CancelWaveRead, CancelWaveRuns, CancelWaveCommit, TypeOK
<1> QED
  <2>1. ASSUME NEW h \in Handlers, Claim(h) \/ Complete(h) \/ CancelRun(h)
        PROVE  wave'[w] # "None"
    BY Zenon, <1>1, <2>1 DEF Claim, ClaimJob, ClaimDelivered, ClaimPayloadError, ClaimTerminalError,
                      ClaimCompletionFailed, UnclaimJob, Complete, CompleteBegin, CompleteCommit,
                      CancelRun, CancelRunRead, CancelRunBegin, CancelRunCommit
  <2>2. CASE Recover
    BY Zenon, <1>1, <2>2 DEF Recover, ListStaleRunningJobs, RecoverCancelJobs, RecoverCancelFailed,
                      RecoverEvalRun, RecoverWriteRun
  <2>3. ASSUME NEW p \in Procs, Abort(p)
        PROVE  wave'[w] # "None"
    BY <1>1, <2>3 DEF Abort
  <2>4. ASSUME NEW n \in Nodes, NEW d \in BOOLEAN, SetNodeDrained(n, d)
        PROVE  wave'[w] # "None"
    BY <1>1, <2>4 DEF SetNodeDrained
  <2>5. CASE UNCHANGED vars
    BY <1>1, <2>5 DEF vars
  <2> QED
    BY <1>2, <1>3, <1>4, <1>5, <2>1, <2>2, <2>3, <2>4, <2>5 DEF Next
=============================================================================
