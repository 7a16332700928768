------------------------ MODULE RunLifecycle_claims ------------------------
(***************************************************************************)
(* Who is handed a job.  A claim is pending from the statement that assigns *)
(* the job until the payload is delivered, the job is given back or the    *)
(* claim handler has completed it with Error.                              *)
(***************************************************************************)
EXTENDS RunLifecycle_safety

Pending(x) == x.op \in {"claimed", "unclaim"} \/ (x.op = "complete" /\ x.claimer # NoNode)
Claimant(x) == IF x.op = "complete" THEN x.claimer ELSE x.node
JobOf(x) == jobs[x.run][x.attempt][x.step]
SameJob(x, y) == x.run = y.run /\ x.attempt = y.attempt /\ x.step = y.step

\* The job of a pending claim is the claimant's: it runs, or was cancelled, and
\* cannot be resumed.
ClaimsHeld ==
  \A h \in Handlers : Pending(req[h]) =>
    /\ JobOf(req[h]).status \in {"Running", "Cancelled"}
    /\ JobOf(req[h]).started
    /\ JobOf(req[h]).node = Claimant(req[h])

\* A job has one pending claim at most, and none while it executes.
ClaimsAlone ==
  \A h \in Handlers : Pending(req[h]) =>
    /\ \A g \in Handlers : Pending(req[g]) /\ SameJob(req[g], req[h]) => g = h
    /\ \A e \in exec : SameJob(e, req[h]) /\ e.attempt = run[e.run].attempt =>
         e.resume # run[e.run].resume

\* An execution is no newer than its run, keeps its job from being claimed
\* again before a resume, and its node is the job's.
ExecsOwned ==
  \A e \in exec :
    /\ e.attempt <= run[e.run].attempt
    /\ e.attempt = run[e.run].attempt =>
         /\ e.resume <= run[e.run].resume
         /\ e.resume = run[e.run].resume => JobOf(e).status \notin {"None", "Created", "Queued"}
    /\ JobOf(e).node = e.node

\* A report under way is that of an execution.
ReportsReal ==
  \A h \in Handlers : req[h].op = "complete" /\ req[h].claimer = NoNode =>
    \E e \in exec : SameJob(e, req[h]) /\ e.resume = req[h].resume

ClaimInv == ClaimsHeld /\ ClaimsAlone /\ ExecsOwned /\ ReportsReal

-----------------------------------------------------------------------------
(* Steps that hand out nothing.                                            *)

\* The claims that a step leaves pending were pending, and so were the reports.
ReqKept(h) ==
  /\ Pending(req'[h]) => /\ Pending(req[h]) /\ SameJob(req'[h], req[h])
                         /\ Claimant(req'[h]) = Claimant(req[h])
  /\ req'[h].op = "complete" /\ req'[h].claimer = NoNode =>
       \E e \in exec : SameJob(e, req'[h]) /\ e.resume = req'[h].resume

LEMMA PendingFields ==
  ASSUME TypeOK, NEW h \in Handlers, Pending(req[h])
  PROVE  /\ req[h].run \in Runs /\ req[h].attempt \in Attempts /\ req[h].step \in Steps
         /\ Claimant(req[h]) \in Nodes
         /\ jobs[req[h].run] \in [Attempts -> Chains]
<1>1. h \in Procs
  BY DEF Procs
<1>2. CASE req[h].op \in {"claimed", "unclaim"}
  <2>1. req[h] \in ClaimReq
    BY <1>1, <1>2, ReqFields
  <2> QED
    BY <1>2, <2>1 DEF ClaimReq, Claimant, TypeOK
<1>3. CASE req[h].op = "complete" /\ req[h].claimer # NoNode
  <2>1. req[h] \in CompleteReq
    BY <1>1, <1>3, ReqFields
  <2> QED
    BY <1>3, <2>1 DEF CompleteReq, Claimant, TypeOK
<1> QED
  BY <1>2, <1>3 DEF Pending

LEMMA ExecFields ==
  ASSUME TypeOK, NEW e \in exec
  PROVE  /\ e.run \in Runs /\ e.attempt \in Attempts /\ e.step \in Steps
         /\ e.node \in Nodes /\ e.resume \in 0..MaxResume
         /\ run[e.run] \in RunRows /\ jobs[e.run] \in [Attempts -> Chains]
<1>1. e \in Execs
  BY DEF TypeOK
<1> QED
  BY <1>1 DEF Execs, TypeOK

\* What a step must leave alone when the executions stay the same.
LEMMA ClaimStepInv ==
  ASSUME TypeOK, ClaimInv, exec' = exec, \A h \in Handlers : ReqKept(h),
         \A h \in Handlers : Pending(req'[h]) =>
           /\ JobOf(req[h])'.status \in {"Running", "Cancelled"}
           /\ JobOf(req[h])'.started
           /\ JobOf(req[h])'.node = JobOf(req[h]).node
           /\ run'[req[h].run].attempt = req[h].attempt =>
                /\ run'[req[h].run].attempt = run[req[h].run].attempt
                /\ run'[req[h].run].resume = run[req[h].run].resume,
         \A e \in exec :
           /\ e.attempt <= run'[e.run].attempt
           /\ e.attempt = run'[e.run].attempt =>
                /\ e.resume <= run'[e.run].resume
                /\ e.resume = run'[e.run].resume =>
                     jobs'[e.run][e.attempt][e.step].status \notin {"None", "Created", "Queued"}
           /\ jobs'[e.run][e.attempt][e.step].node = e.node
  PROVE  ClaimInv'
<1>1. ClaimsHeld'
  <2> SUFFICES ASSUME NEW h \in Handlers, Pending(req'[h])
               PROVE  JobOf(req[h])'.node = Claimant(req'[h])
    BY DEF ClaimsHeld
  <2>1. JobOf(req[h]).node = Claimant(req[h]) /\ Claimant(req'[h]) = Claimant(req[h])
    BY DEF ClaimInv, ClaimsHeld, ReqKept
  <2> QED
    BY <2>1
<1>2. ClaimsAlone'
  <2> SUFFICES ASSUME NEW h \in Handlers, Pending(req'[h])
               PROVE  /\ \A g \in Handlers : Pending(req'[g]) /\ SameJob(req'[g], req'[h]) => g = h
                      /\ \A e \in exec : SameJob(e, req'[h]) /\ e.attempt = run'[e.run].attempt =>
                           e.resume # run'[e.run].resume
    BY DEF ClaimsAlone
  <2>1. Pending(req[h]) /\ SameJob(req'[h], req[h])
    BY DEF ReqKept
  <2>2. ASSUME NEW g \in Handlers, Pending(req'[g]), SameJob(req'[g], req'[h])
        PROVE  g = h
    <3>1. Pending(req[g]) /\ SameJob(req'[g], req[g])
      BY <2>2 DEF ReqKept
    <3>2. SameJob(req[g], req[h])
      BY Zenon, <2>1, <2>2, <3>1 DEF SameJob
    <3> QED
      BY <2>1, <3>1, <3>2 DEF ClaimInv, ClaimsAlone
  <2>3. ASSUME NEW e \in exec, SameJob(e, req'[h]), e.attempt = run'[e.run].attempt
        PROVE  e.resume # run'[e.run].resume
    <3>1. e.run = req[h].run /\ e.attempt = req[h].attempt /\ SameJob(e, req[h])
      BY <2>1, <2>3 DEF SameJob
    <3>2. run'[e.run].attempt = run[e.run].attempt /\ run'[e.run].resume = run[e.run].resume
      BY Zenon, <2>3, <3>1
    <3> QED
      BY <2>1, <2>3, <3>1, <3>2 DEF ClaimInv, ClaimsAlone
  <2> QED
    BY <2>2, <2>3
<1>3. ExecsOwned'
  BY Zenon DEF ExecsOwned, JobOf
<1>4. ReportsReal'
  BY Zenon DEF ReportsReal, ReqKept
<1> QED
  BY <1>1, <1>2, <1>3, <1>4 DEF ClaimInv

\* Chains stay, are cancelled, or are planned where there was none.
ChainsSettle ==
  \A r \in Runs, a \in Attempts :
    \/ jobs'[r][a] = jobs[r][a]
    \/ jobs'[r][a] = CancelActiveJobs(jobs[r][a])
    \/ jobs[r][a] = NoChain

\* A run goes on to a new attempt or stays where it is.
RunsSettle ==
  \A r \in Runs :
    \/ run'[r].attempt = run[r].attempt /\ run'[r].resume = run[r].resume
    \/ run'[r].attempt = run[r].attempt + 1

LEMMA JobSettles ==
  ASSUME TypeOK, ChainsSettle, NEW r \in Runs, NEW a \in Attempts, NEW k \in Steps,
         jobs[r][a][k].node \in Nodes
  PROVE  /\ jobs'[r][a][k].node = jobs[r][a][k].node
         /\ jobs'[r][a][k].started = jobs[r][a][k].started
         /\ jobs'[r][a][k].status \in {jobs[r][a][k].status, "Cancelled"}
<1>1. jobs[r][a] \in Chains /\ jobs[r][a][k] \in Jobs
  BY DEF TypeOK, Chains
<1>2. jobs[r][a] # NoChain
  BY ChainAssumption DEF NoChain, NoJob
<1>3. CASE jobs'[r][a] = jobs[r][a]
  BY <1>3
<1>4. CASE jobs'[r][a] = CancelActiveJobs(jobs[r][a])
  <2>1. jobs'[r][a][k] = IF jobs[r][a][k].status \in Active
                         THEN [jobs[r][a][k] EXCEPT !.status = "Cancelled"] ELSE jobs[r][a][k]
    BY Zenon, <1>4 DEF CancelActiveJobs
  <2> QED
    BY <1>1, <2>1 DEF Jobs
<1> QED
  BY Zenon, <1>2, <1>3, <1>4 DEF ChainsSettle

LEMMA SettleInv ==
  ASSUME IInv, ClaimInv, exec' = exec, \A h \in Handlers : ReqKept(h), ChainsSettle, RunsSettle
  PROVE  ClaimInv'
<1> TypeOK
  BY DEF IInv
<1>1. ASSUME NEW e \in exec
      PROVE  /\ e.attempt <= run'[e.run].attempt
             /\ e.attempt = run'[e.run].attempt =>
                  /\ run'[e.run].attempt = run[e.run].attempt
                  /\ run'[e.run].resume = run[e.run].resume
                  /\ e.resume <= run'[e.run].resume
  <2>1. /\ e.run \in Runs /\ e.attempt \in Nat /\ run[e.run].attempt \in Nat
        /\ e.attempt <= run[e.run].attempt
        /\ e.attempt = run[e.run].attempt => e.resume <= run[e.run].resume
    BY ExecFields DEF ClaimInv, ExecsOwned, RunRows, Attempts
  <2> QED
    BY <2>1 DEF RunsSettle
<1>2. ASSUME NEW e \in exec
      PROVE  /\ jobs'[e.run][e.attempt][e.step].node = e.node
             /\ e.attempt = run'[e.run].attempt /\ e.resume = run'[e.run].resume =>
                  jobs'[e.run][e.attempt][e.step].status \notin {"None", "Created", "Queued"}
  <2>1. /\ e.run \in Runs /\ e.attempt \in Attempts /\ e.step \in Steps
        /\ jobs[e.run][e.attempt][e.step].node = e.node /\ e.node \in Nodes
    BY Zenon, ExecFields DEF ClaimInv, ExecsOwned, JobOf
  <2>2. /\ jobs'[e.run][e.attempt][e.step].node = e.node
        /\ jobs'[e.run][e.attempt][e.step].status
             \in {jobs[e.run][e.attempt][e.step].status, "Cancelled"}
    BY Zenon, <2>1, JobSettles
  <2> QED
    BY Zenon, <1>1, <2>2 DEF ClaimInv, ExecsOwned, JobOf
<1>3. ASSUME NEW h \in Handlers, Pending(req'[h])
      PROVE  /\ JobOf(req[h])'.status \in {"Running", "Cancelled"}
             /\ JobOf(req[h])'.started
             /\ JobOf(req[h])'.node = JobOf(req[h]).node
  <2>1. Pending(req[h]) /\ SameJob(req'[h], req[h])
    BY <1>3 DEF ReqKept
  <2>2. /\ JobOf(req[h]).status \in {"Running", "Cancelled"} /\ JobOf(req[h]).started
        /\ JobOf(req[h]).node \in Nodes
        /\ req[h].run \in Runs /\ req[h].attempt \in Attempts /\ req[h].step \in Steps
    BY Zenon, <2>1, PendingFields DEF ClaimInv, ClaimsHeld
  <2>3. /\ jobs'[req[h].run][req[h].attempt][req[h].step].node = JobOf(req[h]).node
        /\ jobs'[req[h].run][req[h].attempt][req[h].step].started = JobOf(req[h]).started
        /\ jobs'[req[h].run][req[h].attempt][req[h].step].status
             \in {JobOf(req[h]).status, "Cancelled"}
    BY Zenon, <2>2, JobSettles DEF JobOf
  <2>4. JobOf(req[h])' = jobs'[req[h].run][req[h].attempt][req[h].step]
    BY <2>1 DEF SameJob, JobOf
  <2> QED
    BY Zenon, <2>2, <2>3, <2>4
<1>4. ASSUME NEW h \in Handlers, Pending(req'[h]), run'[req[h].run].attempt = req[h].attempt
      PROVE  /\ run'[req[h].run].attempt = run[req[h].run].attempt
             /\ run'[req[h].run].resume = run[req[h].run].resume
  <2>1. Pending(req[h])
    BY Zenon, <1>4 DEF ReqKept
  <2>2. /\ req[h].run \in Runs /\ req[h].attempt \in Attempts /\ req[h].step \in Steps
        /\ jobs[req[h].run][req[h].attempt][req[h].step].status # "None"
    BY Zenon, <2>1, PendingFields DEF ClaimInv, ClaimsHeld, JobOf
  <2>3. jobs[req[h].run][req[h].attempt] # NoChain
    BY <2>2 DEF NoChain, NoJob
  <2>4. ~(req[h].attempt > run[req[h].run].attempt)
    BY Zenon, <2>2, <2>3 DEF IInv, ChainsPlanned
  <2>5. run[req[h].run].attempt \in Nat
    BY <2>2 DEF TypeOK, RunRows, Attempts
  <2> QED
    BY <1>4, <2>2, <2>4, <2>5 DEF RunsSettle, Attempts
<1> QED
  BY <1>1, <1>2, <1>3, <1>4, ClaimStepInv

-----------------------------------------------------------------------------
(* The requests.                                                           *)

\* A process that goes on to something that is no claim and no report.
LEMMA GotoKept ==
  ASSUME TypeOK, ClaimInv, NEW p \in Procs, NEW x, Goto(p, x),
         x.op \notin {"claimed", "unclaim", "complete"}
  PROVE  \A h \in Handlers : ReqKept(h)
<1> SUFFICES ASSUME NEW h \in Handlers PROVE ReqKept(h)
  OBVIOUS
<1>1. h \in Procs
  BY DEF Procs
<1>2. req'[h] = IF h = p THEN x ELSE req[h]
  BY <1>1, Mover
<1>3. CASE h = p
  BY <1>2, <1>3 DEF ReqKept, Pending
<1>4. CASE h # p
  BY <1>2, <1>4 DEF ReqKept, SameJob, ClaimInv, ReportsReal
<1> QED
  BY <1>3, <1>4

LEMMA SameKept ==
  ASSUME ClaimInv, req' = req
  PROVE  \A h \in Handlers : ReqKept(h)
BY DEF ReqKept, SameJob, ClaimInv, ReportsReal

\* A claim whose payload cannot be built stays pending.
LEMMA ClaimErrorInv ==
  ASSUME IInv, ClaimInv, NEW h \in Handlers,
         ClaimPayloadError(h) \/ ClaimTerminalError(h) \/ ClaimCompletionFailed(h)
  PROVE  ClaimInv'
<1> TypeOK /\ h \in Procs
  BY DEF IInv, Procs
<1>1. exec' = exec /\ run' = run /\ jobs' = jobs
  BY DEF ClaimPayloadError, ClaimTerminalError, ClaimCompletionFailed
<1>2. ASSUME NEW x, Goto(h, x), Pending(req[h]), Pending(x), SameJob(x, req[h]),
             Claimant(x) = Claimant(req[h])
      PROVE  \A g \in Handlers : ReqKept(g)
  <2> SUFFICES ASSUME NEW g \in Handlers PROVE ReqKept(g)
    OBVIOUS
  <2>1. g \in Procs
    BY DEF Procs
  <2>2. req'[g] = IF g = h THEN x ELSE req[g]
    BY <1>2, <2>1, Mover
  <2>3. CASE g = h
    BY <1>2, <2>2, <2>3 DEF ReqKept, Pending
  <2>4. CASE g # h
    BY <2>2, <2>4 DEF ReqKept, SameJob, ClaimInv, ReportsReal
  <2> QED
    BY <2>3, <2>4
<1>3. ASSUME req[h].op = "claimed", Goto(h, [req[h] EXCEPT !.op = "unclaim"])
      PROVE  \A g \in Handlers : ReqKept(g)
  <2>1. PICK x : x = [req[h] EXCEPT !.op = "unclaim"]
    BY Zenon
  <2>2. req[h] \in ClaimReq
    BY <1>3, ReqFields
  <2>3. /\ x.op = "unclaim" /\ x.node = req[h].node /\ x.run = req[h].run
        /\ x.attempt = req[h].attempt /\ x.step = req[h].step
    BY <2>1, <2>2 DEF ClaimReq
  <2> QED
    BY Zenon, <1>2, <1>3, <2>1, <2>3 DEF Pending, SameJob, Claimant
<1>4. ASSUME ClaimPayloadError(h)
      PROVE  \A g \in Handlers : ReqKept(g)
  BY <1>3, <1>4 DEF ClaimPayloadError
<1>5. ASSUME ClaimTerminalError(h)
      PROVE  \A g \in Handlers : ReqKept(g)
  <2>1. req[h].op = "claimed" /\ req[h] \in ClaimReq /\ req[h].node # NoNode
    BY <1>5, ReqFields, ChainAssumption DEF ClaimTerminalError, ClaimReq
  <2>2. \/ Goto(h, [req[h] EXCEPT !.op = "unclaim"])
        \/ Goto(h, Completion(req[h].run, req[h].attempt, req[h].step, 0, "Error", NoSha, req[h].node))
    BY Zenon, <1>5 DEF ClaimTerminalError
  <2>3. ASSUME Goto(h, Completion(req[h].run, req[h].attempt, req[h].step, 0, "Error", NoSha, req[h].node))
        PROVE  \A g \in Handlers : ReqKept(g)
    <3>1. PICK x : x = Completion(req[h].run, req[h].attempt, req[h].step, 0, "Error", NoSha, req[h].node)
      OBVIOUS
    <3>2. /\ x.op = "complete" /\ x.claimer = req[h].node /\ x.run = req[h].run
          /\ x.attempt = req[h].attempt /\ x.step = req[h].step
      BY <3>1 DEF Completion
    <3> QED
      BY <1>2, <2>1, <2>3, <3>1, <3>2 DEF Pending, SameJob, Claimant
  <2> QED
    BY Zenon, <1>3, <2>1, <2>2, <2>3
<1>6. ASSUME ClaimCompletionFailed(h)
      PROVE  \A g \in Handlers : ReqKept(g)
  <2>1. req[h].op = "complete" /\ req[h].claimer # NoNode
    BY <1>6 DEF ClaimCompletionFailed
  <2>2. PICK x : x = [op |-> "unclaim", node |-> req[h].claimer, run |-> req[h].run,
                      attempt |-> req[h].attempt, step |-> req[h].step]
    BY Zenon
  <2>3. /\ x.op = "unclaim" /\ x.node = req[h].claimer /\ x.run = req[h].run
        /\ x.attempt = req[h].attempt /\ x.step = req[h].step
    BY <2>2
  <2>4. Goto(h, x)
    BY <1>6, <2>2 DEF ClaimCompletionFailed
  <2> QED
    BY <1>2, <2>1, <2>3, <2>4 DEF Pending, SameJob, Claimant
<1>7. \A g \in Handlers : ReqKept(g)
  BY <1>4, <1>5, <1>6
<1> QED
  BY <1>1, <1>7, SettleInv DEF ChainsSettle, RunsSettle

\* An accepted report is that of an execution.
LEMMA CompleteBeginInv ==
  ASSUME IInv, ClaimInv, NEW h \in Handlers, NEW e \in exec, NEW s \in Outcomes, NEW sha \in Shas,
         CompleteBegin(h, e, s, sha)
  PROVE  ClaimInv'
<1> TypeOK /\ h \in Procs
  BY DEF IInv, Procs
<1>1. exec' = exec /\ run' = run /\ jobs' = jobs
  BY DEF CompleteBegin
<1>2. PICK x : x = Completion(e.run, e.attempt, e.step, e.resume, s, sha, NoNode)
  OBVIOUS
<1>3. /\ x.op = "complete" /\ x.claimer = NoNode /\ x.run = e.run /\ x.attempt = e.attempt
      /\ x.step = e.step /\ x.resume = e.resume
  BY <1>2 DEF Completion
<1>4. Goto(h, x)
  BY <1>2 DEF CompleteBegin
<1>5. ASSUME NEW g \in Handlers PROVE ReqKept(g)
  <2>1. g \in Procs
    BY DEF Procs
  <2>2. req'[g] = IF g = h THEN x ELSE req[g]
    BY <1>4, <2>1, Mover
  <2>3. CASE g = h
    BY <1>3, <2>2, <2>3 DEF ReqKept, Pending, SameJob
  <2>4. CASE g # h
    BY <2>2, <2>4 DEF ReqKept, SameJob, ClaimInv, ReportsReal
  <2> QED
    BY <2>3, <2>4
<1> QED
  BY <1>1, <1>5, SettleInv DEF ChainsSettle, RunsSettle

\* Steps that only move a request.
LEMMA OtherInv ==
  ASSUME IInv, ClaimInv, exec' = exec, run' = run, jobs' = jobs,
         \/ req' = req
         \/ \E p \in Procs : \E x : Goto(p, x) /\ x.op \notin {"claimed", "unclaim", "complete"}
  PROVE  ClaimInv'
<1> TypeOK
  BY DEF IInv
<1>1. \A h \in Handlers : ReqKept(h)
  BY SameKept, GotoKept
<1> QED
  BY <1>1, SettleInv DEF ChainsSettle, RunsSettle

LEMMA FinishInv ==
  ASSUME IInv, ClaimInv, NEW p \in Procs, FinishWave(p) \/ Abort(p)
  PROVE  ClaimInv'
<1> TypeOK
  BY DEF IInv
<1>1. exec' = exec /\ run' = run /\ jobs' = jobs
  BY DEF FinishWave, WaveCount, WaveCheck, WaveWrite, Abort
<1>2. Idle.op = "idle"
  BY DEF Idle
<1>3. CASE WaveWrite(p) \/ Abort(p)
  <2>1. Goto(p, Idle)
    BY <1>3 DEF WaveWrite, Abort
  <2> QED
    BY <1>1, <1>2, <2>1, OtherInv
<1>4. CASE WaveCount(p) \/ WaveCheck(p)
  <2>1. req[p] \in WaveReq
    BY <1>4, ReqFields DEF WaveCount, WaveCheck
  <2>2. \A o : [req[p] EXCEPT !.op = o].op = o
    BY <2>1 DEF WaveReq
  <2>3. \/ Goto(p, Idle) \/ Goto(p, [req[p] EXCEPT !.op = "waveCheck"])
        \/ Goto(p, [req[p] EXCEPT !.op = "waveWrite"])
    BY Zenon, <1>4 DEF WaveCount, WaveCheck
  <2>4. \E x : Goto(p, x) /\ x.op \in {"idle", "waveCheck", "waveWrite"}
    BY Zenon, <1>2, <2>2, <2>3
  <2> QED
    BY <1>1, <2>4, OtherInv
<1> QED
  BY <1>3, <1>4 DEF FinishWave

\* A restart that has not committed.
LEMMA RestartQuietInv ==
  ASSUME IInv, ClaimInv, NEW h \in Handlers, RestartRun(h), ~RestartCommit(h)
  PROVE  ClaimInv'
<1> TypeOK /\ h \in Procs
  BY DEF IInv, Procs
<1>1. exec' = exec /\ run' = run /\ jobs' = jobs
  BY Zenon DEF RestartRun, RestartRead, RestartBegin, RestartRefused
<1>2. \E x : Goto(h, x) /\ x.op \in {"idle", "restart", "restartTx"}
  <2>1. Idle.op = "idle"
    BY DEF Idle
  <2>2. ASSUME NEW r \in Runs, NEW f \in BOOLEAN, RestartRead(h, r, f)
        PROVE  \E x : Goto(h, x) /\ x.op \in {"idle", "restart", "restartTx"}
    BY <2>2 DEF RestartRead
  <2>3. CASE RestartBegin(h)
    <3>1. PICK x : x = [op |-> "restartTx", run |-> req[h].run, attempt |-> req[h].attempt,
                        resume |-> req[h].resume, fromFailed |-> req[h].fromFailed,
                        revive |-> wave[WaveOf[req[h].run]] = "Finished"]
      BY Zenon
    <3>2. x.op = "restartTx"
      BY <3>1
    <3>3. Goto(h, x) \/ Goto(h, Idle)
      BY Zenon, <2>3, <3>1 DEF RestartBegin
    <3> QED
      BY Zenon, <2>1, <3>2, <3>3
  <2>4. CASE RestartRefused(h)
    BY <2>1, <2>4 DEF RestartRefused
  <2> QED
    BY <2>2, <2>3, <2>4 DEF RestartRun
<1> QED
  BY <1>1, <1>2, OtherInv

-----------------------------------------------------------------------------
(* Cancellations, recovery, submission and the full restart.               *)

LEMMA CancelInv ==
  ASSUME IInv, ClaimInv, NEW h \in Handlers, CancelRun(h) \/ CancelWave(h)
  PROVE  ClaimInv'
<1> TypeOK /\ h \in Procs
  BY DEF IInv, Procs
<1>1. CASE CancelRunCommit(h)
  <2>1. req[h].run \in Runs
    BY Zenon, <1>1, ReqFields DEF CancelRunCommit, CancelRunTxReq
  <2>2. ChainsSettle
    <3>1. ASSUME NEW r \in Runs, NEW a \in Attempts
          PROVE  jobs'[r][a] = IF r = req[h].run THEN CancelActiveJobs(jobs[r][a]) ELSE jobs[r][a]
      BY <1>1, <2>1 DEF CancelRunCommit, TypeOK
    <3> QED
      BY <3>1 DEF ChainsSettle
  <2>3. RunsSettle
    <3>1. run' = run \/ run' = [run EXCEPT ![req[h].run].status = "Cancelled"]
      BY Zenon, <1>1 DEF CancelRunCommit
    <3> QED
      BY <2>1, <3>1 DEF RunsSettle, TypeOK, RunRows
  <2>4. Goto(h, Idle) /\ exec' = exec
    BY <1>1 DEF CancelRunCommit
  <2>5. Idle.op = "idle"
    BY Zenon DEF Idle
  <2> QED
    BY Zenon, <2>2, <2>3, <2>4, <2>5, GotoKept, SettleInv
<1>2. CASE CancelWaveCommit(h)
  <2>1. ChainsSettle
    <3>1. ASSUME NEW r \in Runs, NEW a \in Attempts
          PROVE  jobs'[r][a] = IF WaveOf[r] = req[h].wave THEN CancelActiveJobs(jobs[r][a])
                                                          ELSE jobs[r][a]
      BY <1>2 DEF CancelWaveCommit, TypeOK
    <3> QED
      BY <3>1 DEF ChainsSettle
  <2>2. RunsSettle
    <3>1. \A r \in Runs : run'[r] = IF r \in req[h].runs THEN [run[r] EXCEPT !.status = "Cancelled"]
                                                         ELSE run[r]
      BY <1>2 DEF CancelWaveCommit
    <3>2. \A r \in Runs : run[r] \in RunRows
      BY DEF TypeOK
    <3> QED
      BY Zenon, <3>1, <3>2 DEF RunsSettle, RunRows
  <2>3. Goto(h, Idle) /\ exec' = exec
    BY <1>2 DEF CancelWaveCommit
  <2>4. Idle.op = "idle"
    BY DEF Idle
  <2> QED
    BY <2>1, <2>2, <2>3, <2>4, GotoKept, SettleInv
<1>3. ASSUME \/ \E r \in Runs : CancelRunRead(h, r)
             \/ CancelRunBegin(h)
             \/ \E w \in Waves : CancelWaveRead(h, w)
             \/ CancelWaveRuns(h)
      PROVE  ClaimInv'
  <2>1. exec' = exec /\ run' = run /\ jobs' = jobs
    BY Zenon, <1>3 DEF CancelRunRead, CancelRunBegin, CancelWaveRead, CancelWaveRuns
  <2>2. \E x : Goto(h, x) /\ x.op \in {"cancelRun", "cancelRunTx", "cancelWave", "cancelWaveTx"}
    <3>1. ASSUME NEW r \in Runs, CancelRunRead(h, r)
          PROVE  \E x : Goto(h, x) /\ x.op = "cancelRun"
      BY <3>1 DEF CancelRunRead
    <3>2. CASE CancelRunBegin(h)
      BY <3>2 DEF CancelRunBegin
    <3>3. ASSUME NEW w \in Waves, CancelWaveRead(h, w)
          PROVE  \E x : Goto(h, x) /\ x.op = "cancelWave"
      BY <3>3 DEF CancelWaveRead
    <3>4. CASE CancelWaveRuns(h)
      BY <3>4 DEF CancelWaveRuns
    <3> QED
      BY <1>3, <3>1, <3>2, <3>3, <3>4
  <2> QED
    BY <2>1, <2>2, OtherInv
<1> QED
  BY <1>1, <1>2, <1>3 DEF CancelRun, CancelWave

LEMMA RecoverInv ==
  ASSUME IInv, ClaimInv, Recover
  PROVE  ClaimInv'
<1> TypeOK /\ Recovery \in Procs
  BY DEF IInv, Procs
<1>1. ASSUME NEW s \in Runs, NEW b \in Attempts, RecoverCancelJobs(s, b)
      PROVE  ClaimInv'
  <2>1. ChainsSettle
    <3>1. ASSUME NEW r \in Runs, NEW a \in Attempts
          PROVE  jobs'[r][a] = IF r = s /\ a = b THEN CancelActiveJobs(jobs[r][a]) ELSE jobs[r][a]
      BY <1>1 DEF RecoverCancelJobs, TypeOK
    <3> QED
      BY <3>1 DEF ChainsSettle
  <2>2. RunsSettle /\ exec' = exec
    BY <1>1 DEF RecoverCancelJobs, RunsSettle
  <2>3. \E x : Goto(Recovery, x) /\ x.op = "staleEval"
    BY <1>1 DEF RecoverCancelJobs
  <2> QED
    BY <2>1, <2>2, <2>3, GotoKept, SettleInv
<1>2. CASE RecoverWriteRun
  <2>1. req[Recovery] \in StaleWriteReq
    BY <1>2, ReqFields DEF RecoverWriteRun
  <2>2. req[Recovery].run \in Runs
    BY <2>1 DEF StaleWriteReq
  <2>3. run' = [run EXCEPT ![req[Recovery].run].status = req[Recovery].status]
    BY <1>2 DEF RecoverWriteRun
  <2>4. RunsSettle
    BY <2>2, <2>3 DEF RunsSettle, TypeOK, RunRows
  <2>5. ChainsSettle /\ exec' = exec
    BY <1>2 DEF RecoverWriteRun, ChainsSettle
  <2>6. \E x : Goto(Recovery, x) /\ x.op = "waveCount"
    BY <1>2 DEF RecoverWriteRun
  <2> QED
    BY <2>4, <2>5, <2>6, GotoKept, SettleInv
<1>3. CASE RecoverEvalRun
  <2>1. exec' = exec /\ run' = run /\ jobs' = jobs
    BY <1>3 DEF RecoverEvalRun
  <2>2. PICK x : x = [op |-> "staleWrite", run |-> req[Recovery].run,
                      status |-> RunOutcome(jobs[req[Recovery].run][req[Recovery].attempt])]
    BY Zenon
  <2>3. x.op = "staleWrite" /\ Idle.op = "idle"
    BY <2>2 DEF Idle
  <2>4. Goto(Recovery, x) \/ Goto(Recovery, Idle)
    BY Zenon, <1>3, <2>2 DEF RecoverEvalRun
  <2> QED
    BY Zenon, <2>1, <2>3, <2>4, OtherInv
<1>4. ASSUME \/ \E overdue \in SUBSET Nodes : ListStaleRunningJobs(overdue)
             \/ \E r \in Runs, a \in Attempts : RecoverCancelFailed(r, a)
      PROVE  ClaimInv'
  BY Zenon, <1>4, OtherInv DEF ListStaleRunningJobs, RecoverCancelFailed
<1> QED
  BY <1>1, <1>2, <1>3, <1>4 DEF Recover

LEMMA CreateInv ==
  ASSUME IInv, ClaimInv, NEW w \in Waves, CreateWaveWithRuns(w)
  PROVE  ClaimInv'
<1>1. ChainsSettle
  <2>1. ASSUME NEW r \in Runs, NEW a \in Attempts
        PROVE  jobs'[r][a] = jobs[r][a] \/ jobs[r][a] = NoChain
    BY CreateChains
  <2> QED
    BY <2>1 DEF ChainsSettle
<1>2. RunsSettle
  <2>1. \A r \in Runs : run'[r] = IF r \in RunsOf(w) THEN [run[r] EXCEPT !.status = "Running"]
                                                     ELSE run[r]
    BY DEF CreateWaveWithRuns
  <2>2. \A r \in Runs : run[r] \in RunRows
    BY DEF IInv, TypeOK
  <2> QED
    BY Zenon, <2>1, <2>2 DEF RunsSettle, RunRows
<1>3. exec' = exec /\ req' = req
  BY DEF CreateWaveWithRuns
<1> QED
  BY <1>1, <1>2, <1>3, SameKept, SettleInv

LEMMA RestartFullInv ==
  ASSUME IInv, ClaimInv, NEW h \in Handlers, RestartCommit(h), RestartFull(h)
  PROVE  ClaimInv'
<1> TypeOK /\ h \in Procs
  BY DEF IInv, Procs
<1> DEFINE s == req[h].run
           b == run[s].attempt
<1>1. ~req[h].fromFailed
  BY Zenon DEF RestartFull
<1>2. s \in Runs /\ b \in Attempts /\ b + 1 # b /\ jobs[s][b + 1] = NoChain
  BY Zenon, <1>1, RestartFinds
<1>3. ChainsSettle
  <2>1. ASSUME NEW r \in Runs, NEW a \in Attempts
        PROVE  \/ jobs'[r][a] = jobs[r][a] \/ jobs'[r][a] = CancelActiveJobs(jobs[r][a])
               \/ jobs[r][a] = NoChain
    <3>1. jobs'[r][a] = CASE r = s /\ a = b     -> CancelActiveJobs(jobs[s][b])
                          [] r = s /\ a = b + 1 -> createPlannedJobs
                          [] OTHER              -> jobs[r][a]
      BY RestartFullChains
    <3> HIDE DEF s, b
    <3> QED
      BY ZenonT(30), <1>2, <3>1
  <2> QED
    BY <2>1 DEF ChainsSettle
<1>4. RunsSettle
  <2>1. run' = [run EXCEPT ![s] = [status |-> "Running", attempt |-> run[s].attempt + 1, resume |-> 0]]
    BY Zenon DEF RestartFull
  <2> HIDE DEF s
  <2> QED
    BY Zenon, <1>2, <2>1 DEF RunsSettle, TypeOK
<1>5. Goto(h, Idle) /\ exec' = exec
  BY DEF RestartCommit
<1>6. Idle.op = "idle"
  BY DEF Idle
<1> QED
  BY <1>3, <1>4, <1>5, <1>6, GotoKept, SettleInv

-----------------------------------------------------------------------------
(* Claims.                                                                 *)

\* A queued job has no pending claim and no execution under the count of now.
LEMMA ClaimJobInv ==
  ASSUME IInv, ClaimInv, NEW h \in Handlers, NEW n \in Nodes, NEW r \in Runs,
         NEW a \in Attempts, NEW k \in Steps, ClaimJob(h, n, r, a, k)
  PROVE  ClaimInv'
<1> TypeOK /\ h \in Procs
  BY DEF IInv, Procs
<1>1. PICK x : x = [op |-> "claimed", node |-> n, run |-> r, attempt |-> a, step |-> k]
  BY Zenon
<1>2. /\ x.op = "claimed" /\ x.node = n /\ x.run = r /\ x.attempt = a /\ x.step = k
      /\ Pending(x) /\ Claimant(x) = n
  BY <1>1 DEF Pending, Claimant
<1>3. \A g \in Handlers : req'[g] = IF g = h THEN x ELSE req[g]
  BY <1>1, Mover DEF ClaimJob, Procs
<1>4. exec' = exec /\ run' = run
  BY DEF ClaimJob
<1>5. jobs[r][a][k].status = "Queued" /\ jobs[r][a][k].node \in {NoNode, n}
  BY DEF ClaimJob, Claimable
<1>6. /\ jobs'[r][a][k].status = "Running" /\ jobs'[r][a][k].node = n /\ jobs'[r][a][k].started
      /\ \A s \in Runs, b \in Attempts, i \in Steps :
           ~(s = r /\ b = a /\ i = k) => jobs'[s][b][i] = jobs[s][b][i]
  <2>1. jobs[r][a] \in Chains /\ jobs[r][a][k] \in Jobs
    BY DEF TypeOK, Chains
  <2>2. \A s \in Runs, b \in Attempts :
          jobs'[s][b] = IF s = r /\ b = a THEN SetRunning(jobs[s][b], k, n) ELSE jobs[s][b]
    BY DEF ClaimJob, TypeOK
  <2>3. SetRunning(jobs[r][a], k, n) =
          [jobs[r][a] EXCEPT ![k] = [jobs[r][a][k] EXCEPT !.status = "Running", !.node = n, !.started = TRUE]]
    BY Zenon DEF SetRunning
  <2>4. PICK j : j = [jobs[r][a][k] EXCEPT !.status = "Running", !.node = n, !.started = TRUE]
    OBVIOUS
  <2>5. j.status = "Running" /\ j.node = n /\ j.started
    BY <2>1, <2>4 DEF Jobs
  <2>6. jobs'[r][a] = [jobs[r][a] EXCEPT ![k] = j]
    BY Zenon, <2>2, <2>3, <2>4
  <2> QED
    BY <2>1, <2>2, <2>5, <2>6 DEF Chains
<1>7. ASSUME NEW g \in Handlers, g # h, Pending(req'[g])
      PROVE  /\ req'[g] = req[g] /\ Pending(req[g]) /\ ~SameJob(req[g], x)
             /\ JobOf(req[g])' = JobOf(req[g])
  <2>1. req'[g] = req[g] /\ Pending(req[g])
    BY Zenon, <1>3, <1>7
  <2>2. /\ req[g].run \in Runs /\ req[g].attempt \in Attempts /\ req[g].step \in Steps
        /\ JobOf(req[g]).status \in {"Running", "Cancelled"}
    BY Zenon, <2>1, PendingFields DEF ClaimInv, ClaimsHeld
  <2>3. ~SameJob(req[g], x)
    BY <1>2, <1>5, <2>2 DEF SameJob, JobOf
  <2>4. ~(req[g].run = r /\ req[g].attempt = a /\ req[g].step = k)
    BY Zenon, <1>2, <2>3 DEF SameJob
  <2>5. jobs'[req[g].run][req[g].attempt][req[g].step] = jobs[req[g].run][req[g].attempt][req[g].step]
    BY Zenon, <1>6, <2>2, <2>4
  <2> QED
    BY Zenon, <2>1, <2>3, <2>5 DEF JobOf
<1>8. ClaimsHeld'
  <2> SUFFICES ASSUME NEW g \in Handlers, Pending(req'[g])
               PROVE  /\ JobOf(req[g])'.status \in {"Running", "Cancelled"}
                      /\ JobOf(req[g])'.started
                      /\ JobOf(req[g])'.node = Claimant(req'[g])
    BY Zenon DEF ClaimsHeld
  <2>1. CASE g = h
    BY Zenon, <1>2, <1>3, <1>6, <2>1 DEF JobOf
  <2>2. CASE g # h
    BY Zenon, <1>7, <2>2 DEF ClaimInv, ClaimsHeld
  <2> QED
    BY <2>1, <2>2
<1>9. ASSUME NEW e \in exec, SameJob(e, x)
      PROVE  /\ e.node = n
             /\ e.attempt = run[e.run].attempt => e.resume # run[e.run].resume
  <2>1. JobOf(e) = jobs[r][a][k] /\ e.node \in Nodes
    BY Zenon, <1>2, <1>9, ExecFields DEF SameJob, JobOf
  <2> QED
    BY <1>5, <2>1, ChainAssumption DEF ClaimInv, ExecsOwned
<1>10. ClaimsAlone'
  <2> SUFFICES ASSUME NEW g \in Handlers, Pending(req'[g])
               PROVE  /\ \A f \in Handlers : Pending(req'[f]) /\ SameJob(req'[f], req'[g]) => f = g
                      /\ \A e \in exec : SameJob(e, req'[g]) /\ e.attempt = run[e.run].attempt =>
                           e.resume # run[e.run].resume
    BY Zenon, <1>4 DEF ClaimsAlone
  <2>1. req'[h] = x
    BY Zenon, <1>3
  <2>2. CASE g = h
    BY Zenon, <1>7, <1>9, <2>1, <2>2 DEF SameJob
  <2>3. CASE g # h
    <3>1. req'[g] = req[g] /\ Pending(req[g]) /\ ~SameJob(req[g], x)
      BY Zenon, <1>7, <2>3
    <3>2. ASSUME NEW f \in Handlers, Pending(req'[f]), SameJob(req'[f], req'[g])
          PROVE  f = g
      <4>1. f # h
        BY Zenon, <2>1, <3>1, <3>2 DEF SameJob
      <4>2. req'[f] = req[f] /\ Pending(req[f])
        BY Zenon, <1>7, <3>2, <4>1
      <4> QED
        BY Zenon, <3>1, <3>2, <4>2 DEF ClaimInv, ClaimsAlone
    <3> QED
      BY Zenon, <3>1, <3>2 DEF ClaimInv, ClaimsAlone
  <2> QED
    BY Zenon, <2>2, <2>3
<1>11. ExecsOwned'
  <2> SUFFICES ASSUME NEW e \in exec
               PROVE  /\ e.attempt = run[e.run].attempt /\ e.resume = run[e.run].resume =>
                           jobs'[e.run][e.attempt][e.step].status \notin {"None", "Created", "Queued"}
                      /\ jobs'[e.run][e.attempt][e.step].node = e.node
    BY Zenon, <1>4 DEF ExecsOwned, JobOf, ClaimInv
  <2>1. CASE SameJob(e, x)
    BY Zenon, <1>2, <1>6, <1>9, <2>1 DEF SameJob
  <2>2. CASE ~SameJob(e, x)
    <3>1. jobs'[e.run][e.attempt][e.step] = JobOf(e)
      BY Zenon, <1>2, <1>6, <2>2, ExecFields DEF SameJob, JobOf
    <3> QED
      BY Zenon, <3>1 DEF ClaimInv, ExecsOwned
  <2> QED
    BY Zenon, <2>1, <2>2
<1>12. ReportsReal'
  <2> SUFFICES ASSUME NEW g \in Handlers, req'[g].op = "complete", req'[g].claimer = NoNode
               PROVE  \E e \in exec : SameJob(e, req'[g]) /\ e.resume = req'[g].resume
    BY <1>4 DEF ReportsReal
  <2>1. req'[g] = req[g]
    BY <1>2, <1>3
  <2> QED
    BY Zenon, <2>1 DEF ClaimInv, ReportsReal
<1> QED
  BY <1>8, <1>10, <1>11, <1>12 DEF ClaimInv

\* The payload is delivered: the claim becomes the job's one execution.
LEMMA ClaimDeliveredInv ==
  ASSUME IInv, ClaimInv, NEW h \in Handlers, ClaimDelivered(h)
  PROVE  ClaimInv'
<1> TypeOK /\ h \in Procs
  BY Zenon DEF IInv, Procs
<1>1. req[h].op = "claimed" /\ req[h] \in ClaimReq /\ Pending(req[h]) /\ Claimant(req[h]) = req[h].node
  BY Zenon, ReqFields DEF ClaimDelivered, Pending, Claimant
<1>2. PICK x : x = [node |-> req[h].node, run |-> req[h].run, attempt |-> req[h].attempt,
                    step |-> req[h].step, resume |-> run[req[h].run].resume]
  BY Zenon
<1>3. /\ x.node = req[h].node /\ SameJob(x, req[h]) /\ x.resume = run[x.run].resume
      /\ x.run = req[h].run /\ x.attempt = req[h].attempt /\ x.step = req[h].step
  BY <1>2 DEF SameJob
<1>4. exec' = exec \cup {x} /\ run' = run /\ jobs' = jobs
  BY <1>2 DEF ClaimDelivered
<1>5. \A g \in Handlers : Pending(req'[g]) => g # h /\ req'[g] = req[g]
  <2>1. Idle.op = "idle"
    BY Zenon DEF Idle
  <2>2. \A g \in Handlers : req'[g] = IF g = h THEN Idle ELSE req[g]
    BY Zenon, Mover DEF ClaimDelivered, Procs
  <2> QED
    BY <2>1, <2>2 DEF Pending
<1>6. /\ req[h].run \in Runs /\ req[h].attempt \in Attempts /\ req[h].step \in Steps
      /\ JobOf(req[h]).status \in {"Running", "Cancelled"}
      /\ JobOf(req[h]).node = req[h].node
  BY Zenon, <1>1, PendingFields DEF ClaimInv, ClaimsHeld
<1>7. ClaimsHeld'
  BY Zenon, <1>4, <1>5 DEF ClaimInv, ClaimsHeld, JobOf
<1>8. ClaimsAlone'
  <2> SUFFICES ASSUME NEW g \in Handlers, Pending(req'[g])
               PROVE  /\ \A f \in Handlers : Pending(req'[f]) /\ SameJob(req'[f], req'[g]) => f = g
                      /\ \A e \in exec' : SameJob(e, req'[g]) /\ e.attempt = run[e.run].attempt =>
                           e.resume # run[e.run].resume
    BY <1>4 DEF ClaimsAlone
  <2>1. g # h /\ req'[g] = req[g] /\ Pending(req[g])
    BY <1>5
  <2>2. ~SameJob(x, req[g])
    <3>1. ~SameJob(req[g], req[h])
      BY <1>1, <2>1 DEF ClaimInv, ClaimsAlone
    <3> QED
      BY Zenon, <1>3, <3>1 DEF SameJob
  <2>3. \A f \in Handlers : Pending(req'[f]) => req'[f] = req[f] /\ Pending(req[f])
    BY Zenon, <1>5
  <2> QED
    BY Zenon, <1>4, <2>1, <2>2, <2>3 DEF ClaimInv, ClaimsAlone
<1>9. ExecsOwned'
  <2> SUFFICES ASSUME NEW e \in exec'
               PROVE  /\ e.attempt <= run[e.run].attempt
                      /\ e.attempt = run[e.run].attempt =>
                           /\ e.resume <= run[e.run].resume
                           /\ e.resume = run[e.run].resume =>
                                JobOf(e).status \notin {"None", "Created", "Queued"}
                      /\ JobOf(e).node = e.node
    BY <1>4 DEF ExecsOwned, JobOf
  <2>1. CASE e \in exec
    BY Zenon, <2>1 DEF ClaimInv, ExecsOwned
  <2>2. CASE e = x
    <3>1. JobOf(e) = JobOf(req[h])
      BY <1>3, <2>2 DEF JobOf
    <3>2. jobs[req[h].run][req[h].attempt] # NoChain
      <4>1. NoChain[req[h].step].status = "None"
        BY Zenon, <1>6 DEF NoChain, NoJob
      <4>2. jobs[req[h].run][req[h].attempt][req[h].step].status # "None"
        BY Zenon, <1>6 DEF JobOf
      <4> QED
        BY Zenon, <4>1, <4>2
    <3>3. ~(req[h].attempt > run[req[h].run].attempt)
      BY Zenon, <1>6, <3>2 DEF IInv, ChainsPlanned
    <3>4. run[x.run].attempt \in Nat /\ x.attempt \in Nat /\ run[x.run].resume \in Nat
      BY <1>3, <1>6, LifecycleAssumption DEF TypeOK, RunRows, Attempts
    <3>5. x.attempt <= run[x.run].attempt /\ x.resume <= run[x.run].resume
      BY <1>3, <3>3, <3>4
    <3> QED
      BY Zenon, <1>3, <1>6, <2>2, <3>1, <3>5
  <2> QED
    BY Zenon, <1>4, <2>1, <2>2
<1>10. ReportsReal'
  <2> SUFFICES ASSUME NEW g \in Handlers, req'[g].op = "complete", req'[g].claimer = NoNode
               PROVE  \E e \in exec' : SameJob(e, req'[g]) /\ e.resume = req'[g].resume
    BY Zenon DEF ReportsReal
  <2>1. req'[g] = IF g = h THEN Idle ELSE req[g]
    BY Zenon, Mover DEF ClaimDelivered, Procs
  <2>2. req'[g] = req[g]
    BY <2>1 DEF Idle
  <2> QED
    BY <1>4, <2>2 DEF ClaimInv, ReportsReal
<1> QED
  BY <1>7, <1>8, <1>9, <1>10 DEF ClaimInv

\* A job that is given back is its claimant's alone: nobody executes it under the
\* count of now, so it may lose its node, and a resumed run keeps the node.
LEMMA UnclaimJobInv ==
  ASSUME IInv, ClaimInv, NEW h \in Handlers, UnclaimJob(h)
  PROVE  ClaimInv'
<1> TypeOK /\ h \in Procs
  BY DEF IInv, Procs
<1> DEFINE r == req[h].run
           a == req[h].attempt
           k == req[h].step
           z == run[r].resume > 0
<1>1. /\ r \in Runs /\ a \in Attempts /\ k \in Steps /\ Pending(req[h])
  <2>1. req[h].op = "unclaim" /\ req[h] \in ClaimReq
    BY Zenon, ReqFields DEF UnclaimJob
  <2> QED
    BY Zenon, <2>1 DEF ClaimReq, Pending
<1>2. exec' = exec /\ run' = run /\ Goto(h, Idle) /\ Idle.op = "idle"
  BY Zenon DEF UnclaimJob, Idle
<1>3. \/ jobs' = jobs
      \/ /\ jobs[r][a][k].status = "Running"
         /\ jobs' = [jobs EXCEPT ![r][a] = Requeued(jobs[r][a], k, z)]
  BY Zenon DEF UnclaimJob
<1>4. CASE jobs' = jobs
  BY Zenon, <1>2, <1>4, OtherInv
<1>5. CASE /\ jobs[r][a][k].status = "Running"
           /\ jobs' = [jobs EXCEPT ![r][a] = Requeued(jobs[r][a], k, z)]
  <2>1. /\ jobs'[r][a][k].node = IF z THEN jobs[r][a][k].node ELSE NoNode
        /\ \A s \in Runs, b \in Attempts, i \in Steps :
             ~(s = r /\ b = a /\ i = k) => jobs'[s][b][i] = jobs[s][b][i]
    <3> HIDE DEF r, a, k, z
    <3>1. jobs[r][a] \in Chains /\ jobs[r][a][k] \in Jobs
      BY <1>1 DEF TypeOK, Chains
    <3>2. PICK j : j = [jobs[r][a][k] EXCEPT !.status = "Queued", !.started = FALSE,
                                             !.node = IF z THEN jobs[r][a][k].node ELSE NoNode]
      OBVIOUS
    <3>3. j.node = IF z THEN jobs[r][a][k].node ELSE NoNode
      BY <3>1, <3>2 DEF Jobs
    <3>4. Requeued(jobs[r][a], k, z) = [jobs[r][a] EXCEPT ![k] = j]
      BY Zenon, <3>2 DEF Requeued
    <3>5. \A s \in Runs, b \in Attempts :
            jobs'[s][b] = IF s = r /\ b = a THEN [jobs[r][a] EXCEPT ![k] = j] ELSE jobs[s][b]
      BY Zenon, <1>1, <1>5, <3>4 DEF TypeOK
    <3> QED
      BY <1>1, <3>1, <3>3, <3>5 DEF Chains
  <2>2. a = run[r].attempt /\ run[r].resume \in 0..MaxResume
    <3>1. jobs[r][a] # NoChain /\ ~AllTerminal(jobs[r][a])
      <4> HIDE DEF r, a, k, z
      <4>1. k \in Steps /\ jobs[r][a][k].status = "Running"
        BY Zenon, <1>1, <1>5
      <4>2. jobs[r][a] # NoChain
        BY <4>1 DEF NoChain, NoJob
      <4> QED
        BY <4>1, <4>2 DEF AllTerminal, Outcomes
    <3>2. ~(a > run[r].attempt) /\ ~(a < run[r].attempt)
      BY <1>1, <3>1 DEF IInv, ChainsPlanned, OldAttemptsSettled
    <3>3. a \in Nat /\ run[r].attempt \in Nat /\ run[r].resume \in 0..MaxResume
      BY <1>1 DEF TypeOK, RunRows, Attempts
    <3> QED
      BY <3>2, <3>3
  <2>3. ASSUME NEW e \in exec, SameJob(e, req[h])
        PROVE  e.resume < run[r].resume /\ e.run = r /\ e.attempt = a /\ e.step = k
    <3>1. e.run = r /\ e.attempt = a /\ e.step = k /\ e.attempt = run[e.run].attempt
      BY Zenon, <2>2, <2>3 DEF SameJob
    <3>2. e.resume <= run[e.run].resume /\ e.resume # run[e.run].resume
      BY Zenon, <1>1, <2>3, <3>1 DEF ClaimInv, ClaimsAlone, ExecsOwned
    <3>3. e.resume \in Nat /\ run[r].resume \in Nat
      BY <2>2, ExecFields
    <3> QED
      BY <3>1, <3>2, <3>3
  <2>4. ASSUME NEW e \in exec
        PROVE  /\ e.attempt = run[e.run].attempt /\ e.resume = run[e.run].resume =>
                    jobs'[e.run][e.attempt][e.step].status \notin {"None", "Created", "Queued"}
               /\ jobs'[e.run][e.attempt][e.step].node = e.node
    <3>1. CASE SameJob(e, req[h])
      <4>1. e.resume < run[r].resume /\ e.run = r /\ e.attempt = a /\ e.step = k
        BY Zenon, <2>3, <3>1
      <4>2. z
        BY <2>2, <4>1, ExecFields
      <4>3. jobs[r][a][k].node = e.node
        BY Zenon, <4>1 DEF ClaimInv, ExecsOwned, JobOf
      <4>4. e.resume # run[e.run].resume
        BY <2>2, <4>1, ExecFields
      <4> QED
        BY Zenon, <2>1, <4>1, <4>2, <4>3, <4>4
    <3>2. CASE ~SameJob(e, req[h])
      <4>1. jobs'[e.run][e.attempt][e.step] = JobOf(e)
        BY Zenon, <2>1, <3>2, ExecFields DEF SameJob, JobOf
      <4> QED
        BY Zenon, <4>1 DEF ClaimInv, ExecsOwned
    <3> QED
      BY Zenon, <3>1, <3>2
  <2>5. \A g \in Handlers : ReqKept(g)
    BY Zenon, <1>2, GotoKept
  <2>6. ASSUME NEW g \in Handlers, Pending(req'[g])
        PROVE  JobOf(req[g])' = JobOf(req[g]) /\ Pending(req[g])
    <3>1. req'[g] = IF g = h THEN Idle ELSE req[g]
      BY <1>2, Mover DEF Procs
    <3>2. g # h /\ req'[g] = req[g]
      BY Zenon, <1>2, <2>6, <3>1 DEF Pending
    <3>3. Pending(req[g]) /\ ~SameJob(req[g], req[h])
      BY <1>1, <2>6, <3>2 DEF ClaimInv, ClaimsAlone
    <3>4. /\ req[g].run \in Runs /\ req[g].attempt \in Attempts /\ req[g].step \in Steps
          /\ ~(req[g].run = r /\ req[g].attempt = a /\ req[g].step = k)
      BY Zenon, <3>3, PendingFields DEF SameJob
    <3>5. jobs'[req[g].run][req[g].attempt][req[g].step] = jobs[req[g].run][req[g].attempt][req[g].step]
      BY Zenon, <2>1, <3>4
    <3> QED
      BY <3>2, <3>3, <3>5 DEF JobOf
  <2>7. ASSUME NEW g \in Handlers, Pending(req'[g])
        PROVE  /\ JobOf(req[g])'.status \in {"Running", "Cancelled"}
               /\ JobOf(req[g])'.started
               /\ JobOf(req[g])'.node = JobOf(req[g]).node
    <3>1. JobOf(req[g])' = JobOf(req[g]) /\ Pending(req[g])
      BY Zenon, <2>6, <2>7
    <3>2. JobOf(req[g]).status \in {"Running", "Cancelled"} /\ JobOf(req[g]).started
      BY Zenon, <3>1 DEF ClaimInv, ClaimsHeld
    <3> QED
      BY Zenon, <3>1, <3>2
  <2>8. \A e \in exec : /\ e.attempt <= run'[e.run].attempt
                        /\ e.attempt = run'[e.run].attempt => e.resume <= run'[e.run].resume
    BY Zenon, <1>2 DEF ClaimInv, ExecsOwned
  <2> HIDE DEF r, a, k, z
  <2> QED
    BY Zenon, <1>2, <2>4, <2>5, <2>7, <2>8, ClaimStepInv
<1> QED
  BY Zenon, <1>3, <1>4, <1>5

-----------------------------------------------------------------------------
(* Completion and resume.                                                  *)

\* What a completion writes to a job: the outcome to the one it names; the others
\* keep their status, are cancelled, or are released when they were waiting.
LEMMA CompletedJob ==
  ASSUME NEW c \in Chains, NEW k \in Steps, NEW s \in Outcomes, NEW sha \in Shas, NEW i \in Steps
  PROVE  LET d == CompleteStep(c, k, s, sha)
         IN  /\ d[i].node = c[i].node /\ d[i].started = c[i].started
             /\ i = k => d[i].status = s
             /\ i # k => \/ d[i].status \in {c[i].status, "Cancelled"}
                         \/ c[i].status = "Created" /\ d[i].status = "Queued"
<1> DEFINE u == UpdateJobCompletion(c, k, s, sha)
<1>1. c[i] \in Jobs /\ k \in Nat /\ i \in Nat
  BY ChainAssumption DEF Chains, Steps
<1>2. PICK out : out = IF sha = NoSha THEN c[k].shaOut ELSE sha
  OBVIOUS
<1>3. u[i] = CASE i = k                    -> [c[i] EXCEPT !.status = s, !.shaOut = out]
               [] i = k + 1 /\ out # NoSha -> [c[i] EXCEPT !.shaIn = out]
               [] OTHER                    -> c[i]
  BY Zenon, <1>2 DEF UpdateJobCompletion
<1>4. out \in Shas /\ s \in JobStatuses
  BY Zenon, <1>2 DEF Chains, Jobs, JobStatuses
<1> HIDE DEF u
<1>5. /\ u[i].node = c[i].node /\ u[i].started = c[i].started /\ u[i] \in Jobs
      /\ u[i].status = IF i = k THEN s ELSE c[i].status
  <2>1. CASE i = k
    <3>1. u[i] = [c[i] EXCEPT !.status = s, !.shaOut = out]
      <4>1. k # k + 1
        BY <1>1
      <4> QED
        BY Zenon, <1>3, <2>1, <4>1
    <3> QED
      BY Zenon, <1>1, <1>4, <2>1, <3>1 DEF Jobs
  <2>2. CASE i = k + 1 /\ out # NoSha
    <3>1. u[i] = [c[i] EXCEPT !.shaIn = out] /\ i # k
      BY <1>1, <1>3, <2>2
    <3> QED
      BY <1>1, <1>4, <3>1 DEF Jobs
  <2>3. CASE i # k /\ ~(i = k + 1 /\ out # NoSha)
    BY <1>1, <1>3, <2>3
  <2> QED
    BY <2>1, <2>2, <2>3
<1>6. PromoteNext(u, k)[i] = IF i = k + 1 /\ u[i].status = "Created" /\ u[k].status = "Success"
                             THEN [u[i] EXCEPT !.status = "Queued"] ELSE u[i]
  BY Zenon DEF PromoteNext
<1>7. cancelRemainingJobs(u, k)[i] = IF i > k /\ u[i].status \notin Outcomes
                                     THEN [u[i] EXCEPT !.status = "Cancelled"] ELSE u[i]
  BY Zenon DEF cancelRemainingJobs
<1>8. CASE s = "Success"
  <2>1. CompleteStep(c, k, s, sha) = PromoteNext(u, k)
    BY Zenon, <1>8 DEF CompleteStep, u
  <2> QED
    BY <1>1, <1>5, <1>6, <2>1 DEF Jobs
<1>9. CASE s # "Success"
  <2>1. CompleteStep(c, k, s, sha) = cancelRemainingJobs(u, k)
    BY Zenon, <1>9 DEF CompleteStep, u
  <2> QED
    BY <1>1, <1>5, <1>7, <2>1 DEF Jobs
<1> QED
  BY <1>8, <1>9

\* A job that is completed has no other pending claim: the report is either part of
\* the claim or that of an execution under the count of now.
LEMMA CompleteCommitInv ==
  ASSUME IInv, ClaimInv, NEW h \in Handlers, CompleteCommit(h)
  PROVE  ClaimInv'
<1> TypeOK /\ h \in Procs
  BY DEF IInv, Procs
<1> DEFINE r == req[h].run
           a == req[h].attempt
           k == req[h].step
<1>1. /\ req[h].op = "complete" /\ req[h] \in CompleteReq /\ RequestOK(req[h])
  BY ReqFields DEF CompleteCommit, IInv, RequestsCurrent
<1>2. /\ r \in Runs /\ a \in Attempts /\ k \in Steps
      /\ req[h].status \in Outcomes /\ req[h].sha \in Shas
  BY Zenon, <1>1 DEF CompleteReq
<1>3. run[r].attempt = a /\ run[r].resume = req[h].resume
  BY <1>1 DEF RequestOK
<1>4. exec' = exec
  BY Zenon DEF CompleteCommit
<1>5. \A g \in Handlers : ReqKept(g) /\ (Pending(req'[g]) => g # h /\ req'[g] = req[g])
  <2>1. PICK x : Goto(h, x) /\ x.op \in {"idle", "waveCount"}
    <3>1. \/ Goto(h, [op |-> "waveCount", wave |-> WaveOf[r]])
          \/ Goto(h, Idle)
      BY Zenon DEF CompleteCommit
    <3>2. [op |-> "waveCount", wave |-> WaveOf[r]].op = "waveCount" /\ Idle.op = "idle"
      BY DEF Idle
    <3> QED
      BY <3>1, <3>2
  <2>2. x.op \notin {"claimed", "unclaim", "complete"}
    BY <2>1
  <2>3. \A g \in Handlers : req'[g] = IF g = h THEN x ELSE req[g]
    BY <2>1, Mover DEF Procs
  <2> QED
    BY Zenon, <2>1, <2>2, <2>3, GotoKept DEF Pending
<1>6. \A s \in Runs : run'[s].attempt = run[s].attempt /\ run'[s].resume = run[s].resume
  <2>1. \/ run' = run
        \/ \E o : run' = [run EXCEPT ![r].status = o]
    BY Zenon DEF CompleteCommit
  <2> SUFFICES ASSUME NEW s \in Runs
               PROVE  run'[s].attempt = run[s].attempt /\ run'[s].resume = run[s].resume
    OBVIOUS
  <2>2. run \in [Runs -> RunRows] /\ run[s] \in RunRows
    BY DEF TypeOK
  <2> HIDE DEF r
  <2>3. \/ run'[s] = run[s]
        \/ \E o : run'[s] = [run[s] EXCEPT !.status = o]
    BY Zenon, <1>2, <2>1, <2>2
  <2> QED
    BY Zenon, <2>2, <2>3 DEF RunRows
<1>7. ASSUME NEW s \in Runs, NEW b \in Attempts, NEW i \in Steps
      PROVE  /\ jobs'[s][b][i].node = jobs[s][b][i].node
             /\ jobs'[s][b][i].started = jobs[s][b][i].started
             /\ \/ jobs'[s][b][i].status \in {jobs[s][b][i].status, "Cancelled"}
                \/ jobs[s][b][i].status = "Created"
                \/ s = r /\ b = a /\ i = k /\ jobs'[s][b][i].status \in Outcomes
  <2>1. jobs'[s][b] = IF s = r /\ b = a
                      THEN CompleteStep(jobs[s][b], k, req[h].status, req[h].sha) ELSE jobs[s][b]
    BY Zenon, CompleteChains
  <2>2. jobs[s][b] \in Chains
    BY Zenon DEF TypeOK
  <2> HIDE DEF r, a, k
  <2>3. CASE s = r /\ b = a
    <3>1. PICK st \in Outcomes, sha \in Shas : jobs'[s][b] = CompleteStep(jobs[s][b], k, st, sha)
      BY Zenon, <1>2, <2>1, <2>3
    <3> QED
      BY <1>2, <2>2, <2>3, <3>1, CompletedJob
  <2>4. CASE ~(s = r /\ b = a)
    BY Zenon, <2>1, <2>4
  <2> QED
    BY Zenon, <2>3, <2>4
<1>8. ASSUME NEW g \in Handlers, Pending(req'[g])
      PROVE  g # h /\ req'[g] = req[g] /\ Pending(req[g]) /\ ~SameJob(req[g], req[h])
  <2>1. g # h /\ req'[g] = req[g] /\ Pending(req[g])
    BY <1>5, <1>8
  <2>2. CASE req[h].claimer # NoNode
    <3>1. Pending(req[h])
      BY <1>1, <2>2 DEF Pending
    <3> QED
      BY <2>1, <3>1 DEF ClaimInv, ClaimsAlone
  <2>3. CASE req[h].claimer = NoNode
    <3>1. PICK e \in exec : SameJob(e, req[h]) /\ e.resume = req[h].resume
      BY <1>1, <2>3 DEF ClaimInv, ReportsReal
    <3>2. e.run = r /\ e.attempt = run[e.run].attempt /\ e.resume = run[e.run].resume
      BY <1>3, <3>1 DEF SameJob
    <3>3. ~SameJob(e, req[g])
      BY Zenon, <2>1, <3>2 DEF ClaimInv, ClaimsAlone
    <3> QED
      BY <2>1, <3>1, <3>3 DEF SameJob
  <2> QED
    BY Zenon, <2>1, <2>2, <2>3
<1>9. ASSUME NEW g \in Handlers, Pending(req'[g])
      PROVE  /\ JobOf(req[g])'.status \in {"Running", "Cancelled"}
             /\ JobOf(req[g])'.started
             /\ JobOf(req[g])'.node = JobOf(req[g]).node
             /\ run'[req[g].run].attempt = run[req[g].run].attempt
             /\ run'[req[g].run].resume = run[req[g].run].resume
  <2>1. req'[g] = req[g] /\ Pending(req[g]) /\ ~SameJob(req[g], req[h])
    BY <1>8, <1>9
  <2>2. PICK s, b, i : s = req[g].run /\ b = req[g].attempt /\ i = req[g].step
    OBVIOUS
  <2>3. s \in Runs /\ b \in Attempts /\ i \in Steps /\ ~(s = r /\ b = a /\ i = k)
    BY Zenon, <2>1, <2>2, PendingFields DEF SameJob
  <2>4. JobOf(req[g])' = jobs'[s][b][i] /\ JobOf(req[g]) = jobs[s][b][i]
    BY Zenon, <2>1, <2>2 DEF JobOf
  <2>5. jobs[s][b][i].status \in {"Running", "Cancelled"} /\ jobs[s][b][i].started
    BY Zenon, <2>1, <2>4 DEF ClaimInv, ClaimsHeld
  <2>6. /\ jobs'[s][b][i].node = jobs[s][b][i].node
        /\ jobs'[s][b][i].started = jobs[s][b][i].started
        /\ jobs'[s][b][i].status \in {jobs[s][b][i].status, "Cancelled"}
    BY Zenon, <1>7, <2>3, <2>5
  <2> QED
    BY Zenon, <1>6, <2>2, <2>3, <2>4, <2>5, <2>6
<1>10. ASSUME NEW e \in exec
       PROVE  /\ e.attempt <= run'[e.run].attempt
              /\ e.attempt = run'[e.run].attempt =>
                   /\ e.resume <= run'[e.run].resume
                   /\ e.resume = run'[e.run].resume =>
                        jobs'[e.run][e.attempt][e.step].status \notin {"None", "Created", "Queued"}
              /\ jobs'[e.run][e.attempt][e.step].node = e.node
  <2>1. e.run \in Runs /\ e.attempt \in Attempts /\ e.step \in Steps
    BY ExecFields
  <2>2. /\ run'[e.run].attempt = run[e.run].attempt /\ run'[e.run].resume = run[e.run].resume
    BY Zenon, <1>6, <2>1
  <2>3. /\ jobs'[e.run][e.attempt][e.step].node = JobOf(e).node
        /\ \/ jobs'[e.run][e.attempt][e.step].status \in {JobOf(e).status, "Cancelled"}
           \/ JobOf(e).status = "Created"
           \/ jobs'[e.run][e.attempt][e.step].status \in Outcomes
    BY Zenon, <1>7, <2>1 DEF JobOf
  <2> QED
    BY Zenon, <2>2, <2>3 DEF ClaimInv, ExecsOwned, Outcomes
<1> HIDE DEF r, a, k
<1> QED
  BY Zenon, <1>4, <1>5, <1>9, <1>10, ClaimStepInv

\* A resumed chain has no pending claim, and the executions it had are behind its
\* new count.
LEMMA ResumeInv ==
  ASSUME IInv, ClaimInv, NEW h \in Handlers, RestartCommit(h),
         NEW k \in Steps, RestartFromFailed(h, k)
  PROVE  ClaimInv'
<1> TypeOK /\ h \in Procs
  BY DEF IInv, Procs
<1> DEFINE r == req[h].run
           a == run[r].attempt
<1>1. r \in Runs /\ a \in Attempts
  BY ZenonT(30), RestartFinds
<1>2. exec' = exec /\ Goto(h, Idle) /\ Idle.op = "idle"
  BY Zenon DEF RestartCommit, Idle
<1>3. \A g \in Handlers : ReqKept(g) /\ (Pending(req'[g]) => g # h /\ req'[g] = req[g])
  <2>1. \A g \in Handlers : req'[g] = IF g = h THEN Idle ELSE req[g]
    BY Zenon, <1>2, Mover DEF Procs
  <2> QED
    BY Zenon, <1>2, <2>1, GotoKept DEF Pending
<1>4. failedJobSuffix(jobs[r][a], k) /\ jobs[r][a] \in Chains
  <2>1. failedJobSuffix(jobs[r][a], k)
    BY Zenon DEF RestartFromFailed
  <2> HIDE DEF r, a
  <2> QED
    BY <1>1, <2>1 DEF TypeOK
<1>5. \A s \in Runs, b \in Attempts :
        jobs'[s][b] = IF s = r /\ b = a THEN resumeFailedJobs(jobs[r][a], k) ELSE jobs[s][b]
  <2> SUFFICES ASSUME NEW s \in Runs, NEW b \in Attempts
               PROVE  jobs'[s][b] = IF s = r /\ b = a THEN resumeFailedJobs(jobs[r][a], k)
                                                     ELSE jobs[s][b]
    BY Zenon
  <2> QED
    BY ZenonT(30), ResumeChains
<1>6. \A s \in Runs : /\ run'[s].attempt = run[s].attempt
                      /\ run'[s].resume = IF s = r THEN run[s].resume + 1 ELSE run[s].resume
  <2>1. run' = [run EXCEPT ![r].status = "Running", ![r].resume = @ + 1]
    BY Zenon DEF RestartFromFailed
  <2> HIDE DEF r, a
  <2> QED
    BY <1>1, <2>1 DEF TypeOK, RunRows
<1> HIDE DEF r, a
<1>7. ASSUME NEW i \in Steps
      PROVE  /\ resumeFailedJobs(jobs[r][a], k)[i].node = jobs[r][a][i].node
             /\ ~(jobs[r][a][i].status \in {"Running", "Cancelled"} /\ jobs[r][a][i].started)
  <2>1. i < k \/ i = k \/ i > k
    BY ChainAssumption DEF Steps
  <2>2. /\ i < k => i \in 1..(k - 1)
        /\ i > k => i \in (k + 1)..N
    BY ChainAssumption DEF Steps
  <2> QED
    BY <1>4, <2>1, <2>2 DEF resumeFailedJobs, failedJobSuffix, Chains, Jobs
<1>8. ASSUME NEW g \in Handlers, Pending(req'[g])
      PROVE  /\ JobOf(req[g])'.status \in {"Running", "Cancelled"}
             /\ JobOf(req[g])'.started
             /\ JobOf(req[g])'.node = JobOf(req[g]).node
             /\ run'[req[g].run].attempt = req[g].attempt =>
                  /\ run'[req[g].run].attempt = run[req[g].run].attempt
                  /\ run'[req[g].run].resume = run[req[g].run].resume
  <2>1. req'[g] = req[g] /\ Pending(req[g])
    BY <1>3, <1>8
  <2>2. PICK s, b, i : s = req[g].run /\ b = req[g].attempt /\ i = req[g].step
    OBVIOUS
  <2>3. s \in Runs /\ b \in Attempts /\ i \in Steps
    BY Zenon, <2>1, <2>2, PendingFields
  <2>4. JobOf(req[g])' = jobs'[s][b][i] /\ JobOf(req[g]) = jobs[s][b][i]
    BY Zenon, <2>1, <2>2 DEF JobOf
  <2>5. jobs[s][b][i].status \in {"Running", "Cancelled"} /\ jobs[s][b][i].started
    BY <2>1, <2>4 DEF ClaimInv, ClaimsHeld
  <2>6. ~(s = r /\ b = a)
    BY Zenon, <1>7, <2>3, <2>5
  <2>7. jobs'[s][b] = jobs[s][b]
    BY Zenon, <1>5, <2>3, <2>6
  <2>8. run'[s].attempt = b => run'[s].attempt = run[s].attempt /\ run'[s].resume = run[s].resume
    BY Zenon, <1>6, <2>3, <2>6 DEF a
  <2> QED
    BY Zenon, <2>2, <2>4, <2>5, <2>7, <2>8
<1>9. ASSUME NEW e \in exec
      PROVE  /\ e.attempt <= run'[e.run].attempt
             /\ e.attempt = run'[e.run].attempt =>
                  /\ e.resume <= run'[e.run].resume
                  /\ e.resume = run'[e.run].resume =>
                       jobs'[e.run][e.attempt][e.step].status \notin {"None", "Created", "Queued"}
             /\ jobs'[e.run][e.attempt][e.step].node = e.node
  <2>1. /\ e.run \in Runs /\ e.attempt \in Attempts /\ e.step \in Steps /\ e.resume \in Nat
        /\ run[e.run].resume \in Nat
    BY ExecFields DEF RunRows
  <2>2. /\ e.attempt <= run[e.run].attempt
        /\ e.attempt = run[e.run].attempt =>
             /\ e.resume <= run[e.run].resume
             /\ e.resume = run[e.run].resume =>
                  jobs[e.run][e.attempt][e.step].status \notin {"None", "Created", "Queued"}
        /\ jobs[e.run][e.attempt][e.step].node = e.node
    BY Zenon DEF ClaimInv, ExecsOwned, JobOf
  <2>3. CASE e.run = r /\ e.attempt = a
    <3>1. jobs'[e.run][e.attempt][e.step].node = e.node
      <4>1. jobs'[e.run][e.attempt] = resumeFailedJobs(jobs[r][a], k)
        BY Zenon, <1>5, <2>1, <2>3
      <4>2. resumeFailedJobs(jobs[r][a], k)[e.step].node = jobs[r][a][e.step].node
        BY Zenon, <1>7, <2>1
      <4> QED
        BY Zenon, <2>2, <2>3, <4>1, <4>2
    <3>2. e.attempt = run[e.run].attempt /\ run'[e.run].attempt = run[e.run].attempt
      BY Zenon, <1>6, <2>1, <2>3 DEF a
    <3>3. e.resume <= run'[e.run].resume /\ e.resume # run'[e.run].resume
      BY <1>6, <2>1, <2>2, <2>3, <3>2
    <3> QED
      BY Zenon, <2>2, <3>1, <3>2, <3>3
  <2>4. CASE ~(e.run = r /\ e.attempt = a)
    <3>1. jobs'[e.run][e.attempt] = jobs[e.run][e.attempt]
      BY Zenon, <1>5, <2>1, <2>4
    <3>2. /\ run'[e.run].attempt = run[e.run].attempt
          /\ e.attempt = run[e.run].attempt => run'[e.run].resume = run[e.run].resume
      BY <1>6, <2>1, <2>4 DEF a
    <3> QED
      BY Zenon, <2>2, <3>1, <3>2
  <2> QED
    BY Zenon, <2>3, <2>4
<1> QED
  BY Zenon, <1>2, <1>3, <1>8, <1>9, ClaimStepInv

-----------------------------------------------------------------------------
\* Every step of the system keeps the claims and the executions as they must be.
LEMMA ClaimNext ==
  ASSUME IInv, ClaimInv, [Next]_vars
  PROVE  ClaimInv'
<1>1. ASSUME NEW h \in Handlers, Claim(h)
      PROVE  ClaimInv'
  BY <1>1, ClaimJobInv, ClaimDeliveredInv, ClaimErrorInv, UnclaimJobInv DEF Claim
<1>2. ASSUME NEW h \in Handlers, Complete(h)
      PROVE  ClaimInv'
  BY <1>2, CompleteBeginInv, CompleteCommitInv DEF Complete
<1>3. ASSUME NEW h \in Handlers, RestartRun(h)
      PROVE  ClaimInv'
  <2>1. CASE RestartCommit(h)
    <3>1. RestartFull(h) \/ \E k \in Steps : RestartFromFailed(h, k)
      BY Zenon, <2>1 DEF RestartCommit
    <3> QED
      BY <2>1, <3>1, RestartFullInv, ResumeInv
  <2> QED
    BY <1>3, <2>1, RestartQuietInv
<1>4. ASSUME NEW h \in Handlers, CancelRun(h) \/ CancelWave(h)
      PROVE  ClaimInv'
  BY <1>4, CancelInv
<1>5. ASSUME NEW n \in Nodes, NEW d \in BOOLEAN, SetNodeDrained(n, d)
      PROVE  ClaimInv'
  BY <1>5, OtherInv DEF SetNodeDrained
<1>6. CASE UNCHANGED vars
  BY <1>6, OtherInv DEF vars
<1> QED
  BY Zenon, <1>1, <1>2, <1>3, <1>4, <1>5, <1>6, CreateInv, FinishInv, RecoverInv DEF Next

\* ClaimJob hands out a job that nobody else is about to deliver, give back or
\* report, whatever restarts, cancellations, recoveries and crashes interleave:
\* the claim protocol keeps its invariant in every reachable state.
THEOREM ClaimInvariant == Spec => []ClaimInv
<1>1. Init => ClaimInv
  <2> SUFFICES ASSUME Init PROVE ClaimInv
    OBVIOUS
  <2>1. exec = {} /\ \A h \in Handlers : req[h].op = "idle"
    BY DEF Init, Procs, Idle
  <2> QED
    BY <2>1 DEF ClaimInv, ClaimsHeld, ClaimsAlone, ExecsOwned, ReportsReal, Pending
<1>2. IInv /\ ClaimInv /\ [Next]_vars => ClaimInv'
  BY ClaimNext
<1> QED
  BY <1>1, <1>2, Invariance, PTL DEF Spec

\* No two nodes ever execute the same step of one attempt under the same resume
\* count: UnclaimJob, RestartRun and RecoverStaleRunningJobs never hand a job to a
\* second node while the first may still run it.
THEOREM ExecutionExclusive == Spec => []ExclusiveExecution
<1>1. ClaimInv => ExclusiveExecution
  BY DEF ClaimInv, ExecsOwned, ExclusiveExecution, JobOf
<1> QED
  BY <1>1, ClaimInvariant, PTL
=============================================================================
