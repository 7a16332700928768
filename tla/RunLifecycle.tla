---------------------------- MODULE RunLifecycle ----------------------------
(***************************************************************************)
(* Waves, runs and job chains in the control plane's database, and the     *)
(* requests and the background task that change them.                      *)
(*                                                                         *)
(* Each server goroutine that serves a request is a handler; the stale-job *)
(* recovery task is one more process.  A step of a process is one database *)
(* statement, or the part of a transaction that other transactions cannot  *)
(* tell from one statement: PostgreSQL runs at READ COMMITTED, so what a   *)
(* transaction read without a row lock may have changed when it commits.   *)
(* Row locks on runs and waves are read off the requests in flight.        *)
(*                                                                         *)
(* Nodes appear through what they send: a node that was handed a job may   *)
(* report any outcome for it, late, twice or never.                        *)
(***************************************************************************)
EXTENDS JobChain, FiniteSets

CONSTANTS Waves, Runs, Repos,
          WaveOf,      \* the wave a run belongs to
          RepoOf,      \* the repository a run works on
          Handlers,    \* server goroutines serving requests
          Recovery,    \* the goroutine of the stale-job recovery task
          MaxAttempt,  \* bound on runs.attempt
          MaxResume,   \* bound on the resume count of one attempt
          Ops          \* the kinds of request and fault that occur

ASSUME LifecycleAssumption ==
  /\ WaveOf \in [Runs -> Waves]
  /\ RepoOf \in [Runs -> Repos]
  /\ Recovery \notin Handlers
  /\ MaxAttempt \in Nat \ {0}
  /\ MaxResume \in Nat

VARIABLES wave,     \* waves.status
          run,      \* runs: status, attempt, stats.resume_count
          jobs,     \* the chain of each attempt of each run
          drained,  \* nodes that are drained
          exec,     \* executions handed to nodes in claim responses
          req,      \* what each process is doing
          stale     \* run attempts the recovery cycle has still to treat

vars == <<wave, run, jobs, drained, exec, req, stale>>

Procs == Handlers \cup {Recovery}
Attempts == 1..MaxAttempt
WaveTerminal == {"Finished", "Cancelled"}
RunTerminal == {"Success", "Fail", "Cancelled"}

RunRows == [status  : {"None", "Running"} \cup RunTerminal,
            attempt : Attempts,
            resume  : 0..MaxResume]

\* The resume count is part of an execution: a retry reuses the job id.
Execs == [node : Nodes, run : Runs, attempt : Attempts, step : Steps,
          resume : 0..MaxResume]

\* The state of a request between two of its steps.
Idle == [op |-> "idle"]
ClaimReq == [op : {"claimed", "unclaim"}, node : Nodes, run : Runs,
             attempt : Attempts, step : Steps]
CompleteReq == [op : {"complete"}, run : Runs, attempt : Attempts, step : Steps,
                resume : 0..MaxResume, status : Outcomes, sha : Shas,
                claimer : Nodes \cup {NoNode}]
WaveReq == [op : {"waveCount", "waveCheck", "waveWrite"}, wave : Waves]
RestartReq == [op : {"restart"}, run : Runs, attempt : Attempts,
               resume : 0..MaxResume, fromFailed : BOOLEAN]
RestartTxReq == [op : {"restartTx"}, run : Runs, attempt : Attempts,
                 resume : 0..MaxResume, fromFailed : BOOLEAN, revive : BOOLEAN]
CancelRunReq == [op : {"cancelRun"}, run : Runs]
CancelRunTxReq == [op : {"cancelRunTx"}, run : Runs, active : BOOLEAN]
CancelWaveReq == [op : {"cancelWave"}, wave : Waves, active : BOOLEAN]
CancelWaveTxReq == [op : {"cancelWaveTx"}, wave : Waves, active : BOOLEAN,
                    runs : SUBSET Runs]
StaleEvalReq == [op : {"staleEval"}, run : Runs, attempt : Attempts]
StaleWriteReq == [op : {"staleWrite"}, run : Runs, status : RunTerminal]
Requests == {Idle} \cup ClaimReq \cup CompleteReq \cup WaveReq
            \cup RestartReq \cup RestartTxReq \cup CancelRunReq \cup CancelRunTxReq
            \cup CancelWaveReq \cup CancelWaveTxReq \cup StaleEvalReq \cup StaleWriteReq

Goto(p, r) == req' = [req EXCEPT ![p] = r]

RunsOf(w) == {r \in Runs : WaveOf[r] = w}

\* A request holds the row lock of a run from its first locking statement to
\* the commit.
LockedBy(x, r) ==
  \/ x.op \in {"complete", "restartTx"} /\ x.run = r
  \/ x.op = "cancelWaveTx" /\ r \in x.runs

RunLocked(r) == \E p \in Procs : LockedBy(req[p], r)

WaveLocked(w) ==
  \E p \in Procs :
    req[p].op = "cancelWaveTx" /\ req[p].wave = w /\ req[p].active

\* No run on the repository is active; the caller holds the repository lock.
RepoWithoutActiveRun(repo) ==
  \A r \in Runs : RepoOf[r] = repo => run[r].status # "Running"

\* The values that the rows, the requests and the recovery list may take.
TypeOK ==
  /\ wave \in [Waves -> {"None", "Started"} \cup WaveTerminal]
  /\ run \in [Runs -> RunRows]
  /\ jobs \in [Runs -> [Attempts -> Chains]]
  /\ drained \in SUBSET Nodes
  /\ exec \in SUBSET Execs
  /\ req \in [Procs -> Requests]
  /\ stale \in SUBSET (Runs \X Attempts)

Init ==
  /\ wave = [w \in Waves |-> "None"]
  /\ run = [r \in Runs |-> [status |-> "None", attempt |-> 1, resume |-> 0]]
  /\ jobs = [r \in Runs |-> [a \in Attempts |-> NoChain]]
  /\ drained = {}
  /\ exec = {}
  /\ req = [p \in Procs |-> Idle]
  /\ stale = {}

-----------------------------------------------------------------------------
(* Submission                                                              *)

\* Mutant: submission does not look for active runs on the repositories.
CreateWaveUnguarded(w) ==
  /\ "create" \in Ops
  /\ wave[w] = "None"
  /\ wave' = [wave EXCEPT ![w] = "Started"]
  /\ run' = [r \in Runs |-> IF WaveOf[r] = w THEN [run[r] EXCEPT !.status = "Running"]
                                             ELSE run[r]]
  /\ jobs' = [r \in Runs |-> IF WaveOf[r] = w THEN [jobs[r] EXCEPT ![1] = createPlannedJobs]
                                              ELSE jobs[r]]
  /\ UNCHANGED <<drained, exec, req, stale>>

\* One transaction creates the wave, its runs and their chains, unless a
\* repository of the wave is busy; the repository locks make it one step.
CreateWaveWithRuns(w) ==
  /\ "create" \in Ops
  /\ wave[w] = "None"
  /\ RunsOf(w) # {}
  /\ \A r \in RunsOf(w) : RepoWithoutActiveRun(RepoOf[r])
  /\ \A r, s \in RunsOf(w) : RepoOf[r] = RepoOf[s] => r = s
  /\ wave' = [wave EXCEPT ![w] = "Started"]
  /\ run' = [r \in Runs |-> IF r \in RunsOf(w) THEN [run[r] EXCEPT !.status = "Running"]
                                               ELSE run[r]]
  /\ jobs' = [r \in Runs |-> IF r \in RunsOf(w)
                             THEN [jobs[r] EXCEPT ![1] = createPlannedJobs]
                             ELSE jobs[r]]
  /\ UNCHANGED <<drained, exec, req, stale>>

-----------------------------------------------------------------------------
(* Claiming                                                                *)

\* An operator drains a node or returns it to service.
SetNodeDrained(n, d) ==
  /\ "drain" \in Ops
  /\ (n \in drained) # d
  /\ drained' = IF d THEN drained \cup {n} ELSE drained \ {n}
  /\ UNCHANGED <<wave, run, jobs, exec, req, stale>>

\* One statement picks a queued job and assigns it to the node.
ClaimJob(h, n, r, a, k) ==
  /\ "claim" \in Ops
  /\ req[h] = Idle
  /\ n \notin drained
  /\ Claimable(jobs[r][a], k, n)
  /\ run[r].status = "Running"
  /\ wave[WaveOf[r]] = "Started"
  /\ jobs' = [jobs EXCEPT ![r][a] = SetRunning(@, k, n)]
  /\ Goto(h, [op |-> "claimed", node |-> n, run |-> r, attempt |-> a, step |-> k])
  /\ UNCHANGED <<wave, run, drained, exec, stale>>

\* Mutant: the payload is sent and the job is given back all the same.
ClaimDeliveredAndUnclaimed(h) ==
  /\ req[h].op = "claimed"
  /\ exec' = exec \cup {[node |-> req[h].node, run |-> req[h].run,
                         attempt |-> req[h].attempt, step |-> req[h].step,
                         resume |-> run[req[h].run].resume]}
  /\ Goto(h, [req[h] EXCEPT !.op = "unclaim"])
  /\ UNCHANGED <<wave, run, jobs, drained, stale>>

\* The payload is built from the run as it is now and reaches the node.
ClaimDelivered(h) ==
  /\ req[h].op = "claimed"
  /\ exec' = exec \cup {[node |-> req[h].node, run |-> req[h].run,
                         attempt |-> req[h].attempt, step |-> req[h].step,
                         resume |-> run[req[h].run].resume]}
  /\ Goto(h, Idle)
  /\ UNCHANGED <<wave, run, jobs, drained, stale>>

\* Building the payload failed for a reason that may pass.
ClaimPayloadError(h) ==
  /\ "claimError" \in Ops
  /\ req[h].op = "claimed"
  /\ Goto(h, [req[h] EXCEPT !.op = "unclaim"])
  /\ UNCHANGED <<wave, run, jobs, drained, exec, stale>>

UnclaimJob(h) ==
  /\ req[h].op = "unclaim"
  /\ LET r == req[h].run
         job == jobs[r][req[h].attempt][req[h].step]
     IN  jobs' = IF job.status = "Running" /\ job.node = req[h].node
                 THEN [jobs EXCEPT ![r][req[h].attempt] =
                         Requeued(@, req[h].step, run[r].resume > 0)]
                 ELSE jobs
  /\ Goto(h, Idle)
  /\ UNCHANGED <<wave, run, drained, exec, stale>>

-----------------------------------------------------------------------------
(* Completion                                                              *)

\* Mutant: the resume count of the report is not compared.
AcceptsAnyResume(r, a, k, n, resume, s, sha) ==
  /\ run[r].attempt = a
  /\ jobs[r][a][k].node = n
  /\ jobs[r][a][k].status = "Running"

\* Mutant: the job need not be Running any more.
AcceptsSettled(r, a, k, n, resume, s, sha) ==
  LET job == jobs[r][a][k]
  IN  /\ run[r].resume = resume
      /\ run[r].attempt = a
      /\ job.node = n
      /\ s = "Success" /\ k < N =>
           job.shaIn # NoSha /\ EffectiveSha(job, k, s, sha) # NoSha

\* The checks made under the run lock before a completion is applied.
Accepts(r, a, k, n, resume, s, sha) ==
  LET job == jobs[r][a][k]
  IN  /\ run[r].resume = resume
      /\ run[r].attempt = a
      /\ job.node = n
      /\ job.status = "Running"
      /\ s = "Success" /\ k < N =>
           job.shaIn # NoSha /\ EffectiveSha(job, k, s, sha) # NoSha

\* The claimer is the node whose claim the completion is part of, if any.
Completion(r, a, k, resume, s, sha, claimer) ==
  [op |-> "complete", run |-> r, attempt |-> a, step |-> k, resume |-> resume,
   status |-> s, sha |-> EffectiveSha(jobs[r][a][k], k, s, sha), claimer |-> claimer]

\* A node reports an outcome; a rejected report changes nothing.
CompleteBegin(h, e, s, sha) ==
  /\ "complete" \in Ops
  /\ req[h] = Idle
  /\ ~RunLocked(e.run)
  /\ Accepts(e.run, e.attempt, e.step, e.node, e.resume, s, sha)
  /\ Goto(h, Completion(e.run, e.attempt, e.step, e.resume, s, sha, NoNode))
  /\ UNCHANGED <<wave, run, jobs, drained, exec, stale>>

\* The payload can never be built: the claim handler completes the job with
\* Error itself, under resume count 0, and gives it back if that is refused.
ClaimTerminalError(h) ==
  /\ "claimError" \in Ops
  /\ req[h].op = "claimed"
  /\ ~RunLocked(req[h].run)
  /\ LET r == req[h].run
         a == req[h].attempt
         k == req[h].step
     IN  Goto(h, IF Accepts(r, a, k, req[h].node, 0, "Error", NoSha)
                 THEN Completion(r, a, k, 0, "Error", NoSha, req[h].node)
                 ELSE [req[h] EXCEPT !.op = "unclaim"])
  /\ UNCHANGED <<wave, run, jobs, drained, exec, stale>>

\* Mutant: the run is written but its wave is not looked at.
CompleteCommitForgetsWave(h) ==
  /\ req[h].op = "complete"
  /\ LET r == req[h].run
         a == req[h].attempt
         c == CompleteStep(jobs[r][a], req[h].step, req[h].status, req[h].sha)
     IN  /\ jobs' = [jobs EXCEPT ![r][a] = c]
         /\ run' = IF AllTerminal(c) THEN [run EXCEPT ![r].status = RunOutcome(c)] ELSE run
  /\ Goto(h, Idle)
  /\ UNCHANGED <<wave, drained, exec, stale>>

\* The writes of the transaction: the outcome, the successors, and the run
\* when its last job ended.  A run that ended has its wave looked at next.
CompleteCommit(h) ==
  /\ req[h].op = "complete"
  /\ LET r == req[h].run
         a == req[h].attempt
         c == CompleteStep(jobs[r][a], req[h].step, req[h].status, req[h].sha)
     IN  /\ jobs' = [jobs EXCEPT ![r][a] = c]
         /\ IF AllTerminal(c)
            THEN /\ run' = [run EXCEPT ![r].status = RunOutcome(c)]
                 /\ Goto(h, [op |-> "waveCount", wave |-> WaveOf[r]])
            ELSE run' = run /\ Goto(h, Idle)
  /\ UNCHANGED <<wave, drained, exec, stale>>

-----------------------------------------------------------------------------
(* Finishing a wave, by a completion or by the recovery task               *)

\* The wave has runs, and the counts by status show only terminal ones.
EvaluateWaveCompletion(w) ==
  /\ RunsOf(w) # {}
  /\ \A r \in RunsOf(w) : run[r].status \in RunTerminal

\* Mutant: one terminal run is enough to finish the wave.
WaveCountAny(p) ==
  /\ req[p].op = "waveCount"
  /\ Goto(p, IF wave[req[p].wave] \notin WaveTerminal
             THEN [req[p] EXCEPT !.op = "waveCheck"] ELSE Idle)
  /\ UNCHANGED <<wave, run, jobs, drained, exec, stale>>

WaveCount(p) ==
  /\ req[p].op = "waveCount"
  /\ Goto(p, IF /\ wave[req[p].wave] \notin WaveTerminal
                /\ EvaluateWaveCompletion(req[p].wave)
             THEN [req[p] EXCEPT !.op = "waveCheck"] ELSE Idle)
  /\ UNCHANGED <<wave, run, jobs, drained, exec, stale>>

WaveCheck(p) ==
  /\ req[p].op = "waveCheck"
  /\ Goto(p, IF wave[req[p].wave] \notin WaveTerminal
             THEN [req[p] EXCEPT !.op = "waveWrite"] ELSE Idle)
  /\ UNCHANGED <<wave, run, jobs, drained, exec, stale>>

WaveWrite(p) ==
  /\ req[p].op = "waveWrite"
  /\ ~WaveLocked(req[p].wave)
  /\ wave' = [wave EXCEPT ![req[p].wave] = "Finished"]
  /\ Goto(p, Idle)
  /\ UNCHANGED <<run, jobs, drained, exec, stale>>

-----------------------------------------------------------------------------
(* Restarting a run                                                        *)

\* The handler reads the run to learn the attempt and resume count it expects.
RestartRead(h, r, fromFailed) ==
  /\ (IF fromFailed THEN "resume" ELSE "restart") \in Ops
  /\ req[h] = Idle
  /\ run[r].status # "None"
  /\ IF fromFailed THEN run[r].resume < MaxResume ELSE run[r].attempt < MaxAttempt
  /\ Goto(h, [op |-> "restart", run |-> r, attempt |-> run[r].attempt,
              resume |-> run[r].resume, fromFailed |-> fromFailed])
  /\ UNCHANGED <<wave, run, jobs, drained, exec, stale>>

\* Mutant: the run is read without FOR UPDATE.
RestartBeginUnlocked(h) ==
  /\ req[h].op = "restart"
  /\ LET r == req[h].run
     IN  Goto(h, IF /\ run[r].attempt = req[h].attempt
                    /\ run[r].status \in RunTerminal
                    /\ wave[WaveOf[r]] # "Cancelled"
                 THEN [op |-> "restartTx", run |-> r, attempt |-> req[h].attempt,
                       resume |-> req[h].resume, fromFailed |-> req[h].fromFailed,
                       revive |-> wave[WaveOf[r]] = "Finished"]
                 ELSE Idle)
  /\ UNCHANGED <<wave, run, jobs, drained, exec, stale>>

\* The transaction locks the run, checks it, and reads the wave unlocked.
RestartBegin(h) ==
  /\ req[h].op = "restart"
  /\ LET r == req[h].run
     IN  /\ ~RunLocked(r)
         /\ Goto(h, IF /\ run[r].attempt = req[h].attempt
                       /\ run[r].status \in RunTerminal
                       /\ wave[WaveOf[r]] # "Cancelled"
                    THEN [op |-> "restartTx", run |-> r, attempt |-> req[h].attempt,
                          resume |-> req[h].resume, fromFailed |-> req[h].fromFailed,
                          revive |-> wave[WaveOf[r]] = "Finished"]
                    ELSE Idle)
  /\ UNCHANGED <<wave, run, jobs, drained, exec, stale>>

\* A wave seen finished is started again together with the run.
ReviveWave(h) ==
  IF req[h].revive
  THEN /\ ~WaveLocked(WaveOf[req[h].run])
       /\ wave' = [wave EXCEPT ![WaveOf[req[h].run]] = "Started"]
  ELSE wave' = wave

\* Mutant: the new attempt inherits the resume count.
RestartFullKeepsResume(h) ==
  LET r == req[h].run
      a == run[r].attempt
  IN  /\ ~req[h].fromFailed
      /\ RepoWithoutActiveRun(RepoOf[r])
      /\ run' = [run EXCEPT ![r].status = "Running", ![r].attempt = @ + 1]
      /\ jobs' = [jobs EXCEPT ![r][a] = CancelActiveJobs(@),
                              ![r][a + 1] = createPlannedJobs]
      /\ ReviveWave(h)

\* A new attempt: leftovers of the old one are cancelled, a chain is planned,
\* and the resume count starts again.
RestartFull(h) ==
  LET r == req[h].run
      a == run[r].attempt
  IN  /\ ~req[h].fromFailed
      /\ RepoWithoutActiveRun(RepoOf[r])
      /\ run' = [run EXCEPT ![r] = [status |-> "Running", attempt |-> @.attempt + 1,
                                     resume |-> 0]]
      /\ jobs' = [jobs EXCEPT ![r][a] = CancelActiveJobs(@),
                              ![r][a + 1] = createPlannedJobs]
      /\ ReviveWave(h)

\* The same attempt again, from its failed step.
RestartFromFailed(h, k) ==
  LET r == req[h].run
      a == run[r].attempt
  IN  /\ req[h].fromFailed
      /\ RepoWithoutActiveRun(RepoOf[r])
      /\ run[r].status \in {"Fail", "Cancelled"}
      /\ run[r].resume = req[h].resume
      /\ failedJobSuffix(jobs[r][a], k)
      /\ run' = [run EXCEPT ![r].status = "Running", ![r].resume = @ + 1]
      /\ jobs' = [jobs EXCEPT ![r][a] = resumeFailedJobs(@, k)]
      /\ ReviveWave(h)

RestartCommit(h) ==
  /\ req[h].op = "restartTx"
  /\ RestartFull(h) \/ \E k \in Steps : RestartFromFailed(h, k)
  /\ Goto(h, Idle)
  /\ UNCHANGED <<drained, exec, stale>>

\* The repository is busy, or the chain is not one that can be resumed.
RestartRefused(h) ==
  /\ req[h].op = "restartTx"
  /\ LET r == req[h].run
     IN  \/ ~RepoWithoutActiveRun(RepoOf[r])
         \/ /\ req[h].fromFailed
            /\ \/ run[r].status \notin {"Fail", "Cancelled"}
               \/ run[r].resume # req[h].resume
               \/ \A k \in Steps : ~failedJobSuffix(jobs[r][run[r].attempt], k)
  /\ Goto(h, Idle)
  /\ UNCHANGED <<wave, run, jobs, drained, exec, stale>>

-----------------------------------------------------------------------------
(* Cancelling a run                                                        *)

\* The handler cancels only a run it reads as not terminal ...
CancelRunRead(h, r) ==
  /\ "cancelRun" \in Ops
  /\ req[h] = Idle
  /\ run[r].status = "Running"
  /\ Goto(h, [op |-> "cancelRun", run |-> r])
  /\ UNCHANGED <<wave, run, jobs, drained, exec, stale>>

\* ... the transaction reads it again, without a lock ...
CancelRunBegin(h) ==
  /\ req[h].op = "cancelRun"
  /\ Goto(h, [op |-> "cancelRunTx", run |-> req[h].run,
              active |-> run[req[h].run].status \notin RunTerminal])
  /\ UNCHANGED <<wave, run, jobs, drained, exec, stale>>

\* Mutant: the run is cancelled, its jobs are not.
CancelRunCommitKeepsJobs(h) ==
  /\ req[h].op = "cancelRunTx"
  /\ IF req[h].active
     THEN ~RunLocked(req[h].run) /\ run' = [run EXCEPT ![req[h].run].status = "Cancelled"]
     ELSE run' = run
  /\ Goto(h, Idle)
  /\ UNCHANGED <<wave, jobs, drained, exec, stale>>

\* ... and writes by what it read; the jobs of every attempt are cancelled.
CancelRunCommit(h) ==
  /\ req[h].op = "cancelRunTx"
  /\ LET r == req[h].run
     IN  /\ IF req[h].active
            THEN ~RunLocked(r) /\ run' = [run EXCEPT ![r].status = "Cancelled"]
            ELSE run' = run
         /\ jobs' = [jobs EXCEPT ![r] = [a \in Attempts |-> CancelActiveJobs(jobs[r][a])]]
  /\ Goto(h, Idle)
  /\ UNCHANGED <<wave, drained, exec, stale>>

-----------------------------------------------------------------------------
(* Cancelling a wave                                                       *)

CancelWaveRead(h, w) ==
  /\ "cancelWave" \in Ops
  /\ req[h] = Idle
  /\ wave[w] # "None"
  /\ Goto(h, [op |-> "cancelWave", wave |-> w, active |-> wave[w] \notin WaveTerminal])
  /\ UNCHANGED <<wave, run, jobs, drained, exec, stale>>

\* The wave row is written by what was read of it, and the active runs are
\* locked by the statement that cancels them.
CancelWaveRuns(h) ==
  /\ req[h].op = "cancelWave"
  /\ req[h].active => ~WaveLocked(req[h].wave)
  /\ LET running == {r \in RunsOf(req[h].wave) : run[r].status = "Running"}
     IN  /\ \A r \in running : ~RunLocked(r)
         /\ Goto(h, [op |-> "cancelWaveTx", wave |-> req[h].wave,
                     active |-> req[h].active, runs |-> running])
  /\ UNCHANGED <<wave, run, jobs, drained, exec, stale>>

\* The jobs of all the wave's runs are cancelled, and everything commits.
CancelWaveCommit(h) ==
  /\ req[h].op = "cancelWaveTx"
  /\ wave' = IF req[h].active THEN [wave EXCEPT ![req[h].wave] = "Cancelled"] ELSE wave
  /\ run' = [r \in Runs |-> IF r \in req[h].runs THEN [run[r] EXCEPT !.status = "Cancelled"]
                                                 ELSE run[r]]
  /\ jobs' = [r \in Runs |-> IF WaveOf[r] = req[h].wave
                             THEN [a \in Attempts |-> CancelActiveJobs(jobs[r][a])]
                             ELSE jobs[r]]
  /\ Goto(h, Idle)
  /\ UNCHANGED <<drained, exec, stale>>

-----------------------------------------------------------------------------
(* The stale-job recovery task: single statements, no transaction          *)

\* The attempts with a job running on a node whose heartbeat is overdue.
ListStaleRunningJobs(overdue) ==
  /\ "recover" \in Ops
  /\ req[Recovery] = Idle
  /\ stale = {}
  /\ stale' = {x \in Runs \X Attempts :
                 \E k \in Steps : /\ jobs[x[1]][x[2]][k].status = "Running"
                                  /\ jobs[x[1]][x[2]][k].node \in overdue}
  /\ UNCHANGED <<wave, run, jobs, drained, exec, req>>

RecoverCancelJobs(r, a) ==
  /\ req[Recovery] = Idle
  /\ <<r, a>> \in stale
  /\ jobs' = [jobs EXCEPT ![r][a] = CancelActiveJobs(@)]
  /\ Goto(Recovery, [op |-> "staleEval", run |-> r, attempt |-> a])
  /\ stale' = stale \ {<<r, a>>}
  /\ UNCHANGED <<wave, run, drained, exec>>

\* The bulk cancellation fails in the database: the attempt is skipped.
RecoverCancelFailed(r, a) ==
  /\ "abort" \in Ops
  /\ req[Recovery] = Idle
  /\ <<r, a>> \in stale
  /\ stale' = stale \ {<<r, a>>}
  /\ UNCHANGED <<wave, run, jobs, drained, exec, req>>

RecoverEvalRun ==
  /\ req[Recovery].op = "staleEval"
  /\ LET c == jobs[req[Recovery].run][req[Recovery].attempt]
     IN  Goto(Recovery, IF AllTerminal(c)
                        THEN [op |-> "staleWrite", run |-> req[Recovery].run,
                              status |-> RunOutcome(c)]
                        ELSE Idle)
  /\ UNCHANGED <<wave, run, jobs, drained, exec, stale>>

\* The run row is written whatever it holds by now.
RecoverWriteRun ==
  /\ req[Recovery].op = "staleWrite"
  /\ LET r == req[Recovery].run
     IN  /\ ~RunLocked(r)
         /\ run' = [run EXCEPT ![r].status = req[Recovery].status]
         /\ Goto(Recovery, [op |-> "waveCount", wave |-> WaveOf[r]])
  /\ UNCHANGED <<wave, jobs, drained, exec, stale>>

-----------------------------------------------------------------------------
\* A database error, a lost connection or a server crash ends the request:
\* an open transaction rolls back, what was committed stays.  A crash also
\* forgets the attempts the recovery cycle had listed.
Abort(p) ==
  /\ "abort" \in Ops
  /\ req[p] # Idle
  /\ Goto(p, Idle)
  /\ stale' \in {stale, {}}
  /\ UNCHANGED <<wave, run, jobs, drained, exec>>

\* A completion that failed in the database sends the claim handler on to
\* give the job back.
ClaimCompletionFailed(h) ==
  /\ "abort" \in Ops
  /\ req[h].op = "complete" /\ req[h].claimer # NoNode
  /\ Goto(h, [op |-> "unclaim", node |-> req[h].claimer, run |-> req[h].run,
              attempt |-> req[h].attempt, step |-> req[h].step])
  /\ UNCHANGED <<wave, run, jobs, drained, exec, stale>>

Claim(h) ==
  \/ \E n \in Nodes, r \in Runs, a \in Attempts, k \in Steps : ClaimJob(h, n, r, a, k)
  \/ ClaimDelivered(h)
  \/ ClaimPayloadError(h)
  \/ ClaimTerminalError(h)
  \/ ClaimCompletionFailed(h)
  \/ UnclaimJob(h)

Complete(h) ==
  \/ \E e \in exec, s \in Outcomes, sha \in Shas : CompleteBegin(h, e, s, sha)
  \/ CompleteCommit(h)

FinishWave(p) == WaveCount(p) \/ WaveCheck(p) \/ WaveWrite(p)

RestartRun(h) ==
  \/ \E r \in Runs, fromFailed \in BOOLEAN : RestartRead(h, r, fromFailed)
  \/ RestartBegin(h)
  \/ RestartCommit(h)
  \/ RestartRefused(h)

CancelRun(h) ==
  \/ \E r \in Runs : CancelRunRead(h, r)
  \/ CancelRunBegin(h)
  \/ CancelRunCommit(h)

CancelWave(h) ==
  \/ \E w \in Waves : CancelWaveRead(h, w)
  \/ CancelWaveRuns(h)
  \/ CancelWaveCommit(h)

Recover ==
  \/ \E overdue \in SUBSET Nodes : ListStaleRunningJobs(overdue)
  \/ \E r \in Runs, a \in Attempts : RecoverCancelJobs(r, a) \/ RecoverCancelFailed(r, a)
  \/ RecoverEvalRun
  \/ RecoverWriteRun

Next ==
  \/ \E w \in Waves : CreateWaveWithRuns(w)
  \/ \E n \in Nodes, d \in BOOLEAN : SetNodeDrained(n, d)
  \/ \E h \in Handlers : \/ Claim(h)
                         \/ Complete(h)
                         \/ RestartRun(h)
                         \/ CancelRun(h)
                         \/ CancelWave(h)
  \/ \E p \in Procs : FinishWave(p) \/ Abort(p)
  \/ Recover

Spec == Init /\ [][Next]_vars

-----------------------------------------------------------------------------
(* Safety                                                                  *)

\* The repository guard of submission and restart: two runs on the same
\* repository are never active at the same time.
OneActiveRunPerRepo ==
  \A r, s \in Runs :
    RepoOf[r] = RepoOf[s] /\ run[r].status = "Running" /\ run[s].status = "Running"
      => r = s

\* Promotion, chain cancellation and resume together: whatever completions,
\* cancellations, recoveries and restarts interleave, a step is queued, running
\* or finished only behind steps that all succeeded.
StepsRunInOrder ==
  \A r \in Runs, a \in Attempts : InOrder(jobs[r][a])

\* ClaimJob's affinity condition: all the jobs of an attempt that have a node
\* have the same one, so a step finds the workspace its predecessors left.
OneOwnerPerAttempt ==
  \A r \in Runs, a \in Attempts : OneOwner(jobs[r][a])

\* repo_sha_in and repo_sha_out along a chain: a step that was released works
\* on the commit its predecessor produced, also after a resume.
CommitChain ==
  \A r \in Runs, a \in Attempts : CommitsLinked(jobs[r][a])

\* A full restart leaves no job of an earlier attempt to be claimed or to be
\* completed, and nothing (a delayed unclaim, say) brings one back.
OldAttemptsSettled ==
  \A r \in Runs, a \in Attempts : a < run[r].attempt => AllTerminal(jobs[r][a])

\* At most one job of a run, over all its attempts, is queued or running.
OneJobAtATime ==
  \A r \in Runs, a, b \in Attempts, i, j \in Steps :
    /\ jobs[r][a][i].status \in {"Queued", "Running"}
    /\ jobs[r][b][j].status \in {"Queued", "Running"}
    => a = b /\ i = j

\* The claim handler and the resume count: two nodes are never handed the same
\* step of the same attempt under the same resume count.
ExclusiveExecution ==
  \A e, f \in exec :
    /\ e.run = f.run /\ e.attempt = f.attempt
    /\ e.step = f.step /\ e.resume = f.resume
    => e.node = f.node

-----------------------------------------------------------------------------
(* The inductive invariant                                                 *)

\* Two processes never hold the lock of one run row.
LocksExclusive ==
  \A p, q \in Procs, r \in Runs : LockedBy(req[p], r) /\ LockedBy(req[q], r) => p = q

\* What a request learnt under the run lock still holds when it commits; a
\* restart is only asked for within the bounds; rows that were read exist.
RequestOK(x) ==
  /\ x.op = "complete" =>
       /\ run[x.run].attempt = x.attempt
       /\ run[x.run].resume = x.resume
       /\ Completable(jobs[x.run][x.attempt], x.step, x.status, x.sha)
  /\ x.op \in {"restart", "restartTx"} =>
       IF x.fromFailed THEN x.resume < MaxResume ELSE x.attempt < MaxAttempt
  /\ x.op = "restartTx" =>
       run[x.run].attempt = x.attempt /\ run[x.run].status \in RunTerminal
  /\ x.op = "cancelWaveTx" => \A r \in x.runs : run[r].status = "Running"
  /\ x.op \in {"waveCount", "waveCheck", "waveWrite", "cancelWave", "cancelWaveTx"} =>
       wave[x.wave] # "None"
  /\ x.op \in {"cancelRun", "cancelRunTx", "staleEval", "staleWrite"} =>
       run[x.run].status # "None"

RequestsCurrent ==
  /\ \A p \in Procs : RequestOK(req[p])
  /\ \A x \in stale : run[x[1]].status # "None"

\* A run has jobs exactly in the attempts it has reached.
ChainsPlanned ==
  \A r \in Runs :
    /\ wave[WaveOf[r]] = "None" <=> run[r].status = "None"
    /\ run[r].status = "None" => run[r].attempt = 1
    /\ \A a \in Attempts :
         IF run[r].status = "None" \/ a > run[r].attempt
         THEN jobs[r][a] = NoChain
         ELSE \A k \in Steps : jobs[r][a][k].status # "None"

\* Every chain is in order, has one owner and passes its commits on.
ChainsOK == \A r \in Runs, a \in Attempts : ChainOK(jobs[r][a])

\* The inductive invariant: what makes every write of the server legal when it
\* is committed.
IInv ==
  /\ TypeOK
  /\ LocksExclusive
  /\ RequestsCurrent
  /\ ChainsPlanned
  /\ ChainsOK
  /\ OldAttemptsSettled
  /\ OneActiveRunPerRepo

-----------------------------------------------------------------------------
(* What a step may never do                                                *)

\* A job that succeeded is never cancelled, requeued or completed again.
SuccessIsFinal ==
  [][\A r \in Runs, a \in Attempts, k \in Steps :
       jobs[r][a][k].status = "Success" =>
         /\ jobs'[r][a][k].status = "Success"
         /\ jobs'[r][a][k].shaOut = jobs[r][a][k].shaOut]_vars

\* WithJobExecution: an outcome is recorded only by a completion that carries
\* the attempt and the resume count the run has at that moment.
OutcomesAreCurrent ==
  [][\A r \in Runs, a \in Attempts, k \in Steps :
       /\ jobs'[r][a][k].status \in Outcomes \ {"Cancelled"}
       /\ jobs'[r][a][k].status # jobs[r][a][k].status
       => /\ run[r].attempt = a
          /\ \E h \in Handlers : /\ req[h].op = "complete"
                                 /\ req[h].run = r /\ req[h].attempt = a
                                 /\ req[h].step = k /\ req[h].resume = run[r].resume]_vars

\* Concurrent restart requests cannot create two attempts or two chains: a step
\* that moves a run to a new attempt or a new resume count finds it terminal,
\* leaves it Running, moves by one, and plans a chain only where none exists.
RestartsFromTerminal ==
  [][\A r \in Runs :
       <<run'[r].attempt, run'[r].resume>> # <<run[r].attempt, run[r].resume>> =>
         /\ run[r].status \in RunTerminal
         /\ run'[r].status = "Running"
         /\ \/ /\ run'[r].attempt = run[r].attempt + 1 /\ run'[r].resume = 0
               /\ jobs[r][run'[r].attempt] = NoChain
            \/ run'[r].attempt = run[r].attempt /\ run'[r].resume = run[r].resume + 1]_vars

-----------------------------------------------------------------------------
(* How runs and waves summarise their jobs                                 *)

\* "A run reaches a terminal state when its current attempt's jobs are
\* terminal": a run that reads terminal has no job left to claim or complete.
TerminalRunIsSettled ==
  \A r \in Runs :
    run[r].status \in RunTerminal => AllTerminal(jobs[r][run[r].attempt])

\* The converse, which keeps a run from waiting for ever: a Running run has a
\* job that is queued or running, or the recovery task is about to end it.
RunningRunHasWork ==
  \A r \in Runs :
    run[r].status = "Running" =>
      \/ \E k \in Steps : jobs[r][run[r].attempt][k].status \in {"Queued", "Running"}
      \/ req[Recovery].op \in {"staleEval", "staleWrite"} /\ req[Recovery].run = r

\* "A wave reaches Finished when all child runs are terminal", or it was
\* cancelled with them: no run is active in a wave that ended.
EndedWaveIsSettled ==
  \A w \in Waves :
    wave[w] \in WaveTerminal => \A r \in RunsOf(w) : run[r].status \in RunTerminal

\* Job status ends at an outcome: only a resume takes a job out of one.  It needs
\* the check of the job's status in the completion, and that nobody cancels jobs
\* between that check and the write.
JobOutcomeIsFinal ==
  [][\A r \in Runs, a \in Attempts, k \in Steps :
       /\ jobs[r][a][k].status \in Outcomes
       /\ run'[r].resume = run[r].resume
       => jobs'[r][a][k].status = jobs[r][a][k].status]_vars

-----------------------------------------------------------------------------
(* Liveness                                                                *)

\* A step of a request that has begun, other than a fault.
Proceed(p) ==
  \/ p \in Handlers /\ \/ ClaimDelivered(p) \/ UnclaimJob(p) \/ CompleteCommit(p)
                        \/ RestartBegin(p) \/ RestartCommit(p) \/ RestartRefused(p)
                        \/ CancelRunBegin(p) \/ CancelRunCommit(p)
                        \/ CancelWaveRuns(p) \/ CancelWaveCommit(p)
  \/ FinishWave(p)
  \/ p = Recovery /\ \/ \E r \in Runs, a \in Attempts : RecoverCancelJobs(r, a)
                      \/ RecoverEvalRun
                      \/ RecoverWriteRun

\* Goroutines and the database make progress on what was begun.
ServerFairness == \A p \in Procs : WF_vars(Proceed(p))

\* Nodes poll for work (some free handler serves the claim) and report an
\* outcome the server accepts for the work they were handed.
NodeFairness ==
  /\ WF_vars(\E h \in Handlers, n \in Nodes, r \in Runs, a \in Attempts, k \in Steps :
               ClaimJob(h, n, r, a, k))
  /\ WF_vars(\E h \in Handlers, e \in exec, s \in Outcomes, sha \in Shas :
               CompleteBegin(h, e, s, sha))

FairSpec == Spec /\ ServerFairness /\ NodeFairness

\* The wave is reconciled after each commit that ends a run, so the last of
\* several runs that end together finishes the wave.
WaveFinishes ==
  \A w \in Waves :
    (wave[w] = "Started" /\ \A r \in RunsOf(w) : run[r].status \in RunTerminal)
      ~> wave[w] \in WaveTerminal

\* Every run that is started ends.
RunTerminates ==
  \A r \in Runs : run[r].status = "Running" ~> run[r].status \in RunTerminal

\* Every run that is started ends, and the wave ends with the last of them.
LifecycleProgress == WaveFinishes /\ RunTerminates
=============================================================================
