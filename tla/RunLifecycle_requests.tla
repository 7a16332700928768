----------------------- MODULE RunLifecycle_requests ------------------------
(***************************************************************************)
(* The run locks exclude each other, and what a request learnt under a lock*)
(* still holds when it commits.                                            *)
(***************************************************************************)
EXTENDS RunLifecycle_proofs

-----------------------------------------------------------------------------
(* The run lock                                                            *)

\* A locked run exists.
LEMMA HeldExists ==
  ASSUME IInv, NEW q \in Procs, NEW r \in Runs, LockedBy(req[q], r)
  PROVE  run[r].status # "None"
<1> TypeOK /\ RequestOK(req[q])
  BY DEF IInv, RequestsCurrent
<1>1. CASE req[q].op = "complete"
  <2>1. req[q] \in CompleteReq /\ req[q].run = r
    BY <1>1, ReqFields DEF LockedBy
  <2>2. Completable(jobs[r][req[q].attempt], req[q].step, req[q].status, req[q].sha)
    BY ZenonT(30), <1>1, <2>1 DEF RequestOK
  <2>3. jobs[r][req[q].attempt] # NoChain
    BY <2>1, <2>2 DEF Completable, NoChain, NoJob, CompleteReq
  <2> QED
    BY <2>1, <2>3 DEF IInv, ChainsPlanned, CompleteReq
<1>2. CASE req[q].op = "restartTx"
  BY <1>2 DEF LockedBy, RequestOK, RunTerminal
<1>3. CASE req[q].op = "cancelWaveTx"
  BY <1>3 DEF LockedBy, RequestOK
<1> QED
  BY <1>1, <1>2, <1>3 DEF LockedBy

\* While a request holds a run, nobody else writes the run row, and its chains
\* move only by steps that need no lock.
LEMMA HeldStable ==
  ASSUME IInv, [Next]_vars, NEW q \in Procs, req'[q] = req[q],
         NEW r \in Runs, LockedBy(req[q], r)
  PROVE  /\ run'[r] = run[r]
         /\ \A a \in Attempts : QuietStep(jobs[r][a], jobs'[r][a])
<1> TypeOK
  BY DEF IInv
<1>1. \A p \in Procs : LockedBy(req[p], r) => p = q
  BY DEF IInv, LocksExclusive
<1>2. RunLocked(r)
  BY DEF RunLocked
<1>3. ASSUME NEW w \in Waves, CreateWaveWithRuns(w)
      PROVE  WaveOf[r] # w
  BY <1>3, HeldExists DEF CreateWaveWithRuns, IInv, ChainsPlanned
<1>4. ASSUME NEW h \in Handlers, CompleteCommit(h)
      PROVE  req[h].run # r
  <2>1. h \in Procs /\ req[h].op = "complete" /\ req'[h].op # "complete"
    BY <1>4 DEF Procs, CompleteCommit, Goto, Idle, TypeOK
  <2> QED
    BY <1>1, <2>1 DEF LockedBy
<1>5. ASSUME NEW h \in Handlers, RestartCommit(h)
      PROVE  req[h].run # r
  <2>1. h \in Procs /\ req[h].op = "restartTx" /\ req'[h].op # "restartTx"
    BY <1>5 DEF Procs, RestartCommit, Goto, Idle, TypeOK
  <2> QED
    BY <1>1, <2>1 DEF LockedBy
<1>6. ASSUME NEW h \in Handlers, CancelWaveCommit(h)
      PROVE  r \notin req[h].runs
  <2>1. h \in Procs /\ req[h].op = "cancelWaveTx" /\ req'[h].op # "cancelWaveTx"
    BY <1>6 DEF Procs, CancelWaveCommit, Goto, Idle, TypeOK
  <2> QED
    BY <1>1, <2>1 DEF LockedBy
<1>7. ASSUME NEW h \in Handlers, CancelRunCommit(h), req[h].active
      PROVE  req[h].run # r
  BY <1>2, <1>7 DEF CancelRunCommit
<1>8. RecoverWriteRun => req[Recovery].run # r
  BY <1>2 DEF RecoverWriteRun
<1>9. run'[r] = run[r]
  BY Zenon, <1>3, <1>4, <1>5, <1>6, <1>7, <1>8, RunStep DEF RunChange
<1>10. ASSUME NEW a \in Attempts
       PROVE  QuietStep(jobs[r][a], jobs'[r][a])
  <2>0. CASE jobs'[r][a] = jobs[r][a]
    BY <2>0 DEF QuietStep
  <2>1. ASSUME NEW w \in Waves, CreateWaveWithRuns(w)
        PROVE  QuietStep(jobs[r][a], jobs'[r][a])
    BY <1>3, <2>0, <2>1, CreateChains
  <2>2. ASSUME NEW h \in Handlers, Complete(h)
        PROVE  QuietStep(jobs[r][a], jobs'[r][a])
    BY <1>4, <2>0, <2>2, CompleteChains DEF Complete, CompleteBegin
  <2>3. ASSUME NEW h \in Handlers, RestartCommit(h)
        PROVE  QuietStep(jobs[r][a], jobs'[r][a])
    <3>1. CASE RestartFull(h)
      BY ZenonT(30), <1>5, <2>0, <2>3, <3>1, RestartFullChains
    <3>2. ASSUME NEW k \in Steps, RestartFromFailed(h, k)
          PROVE  QuietStep(jobs[r][a], jobs'[r][a])
      BY <1>5, <2>0, <2>3, <3>2, ResumeChains
    <3> QED
      BY <2>3, <3>1, <3>2 DEF RestartCommit
  <2>4. ASSUME NEW h \in Handlers, RestartRun(h)
        PROVE  QuietStep(jobs[r][a], jobs'[r][a])
    BY Zenon, <2>0, <2>3, <2>4 DEF RestartRun, RestartRead, RestartBegin, RestartRefused
  <2>5. ASSUME NEW p \in Procs, FinishWave(p) \/ Abort(p)
        PROVE  QuietStep(jobs[r][a], jobs'[r][a])
    BY <2>0, <2>5 DEF FinishWave, WaveCount, WaveCheck, WaveWrite, Abort
  <2>6. ASSUME NEW n \in Nodes, NEW d \in BOOLEAN, SetNodeDrained(n, d)
        PROVE  QuietStep(jobs[r][a], jobs'[r][a])
    BY <2>0, <2>6 DEF SetNodeDrained
  <2>7. CASE UNCHANGED vars
    BY <2>0, <2>7 DEF vars
  <2> QED
    BY <2>1, <2>2, <2>4, <2>5, <2>6, <2>7, ClaimChains, CancelChains, RecoverChains DEF Next
<1> QED
  BY <1>9, <1>10

-----------------------------------------------------------------------------
(* The requests                                                            *)

\* A request a process may put in its place: what it claims is true after the
\* step, and it takes no lock that was held.
Admitted(q) ==
  /\ RequestOK(req[q])'
  /\ \A r \in Runs : LockedBy(req[q], r)' => ~RunLocked(r)

\* Only the process that moves gets another request.
LEMMA Mover ==
  ASSUME TypeOK, NEW p \in Procs, NEW x, Goto(p, x), NEW q \in Procs
  PROVE  req'[q] = IF q = p THEN x ELSE req[q]
BY DEF TypeOK, Goto

\* Requests that promise nothing and lock nothing.
LEMMA PlainAdmitted ==
  ASSUME NEW q \in Procs, req'[q].op \in {"idle", "claimed", "unclaim"}
  PROVE  Admitted(q)
BY DEF Admitted, RequestOK, LockedBy

\* A report that is accepted can be applied.
LEMMA AcceptedCompletable ==
  ASSUME IInv, NEW r \in Runs, NEW a \in Attempts, NEW k \in Steps, NEW n, NEW resume,
         NEW s \in Outcomes, NEW sha \in Shas, Accepts(r, a, k, n, resume, s, sha)
  PROVE  Completable(jobs[r][a], k, s, EffectiveSha(jobs[r][a][k], k, s, sha))
<1> DEFINE c == jobs[r][a]
<1>1. c[k].status = "Running" /\ c[k].status \in Entered
  BY DEF Accepts, Entered
<1>2. ChainOK(c)
  BY DEF IInv, ChainsOK
<1>3. \A i \in Steps : i < k => c[i].status = "Success"
  BY <1>1, <1>2 DEF ChainOK, InOrder
<1>4. Linked(c, k)
  BY <1>1, <1>2 DEF ChainOK, CommitsLinked
<1>5. s = "Success" /\ k < N => EffectiveSha(c[k], k, s, sha) # NoSha
  BY DEF Accepts
<1> QED
  BY <1>1, <1>3, <1>4, <1>5 DEF Completable

\* An accepted report is admitted, from a node or from a claim.
LEMMA CompletionAdmitted ==
  ASSUME IInv, NEW h \in Procs, NEW r \in Runs, NEW a \in Attempts, NEW k \in Steps,
         NEW n, NEW resume, NEW s \in Outcomes, NEW sha \in Shas, NEW m,
         Accepts(r, a, k, n, resume, s, sha), ~RunLocked(r),
         req'[h] = Completion(r, a, k, resume, s, sha, m), run' = run, jobs' = jobs
  PROVE  Admitted(h)
<1>1. /\ req'[h].op = "complete" /\ req'[h].run = r /\ req'[h].attempt = a
      /\ req'[h].step = k /\ req'[h].resume = resume /\ req'[h].status = s
      /\ req'[h].sha = EffectiveSha(jobs[r][a][k], k, s, sha)
  BY DEF Completion
<1>2. Completable(jobs'[r][a], k, s, EffectiveSha(jobs[r][a][k], k, s, sha))
  BY AcceptedCompletable
<1>3. run'[r].attempt = a /\ run'[r].resume = resume
  BY DEF Accepts
<1>4. RequestOK(req[h])'
  BY <1>1, <1>2, <1>3 DEF RequestOK
<1>5. \A z \in Runs : LockedBy(req[h], z)' => z = r
  BY <1>1 DEF LockedBy
<1> QED
  BY <1>4, <1>5 DEF Admitted

\* The requests that claims make.
LEMMA ClaimAdmitted ==
  ASSUME IInv, NEW h \in Handlers, Claim(h), NEW q \in Procs, req'[q] # req[q]
  PROVE  Admitted(q)
<1> TypeOK /\ h \in Procs
  BY DEF IInv, Procs
<1>1. ASSUME NEW x, Goto(h, x), x.op \in {"idle", "claimed", "unclaim"}
      PROVE  Admitted(q)
  BY <1>1, Mover, PlainAdmitted
<1>2. ASSUME NEW n \in Nodes, NEW r \in Runs, NEW a \in Attempts, NEW k \in Steps,
             ClaimJob(h, n, r, a, k)
      PROVE  Admitted(q)
  BY <1>1, <1>2 DEF ClaimJob
<1>3. CASE ClaimDelivered(h) \/ UnclaimJob(h)
  BY Zenon, <1>1, <1>3 DEF ClaimDelivered, UnclaimJob, Idle
<1>4. CASE ClaimPayloadError(h)
  <2>1. req[h] \in ClaimReq
    BY <1>4, ReqFields DEF ClaimPayloadError
  <2>2. [req[h] EXCEPT !.op = "unclaim"].op = "unclaim"
    BY <2>1 DEF ClaimReq
  <2> QED
    BY Zenon, <1>1, <1>4, <2>2 DEF ClaimPayloadError
<1>5. CASE ClaimCompletionFailed(h)
  BY <1>1, <1>5 DEF ClaimCompletionFailed
<1>6. CASE ClaimTerminalError(h)
  <2> DEFINE r == req[h].run
             a == req[h].attempt
             k == req[h].step
  <2>1. req[h] \in ClaimReq
    BY <1>6, ReqFields DEF ClaimTerminalError
  <2>2. /\ r \in Runs /\ a \in Attempts /\ k \in Steps
        /\ "Error" \in Outcomes /\ NoSha \in Shas
        /\ [req[h] EXCEPT !.op = "unclaim"].op = "unclaim"
    BY <2>1 DEF ClaimReq, Outcomes, Shas
  <2>3. /\ ~RunLocked(r) /\ run' = run /\ jobs' = jobs
        /\ Goto(h, IF Accepts(r, a, k, req[h].node, 0, "Error", NoSha)
                   THEN Completion(r, a, k, 0, "Error", NoSha, req[h].node)
                   ELSE [req[h] EXCEPT !.op = "unclaim"])
    BY <1>6 DEF ClaimTerminalError
  <2>4. CASE ~Accepts(r, a, k, req[h].node, 0, "Error", NoSha)
    BY Zenon, <1>1, <2>2, <2>3, <2>4
  <2>5. CASE Accepts(r, a, k, req[h].node, 0, "Error", NoSha)
    <3>1. q = h /\ req'[h] = Completion(r, a, k, 0, "Error", NoSha, req[h].node)
      BY <2>3, <2>5, Mover
    <3> QED
      BY <2>2, <2>3, <2>5, <3>1, CompletionAdmitted
  <2> QED
    BY <2>4, <2>5
<1> QED
  BY <1>2, <1>3, <1>4, <1>5, <1>6 DEF Claim

\* A request that looks at the wave of a run that exists.
LEMMA WaveAdmitted ==
  ASSUME IInv, [Next]_vars, NEW q \in Procs, NEW w \in Waves,
         req'[q].op \in {"waveCount", "waveCheck", "waveWrite", "cancelWave"},
         req'[q].wave = w, wave[w] # "None"
  PROVE  Admitted(q)
<1>1. wave'[w] # "None"
  BY WaveKept
<1> QED
  BY <1>1 DEF Admitted, RequestOK, LockedBy

\* The requests that completions make.
LEMMA CompleteAdmitted ==
  ASSUME IInv, NEW h \in Handlers, Complete(h), [Next]_vars, NEW q \in Procs, req'[q] # req[q]
  PROVE  Admitted(q)
<1> TypeOK /\ h \in Procs
  BY DEF IInv, Procs
<1>1. ASSUME NEW e \in exec, NEW s \in Outcomes, NEW sha \in Shas, CompleteBegin(h, e, s, sha)
      PROVE  Admitted(q)
  <2>1. e \in Execs
    BY DEF TypeOK
  <2>2. e.run \in Runs /\ e.attempt \in Attempts /\ e.step \in Steps
    BY <2>1 DEF Execs
  <2>3. /\ Accepts(e.run, e.attempt, e.step, e.node, e.resume, s, sha)
        /\ ~RunLocked(e.run) /\ run' = run /\ jobs' = jobs
        /\ Goto(h, Completion(e.run, e.attempt, e.step, e.resume, s, sha, NoNode))
    BY <1>1 DEF CompleteBegin
  <2>4. q = h /\ req'[h] = Completion(e.run, e.attempt, e.step, e.resume, s, sha, NoNode)
    BY <2>3, Mover
  <2> QED
    BY <2>2, <2>3, <2>4, CompletionAdmitted
<1>2. CASE CompleteCommit(h)
  <2> DEFINE r == req[h].run
  <2>1. r \in Runs /\ WaveOf[r] \in Waves /\ LockedBy(req[h], r)
    BY <1>2, ReqFields, LifecycleAssumption DEF CompleteCommit, CompleteReq, LockedBy
  <2>2. wave[WaveOf[r]] # "None"
    BY <2>1, HeldExists DEF IInv, ChainsPlanned
  <2>3. \/ Goto(h, [op |-> "waveCount", wave |-> WaveOf[r]])
        \/ Goto(h, Idle)
    BY <1>2 DEF CompleteCommit
  <2>4. CASE Goto(h, Idle)
    BY <2>4, Mover, PlainAdmitted DEF Idle
  <2>5. CASE Goto(h, [op |-> "waveCount", wave |-> WaveOf[r]])
    <3>1. req'[q] = [op |-> "waveCount", wave |-> WaveOf[r]]
      BY <2>5, Mover
    <3> QED
      BY <2>1, <2>2, <3>1, WaveAdmitted
  <2> QED
    BY <2>3, <2>4, <2>5
<1> QED
  BY <1>1, <1>2 DEF Complete

\* The requests of a process that finishes a wave.
LEMMA FinishWaveAdmitted ==
  ASSUME IInv, NEW p \in Procs, FinishWave(p), [Next]_vars, NEW q \in Procs, req'[q] # req[q]
  PROVE  Admitted(q)
<1> TypeOK /\ RequestOK(req[p])
  BY DEF IInv, RequestsCurrent
<1>1. req[p] \in WaveReq /\ req[p].wave \in Waves /\ wave[req[p].wave] # "None"
  <2>1. req[p].op \in {"waveCount", "waveCheck", "waveWrite"}
    BY DEF FinishWave, WaveCount, WaveCheck, WaveWrite
  <2>2. req[p] \in WaveReq
    BY <2>1, ReqFields
  <2> QED
    BY <2>1, <2>2 DEF RequestOK, WaveReq
<1>2. PICK x : /\ Goto(p, x)
               /\ x \in {Idle, [req[p] EXCEPT !.op = "waveCheck"],
                         [req[p] EXCEPT !.op = "waveWrite"]}
  BY DEF FinishWave, WaveCount, WaveCheck, WaveWrite
<1>3. req'[q] = x
  BY <1>2, Mover
<1>4. CASE x = Idle
  BY <1>3, <1>4, PlainAdmitted DEF Idle
<1>5. CASE x # Idle
  <2>1. x.op \in {"waveCheck", "waveWrite"} /\ x.wave = req[p].wave
    BY <1>1, <1>2, <1>5 DEF WaveReq
  <2> QED
    BY <1>1, <1>3, <2>1, WaveAdmitted
<1> QED
  BY <1>4, <1>5

\* The requests that restarts make.
LEMMA RestartAdmitted ==
  ASSUME IInv, NEW h \in Handlers, RestartRun(h), NEW q \in Procs, req'[q] # req[q]
  PROVE  Admitted(q)
<1> TypeOK /\ h \in Procs /\ RequestOK(req[h])
  BY DEF IInv, RequestsCurrent, Procs
<1>1. ASSUME NEW x, Goto(h, x), x = Idle
      PROVE  Admitted(q)
  BY SMTT(30), <1>1, Mover, PlainAdmitted DEF Idle
<1>2. ASSUME NEW r \in Runs, NEW f \in BOOLEAN, RestartRead(h, r, f)
      PROVE  Admitted(q)
  <2>1. req'[q] = [op |-> "restart", run |-> r, attempt |-> run[r].attempt,
                   resume |-> run[r].resume, fromFailed |-> f]
    BY <1>2, Mover DEF RestartRead
  <2>2. IF f THEN run[r].resume < MaxResume ELSE run[r].attempt < MaxAttempt
    BY ZenonT(30), <1>2 DEF RestartRead
  <2>3. /\ req'[q].op = "restart" /\ req'[q].run = r /\ req'[q].attempt = run[r].attempt
        /\ req'[q].resume = run[r].resume /\ req'[q].fromFailed = f
    BY <2>1
  <2>4. RequestOK(req[q])'
    BY Zenon, <2>2, <2>3 DEF RequestOK
  <2>5. \A z \in Runs : ~LockedBy(req[q], z)'
    BY <2>3 DEF LockedBy
  <2> QED
    BY Zenon, <2>4, <2>5 DEF Admitted
<1>3. CASE RestartBegin(h)
  <2> DEFINE r == req[h].run
             x == [op |-> "restartTx", run |-> r, attempt |-> req[h].attempt,
                   resume |-> req[h].resume, fromFailed |-> req[h].fromFailed,
                   revive |-> wave[WaveOf[r]] = "Finished"]
  <2>1. /\ req[h].op = "restart" /\ ~RunLocked(r) /\ run' = run
        /\ Goto(h, IF /\ run[r].attempt = req[h].attempt
                      /\ run[r].status \in RunTerminal
                      /\ wave[WaveOf[r]] # "Cancelled"
                   THEN x ELSE Idle)
    BY Zenon, <1>3 DEF RestartBegin
  <2>2. CASE req'[q] = x /\ run[r].attempt = req[h].attempt /\ run[r].status \in RunTerminal
    <3>1. /\ req'[q].op = "restartTx" /\ req'[q].run = r /\ req'[q].attempt = req[h].attempt
          /\ req'[q].resume = req[h].resume /\ req'[q].fromFailed = req[h].fromFailed
      <4>1. PICK y, v : y = req'[q] /\ v = (wave[WaveOf[r]] = "Finished")
        OBVIOUS
      <4>2. y = [op |-> "restartTx", run |-> r, attempt |-> req[h].attempt, resume |-> req[h].resume,
                 fromFailed |-> req[h].fromFailed, revive |-> v]
        BY Zenon, <2>2, <4>1
      <4>3. /\ y.op = "restartTx" /\ y.run = r /\ y.attempt = req[h].attempt
            /\ y.resume = req[h].resume /\ y.fromFailed = req[h].fromFailed
        <5> HIDE DEF r, x
        <5> QED
          BY ONLY <4>2
      <4> QED
        BY Zenon, <4>1, <4>3
    <3>2. IF req[h].fromFailed THEN req[h].resume < MaxResume ELSE req[h].attempt < MaxAttempt
      BY <2>1 DEF RequestOK
    <3>3. RequestOK(req[q])'
      BY Zenon, <2>1, <2>2, <3>1, <3>2 DEF RequestOK
    <3>4. \A z \in Runs : LockedBy(req[q], z)' => z = r
      BY <3>1 DEF LockedBy
    <3> QED
      BY ZenonT(30), <2>1, <3>3, <3>4 DEF Admitted
  <2>3. CASE req'[q] = Idle
    <3>1. req'[q].op = "idle"
      BY <2>3 DEF Idle
    <3> QED
      BY Zenon, <3>1, PlainAdmitted
  <2>4. \/ req'[q] = x /\ run[r].attempt = req[h].attempt /\ run[r].status \in RunTerminal
        \/ req'[q] = Idle
    <3> HIDE DEF x, r
    <3>1. PICK y : /\ Goto(h, y)
                   /\ y = IF /\ run[r].attempt = req[h].attempt
                             /\ run[r].status \in RunTerminal
                             /\ wave[WaveOf[r]] # "Cancelled"
                          THEN x ELSE Idle
      BY Zenon, <2>1
    <3>2. req'[q] = y
      BY <3>1, Mover
    <3> QED
      BY <3>1, <3>2
  <2> QED
    BY Zenon, <2>2, <2>3, <2>4
<1>4. CASE RestartCommit(h) \/ RestartRefused(h)
  BY <1>1, <1>4 DEF RestartCommit, RestartRefused
<1> QED
  BY <1>2, <1>3, <1>4 DEF RestartRun

\* A request that names a run that exists.
LEMMA RunAdmitted ==
  ASSUME IInv, [Next]_vars, NEW q \in Procs, NEW r \in Runs,
         req'[q].op \in {"cancelRun", "cancelRunTx", "staleEval", "staleWrite"},
         req'[q].run = r, run[r].status # "None"
  PROVE  Admitted(q)
<1>1. run'[r].status # "None"
  BY Zenon, RunKept
<1> QED
  BY <1>1 DEF Admitted, RequestOK, LockedBy

\* The requests that cancellations make.
LEMMA CancelAdmitted ==
  ASSUME IInv, NEW h \in Handlers, CancelRun(h) \/ CancelWave(h), [Next]_vars,
         NEW q \in Procs, req'[q] # req[q]
  PROVE  Admitted(q)
<1> TypeOK /\ h \in Procs /\ RequestOK(req[h])
  BY DEF IInv, RequestsCurrent, Procs
<1>1. ASSUME NEW r \in Runs, CancelRunRead(h, r)
      PROVE  Admitted(q)
  <2>1. req'[q] = [op |-> "cancelRun", run |-> r] /\ run[r].status # "None"
    BY <1>1, Mover DEF CancelRunRead
  <2> QED
    BY <2>1, RunAdmitted
<1>2. CASE CancelRunBegin(h)
  <2>1. req[h] \in CancelRunReq /\ req[h].op = "cancelRun"
    BY Zenon, <1>2, ReqFields DEF CancelRunBegin
  <2>2. req[h].run \in Runs /\ run[req[h].run].status # "None"
    BY Zenon, <2>1 DEF RequestOK, CancelRunReq
  <2>3. req'[q] = [op |-> "cancelRunTx", run |-> req[h].run,
                   active |-> run[req[h].run].status \notin RunTerminal]
    BY ZenonT(30), <1>2, Mover DEF CancelRunBegin
  <2> QED
    BY SMTT(30), <2>2, <2>3, RunAdmitted
<1>3. CASE CancelRunCommit(h) \/ CancelWaveCommit(h)
  <2>1. req'[q] = Idle
    BY ZenonT(30), <1>3, Mover DEF CancelRunCommit, CancelWaveCommit
  <2> QED
    BY <2>1, PlainAdmitted DEF Idle
<1>4. ASSUME NEW w \in Waves, CancelWaveRead(h, w)
      PROVE  Admitted(q)
  <2>1. /\ req'[q] = [op |-> "cancelWave", wave |-> w, active |-> wave[w] \notin WaveTerminal]
        /\ wave[w] # "None"
    BY <1>4, Mover DEF CancelWaveRead
  <2> QED
    BY <2>1, WaveAdmitted
<1>5. CASE CancelWaveRuns(h)
  <2> DEFINE w == req[h].wave
             running == {r \in RunsOf(w) : run[r].status = "Running"}
  <2>1. req[h].op = "cancelWave" /\ wave' = wave /\ run' = run
    BY Zenon, <1>5 DEF CancelWaveRuns
  <2>2. wave[w] # "None"
    BY <2>1 DEF RequestOK
  <2>3. /\ \A r \in running : ~RunLocked(r)
        /\ req'[q] = [op |-> "cancelWaveTx", wave |-> w, active |-> req[h].active,
                      runs |-> running]
    BY ZenonT(30), <1>5, Mover DEF CancelWaveRuns
  <2>4. \A r \in running : run[r].status = "Running"
    OBVIOUS
  <2> HIDE DEF running
  <2>5. RequestOK(req[q])'
    <3>1. /\ req'[q].op = "cancelWaveTx" /\ req'[q].wave = w
          /\ req'[q].runs = running
      BY <2>3
    <3> HIDE DEF w
    <3> QED
      BY <2>1, <2>2, <2>4, <3>1 DEF RequestOK
  <2>6. \A r \in Runs : LockedBy(req[q], r)' => r \in running
    BY <2>3 DEF LockedBy
  <2> QED
    BY Zenon, <2>3, <2>5, <2>6 DEF Admitted
<1> QED
  BY ZenonT(30), <1>1, <1>2, <1>3, <1>4, <1>5 DEF CancelRun, CancelWave

\* The requests of the recovery task.
LEMMA RecoverAdmitted ==
  ASSUME IInv, Recover, [Next]_vars, NEW q \in Procs, req'[q] # req[q]
  PROVE  Admitted(q)
<1> TypeOK /\ Recovery \in Procs
  BY DEF IInv, Procs
<1> RequestOK(req[Recovery])
  BY DEF IInv, RequestsCurrent
<1>1. CASE req' = req
  BY <1>1
<1>2. ASSUME NEW r \in Runs, NEW a \in Attempts, RecoverCancelJobs(r, a)
      PROVE  Admitted(q)
  <2>1. req'[q] = [op |-> "staleEval", run |-> r, attempt |-> a]
    BY <1>2, Mover DEF RecoverCancelJobs
  <2>2. run[r].status # "None"
    BY <1>2 DEF RecoverCancelJobs, IInv, RequestsCurrent
  <2> QED
    BY <2>1, <2>2, RunAdmitted
<1>3. CASE RecoverEvalRun
  <2>1. req[Recovery] \in StaleEvalReq /\ req[Recovery].op = "staleEval"
    BY <1>3, ReqFields DEF RecoverEvalRun
  <2>2. req[Recovery].run \in Runs /\ run[req[Recovery].run].status # "None"
    BY Zenon, <2>1 DEF RequestOK, StaleEvalReq
  <2>3. PICK s : req'[q] \in {Idle, [op |-> "staleWrite", run |-> req[Recovery].run,
                                     status |-> s]}
    BY SMTT(30), <1>3, Mover DEF RecoverEvalRun
  <2>4. CASE req'[q] = Idle
    BY <2>4, PlainAdmitted DEF Idle
  <2>5. CASE req'[q] = [op |-> "staleWrite", run |-> req[Recovery].run, status |-> s]
    BY <2>2, <2>5, RunAdmitted
  <2> QED
    BY ZenonT(30), <2>3, <2>4, <2>5
<1>4. CASE RecoverWriteRun
  <2>1. req[Recovery] \in StaleWriteReq /\ req[Recovery].op = "staleWrite"
    BY Zenon, <1>4, ReqFields DEF RecoverWriteRun
  <2>2. req[Recovery].run \in Runs /\ run[req[Recovery].run].status # "None"
    BY Zenon, <2>1 DEF RequestOK, StaleWriteReq
  <2>3. WaveOf[req[Recovery].run] \in Waves /\ wave[WaveOf[req[Recovery].run]] # "None"
    BY <2>2, LifecycleAssumption DEF IInv, ChainsPlanned
  <2>4. req'[q] = [op |-> "waveCount", wave |-> WaveOf[req[Recovery].run]]
    BY <1>4, Mover DEF RecoverWriteRun
  <2> QED
    BY <2>3, <2>4, WaveAdmitted
<1> QED
  BY ZenonT(30), <1>1, <1>2, <1>3, <1>4 DEF Recover, ListStaleRunningJobs, RecoverCancelFailed

\* Every new request is admitted, and a step makes at most one.
LEMMA NewRequests ==
  ASSUME IInv, [Next]_vars
  PROVE  /\ \A q \in Procs : req'[q] # req[q] => Admitted(q)
         /\ \A p, q \in Procs : req'[p] # req[p] /\ req'[q] # req[q] => p = q
<1> TypeOK
  BY DEF IInv
<1>1. ASSUME NEW q \in Procs, req'[q] # req[q]
      PROVE  Admitted(q)
  <2>1. ASSUME NEW p \in Procs, Abort(p)
        PROVE  Admitted(q)
    <3>1. req'[q] = Idle
      BY <1>1, <2>1, Mover DEF Abort
    <3> QED
      BY <3>1, PlainAdmitted DEF Idle
  <2>2. CASE req' = req
    BY <1>1, <2>2
  <2> QED
    BY ZenonT(30), <1>1, <2>1, <2>2, ClaimAdmitted, CompleteAdmitted, FinishWaveAdmitted, RestartAdmitted,
       CancelAdmitted, RecoverAdmitted DEF Next, vars, CreateWaveWithRuns, SetNodeDrained
<1>2. req' = req \/ \E p \in Procs : \E x : Goto(p, x)
  <2>2. \A h \in Handlers : h \in Procs
    BY DEF Procs
  <2>3. Recovery \in Procs
    BY DEF Procs
  <2>4. ASSUME NEW h \in Handlers, Claim(h) \/ Complete(h)
        PROVE  \E x : Goto(h, x)
    BY Zenon, <2>4 DEF Claim, ClaimJob, ClaimDelivered, ClaimPayloadError, ClaimTerminalError,
                ClaimCompletionFailed, UnclaimJob, Complete, CompleteBegin, CompleteCommit
  <2>5. ASSUME NEW h \in Handlers, RestartRun(h) \/ CancelRun(h) \/ CancelWave(h)
        PROVE  \E x : Goto(h, x)
    BY Zenon, <2>5 DEF RestartRun, RestartRead, RestartBegin, RestartCommit, RestartRefused,
                CancelRun, CancelRunRead, CancelRunBegin, CancelRunCommit,
                CancelWave, CancelWaveRead, CancelWaveRuns, CancelWaveCommit
  <2>6. ASSUME NEW p \in Procs, FinishWave(p) \/ Abort(p)
        PROVE  \E x : Goto(p, x)
    BY <2>6 DEF FinishWave, WaveCount, WaveCheck, WaveWrite, Abort
  <2>7. ASSUME Recover
        PROVE  req' = req \/ \E x : Goto(Recovery, x)
    BY Zenon, <2>7 DEF Recover, ListStaleRunningJobs, RecoverCancelJobs, RecoverCancelFailed,
                RecoverEvalRun, RecoverWriteRun
  <2> QED
    BY <2>2, <2>3, <2>4, <2>5, <2>6, <2>7 DEF Next, vars, CreateWaveWithRuns, SetNodeDrained
<1>3. \A p, q \in Procs : req'[p] # req[p] /\ req'[q] # req[q] => p = q
  BY <1>2, Mover
<1> QED
  BY <1>1, <1>3

\* No lock is ever held twice.
LEMMA LocksKept ==
  ASSUME IInv, [Next]_vars
  PROVE  LocksExclusive'
<1> SUFFICES ASSUME NEW p \in Procs, NEW q \in Procs, NEW r \in Runs,
                    LockedBy(req[p], r)', LockedBy(req[q], r)'
             PROVE  p = q
  BY DEF LocksExclusive
<1>1. ASSUME NEW z \in Procs, req'[z] = req[z], LockedBy(req[z], r)'
      PROVE  LockedBy(req[z], r)
  BY <1>1 DEF LockedBy
<1>2. ASSUME NEW z \in Procs, LockedBy(req[z], r)
      PROVE  RunLocked(r)
  BY <1>2 DEF RunLocked
<1>3. ASSUME NEW z \in Procs, req'[z] # req[z], LockedBy(req[z], r)'
      PROVE  ~RunLocked(r)
  BY <1>3, NewRequests DEF Admitted
<1>4. LocksExclusive
  BY ZenonT(30) DEF IInv
<1> QED
  BY <1>1, <1>2, <1>3, <1>4, NewRequests DEF LocksExclusive

\* What a waiting request knows stays true while others move.
LEMMA RequestKept ==
  ASSUME IInv, [Next]_vars, NEW q \in Procs, req'[q] = req[q]
  PROVE  RequestOK(req[q])'
<1> TypeOK /\ RequestOK(req[q])
  BY DEF IInv, RequestsCurrent
<1>1. req[q].op = "complete" =>
        /\ run'[req[q].run].attempt = req[q].attempt
        /\ run'[req[q].run].resume = req[q].resume
        /\ Completable(jobs'[req[q].run][req[q].attempt], req[q].step,
                       req[q].status, req[q].sha)
  <2> SUFFICES ASSUME req[q].op = "complete"
               PROVE  /\ run'[req[q].run].attempt = req[q].attempt
                      /\ run'[req[q].run].resume = req[q].resume
                      /\ Completable(jobs'[req[q].run][req[q].attempt], req[q].step,
                                     req[q].status, req[q].sha)
    OBVIOUS
  <2> DEFINE r == req[q].run
             a == req[q].attempt
  <2>1. /\ r \in Runs /\ a \in Attempts /\ req[q].step \in Steps
        /\ req[q].status \in Outcomes /\ req[q].sha \in Shas
    BY ZenonT(30), ReqFields DEF CompleteReq
  <2>2. jobs[r][a] \in Chains
    BY <2>1 DEF TypeOK
  <2>3. run'[r] = run[r] /\ QuietStep(jobs[r][a], jobs'[r][a])
    BY Zenon, <2>1, HeldStable DEF LockedBy
  <2>4. /\ run[r].attempt = a /\ run[r].resume = req[q].resume
        /\ Completable(jobs[r][a], req[q].step, req[q].status, req[q].sha)
    BY Zenon DEF RequestOK
  <2>5. Completable(jobs'[r][a], req[q].step, req[q].status, req[q].sha)
    <3> HIDE DEF r, a
    <3> QED
      BY <2>1, <2>2, <2>3, <2>4, CompletableStable
  <2> QED
    BY ZenonT(30), <2>3, <2>4, <2>5
<1>2. req[q].op = "restartTx" =>
        /\ run'[req[q].run].attempt = req[q].attempt
        /\ run'[req[q].run].status \in RunTerminal
  BY Zenon, ReqFields, HeldStable DEF RequestOK, LockedBy, RestartTxReq
<1>3. req[q].op = "cancelWaveTx" => \A r \in req[q].runs : run'[r].status = "Running"
  <2>1. req[q].op = "cancelWaveTx" => req[q].runs \in SUBSET Runs
    BY Zenon, ReqFields DEF CancelWaveTxReq
  <2> QED
    BY ZenonT(30), <2>1, HeldStable DEF RequestOK, LockedBy
<1>4. req[q].op \in {"waveCount", "waveCheck", "waveWrite", "cancelWave", "cancelWaveTx"} =>
        wave'[req[q].wave] # "None"
  <2>1. req[q].op \in {"waveCount", "waveCheck", "waveWrite", "cancelWave", "cancelWaveTx"} =>
          req[q].wave \in Waves
    BY Zenon, ReqFields DEF WaveReq, CancelWaveReq, CancelWaveTxReq
  <2> QED
    BY Zenon, <2>1, WaveKept DEF RequestOK
<1>5. req[q].op \in {"cancelRun", "cancelRunTx", "staleEval", "staleWrite"} =>
        run'[req[q].run].status # "None"
  <2>1. req[q].op \in {"cancelRun", "cancelRunTx", "staleEval", "staleWrite"} =>
          req[q].run \in Runs
    BY Zenon, ReqFields DEF CancelRunReq, CancelRunTxReq, StaleEvalReq, StaleWriteReq
  <2> QED
    BY Zenon, <2>1, RunKept DEF RequestOK
<1>6. req[q].op \in {"restart", "restartTx"} =>
        IF req[q].fromFailed THEN req[q].resume < MaxResume ELSE req[q].attempt < MaxAttempt
  BY Zenon DEF RequestOK
<1> QED
  BY <1>1, <1>2, <1>3, <1>4, <1>5, <1>6 DEF RequestOK

\* The recovery task lists only runs that exist.
LEMMA StaleKept ==
  ASSUME IInv, [Next]_vars, NEW x \in stale'
  PROVE  run'[x[1]].status # "None"
<1> TypeOK
  BY DEF IInv
<1>1. ASSUME NEW y \in Runs \X Attempts, run[y[1]].status # "None"
      PROVE  run'[y[1]].status # "None"
  BY <1>1, RunKept
<1>2. ASSUME NEW overdue \in SUBSET Nodes, ListStaleRunningJobs(overdue)
      PROVE  run'[x[1]].status # "None"
  <2>1. x \in Runs \X Attempts /\ \E k \in Steps : jobs[x[1]][x[2]][k].status = "Running"
    BY <1>2 DEF ListStaleRunningJobs
  <2>2. jobs[x[1]][x[2]] # NoChain
    BY <2>1 DEF NoChain, NoJob
  <2>3. run[x[1]].status # "None"
    BY <2>1, <2>2 DEF IInv, ChainsPlanned
  <2> QED
    BY Zenon, <1>1, <2>1, <2>3
<1>3. CASE x \in stale
  <2>1. x \in Runs \X Attempts /\ run[x[1]].status # "None"
    BY <1>3 DEF TypeOK, IInv, RequestsCurrent
  <2> QED
    BY <1>1, <2>1
<1>4. ASSUME \A overdue \in SUBSET Nodes : ~ListStaleRunningJobs(overdue)
      PROVE  stale' \subseteq stale
  <2>1. ASSUME NEW h \in Handlers,
               Claim(h) \/ Complete(h) \/ RestartRun(h) \/ CancelRun(h) \/ CancelWave(h)
        PROVE  stale' = stale
    BY Zenon, <2>1 DEF Claim, ClaimJob, ClaimDelivered, ClaimPayloadError, ClaimTerminalError,
                ClaimCompletionFailed, UnclaimJob, Complete, CompleteBegin, CompleteCommit,
                RestartRun, RestartRead, RestartBegin, RestartCommit, RestartRefused,
                CancelRun, CancelRunRead, CancelRunBegin, CancelRunCommit,
                CancelWave, CancelWaveRead, CancelWaveRuns, CancelWaveCommit
  <2>2. ASSUME NEW p \in Procs, FinishWave(p) \/ Abort(p)
        PROVE  stale' \subseteq stale
    BY <2>2 DEF FinishWave, WaveCount, WaveCheck, WaveWrite, Abort
  <2>3. ASSUME Recover
        PROVE  stale' \subseteq stale
    BY Zenon, <1>4, <2>3 DEF Recover, RecoverCancelJobs, RecoverCancelFailed, RecoverEvalRun,
                      RecoverWriteRun
  <2> QED
    BY <2>1, <2>2, <2>3 DEF Next, vars, CreateWaveWithRuns, SetNodeDrained
<1> QED
  BY <1>2, <1>3, <1>4

\* Every request stays true to what it learnt.
LEMMA RequestsKept ==
  ASSUME IInv, [Next]_vars
  PROVE  RequestsCurrent'
<1>1. \A q \in Procs : RequestOK(req[q])'
  BY RequestKept, NewRequests DEF Admitted
<1> QED
  BY <1>1, StaleKept DEF RequestsCurrent
=============================================================================
