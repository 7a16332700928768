--------------------------- MODULE ServerProcess ----------------------------
(***************************************************************************)
(* The ployd process: configuration from the environment, the start of the *)
(* scheduler and of the two listeners, the scheduler's tasks, and the      *)
(* shutdown, which has ten seconds for everything together.  One of the    *)
(* tasks renews the server's certificate.                                  *)
(***************************************************************************)
EXTENDS Integers, FiniteSets

CONSTANTS RenewBefore,  \* PLOYD_PKI_RENEW_BEFORE, also the task's interval
          Validity,     \* validity of a certificate when it is issued
          RunTime,      \* longest run of the renewal task
          MaxFailures,  \* renewals that fail
          Clock         \* bound on the ticks of the clock

ASSUME ProcessAssumption ==
  /\ {RenewBefore, Validity, RunTime} \subseteq Nat \ {0} /\ RenewBefore < Validity
  /\ MaxFailures \in Nat /\ Clock \in Nat

VARIABLES
  environ,   \* what the process was started with
  main,      \* step of runMain and run
  pool,      \* the database pool: "none", "open" or "closed"
  ctxCancelled, \* the context of the scheduler's tasks
  signalled, \* SIGTERM or SIGINT was caught
  tasks,     \* task -> "off", "running", "waiting" or "ended"
  listening, \* the listeners that are up
  handling,   \* an API request is in progress
  late,      \* the ten seconds of the shutdown are over
  cert       \* [left, timer, running, failures, ticks] of the renewal task

procVars == <<environ, main, pool, ctxCancelled, signalled, tasks, listening, handling, late, cert>>

TaskNames == {"ttl", "stale", "pki"}
MainAt(pc) == main = pc
Goes(pc) == main' = pc

(* ----------------------------- configuration ---------------------------- *)

\* applyEnvDuration and applyDefaults for the interval of stale-job recovery:
\* unset or negative is the default, zero stays.
staleInterval(v) == IF v = "0" THEN "0" ELSE IF v = "30s" THEN v ELSE "default"

Duration == {"", "0", "-5s", "30s", "soon"}
Required == {"PLOY_DB_DSN", "PLOY_AUTH_SECRET", "PLOY_OBJECTSTORE_ENDPOINT", "PLOY_OBJECTSTORE_BUCKET"}

\* LoadFromEnv, validate, and runMain's own checks before the pool.
LoadFromEnv ==
  /\ MainAt("load")
  /\ IF environ.stale = "soon" \/ environ.missing = "PLOY_DB_DSN"
     THEN Goes("exit") /\ UNCHANGED pool
     ELSE Goes("migrate") /\ pool' = "open"
  /\ UNCHANGED <<environ, ctxCancelled, signalled, tasks, listening, handling, late, cert>>

\* NewStore or RunMigrations fails, or a later setting is missing: runMain
\* returns and the deferred Close runs.
SetupFails ==
  /\ MainAt("migrate")
  /\ Goes("exit") /\ pool' = "closed"
  /\ UNCHANGED <<environ, ctxCancelled, signalled, tasks, listening, handling, late, cert>>

SetupDone ==
  /\ MainAt("migrate") /\ environ.missing = ""
  /\ Goes("startTasks")
  /\ UNCHANGED <<environ, pool, ctxCancelled, signalled, tasks, listening, handling, late, cert>>

(* -------------------------------- run ----------------------------------- *)

\* scheduler.Start with the tasks run registered.
StartTasks ==
  /\ MainAt("startTasks")
  /\ tasks' = [t \in TaskNames |->
                 IF t = "stale" /\ staleInterval(environ.stale) = "0" THEN "off" ELSE "running"]
  /\ Goes("startHTTP")
  /\ UNCHANGED <<environ, pool, ctxCancelled, signalled, listening, handling, late, cert>>

StartHTTP ==
  /\ MainAt("startHTTP") /\ ~signalled
  /\ listening' = {"api"} /\ Goes("startMetrics")
  /\ UNCHANGED <<environ, pool, ctxCancelled, signalled, tasks, handling, late, cert>>

\* The address is taken, or the context is done: the scheduler is stopped,
\* without a limit, before run returns.
StartHTTPFails ==
  /\ MainAt("startHTTP")
  /\ ctxCancelled' = TRUE /\ Goes("waitTasks")
  /\ UNCHANGED <<environ, pool, signalled, tasks, listening, handling, late, cert>>

StartMetrics ==
  /\ MainAt("startMetrics") /\ ~signalled
  /\ listening' = listening \cup {"metrics"} /\ Goes("serving")
  /\ UNCHANGED <<environ, pool, ctxCancelled, signalled, tasks, handling, late, cert>>

\* The API listener is stopped first, then the scheduler.
StartMetricsFails ==
  /\ MainAt("startMetrics") /\ ~handling
  /\ listening' = {} /\ ctxCancelled' = TRUE /\ Goes("waitTasks")
  /\ UNCHANGED <<environ, pool, signalled, tasks, handling, late, cert>>

WaitTasks ==
  /\ MainAt("waitTasks")
  /\ \A t \in TaskNames : tasks[t] \in {"off", "ended"}
  /\ Goes("return")
  /\ UNCHANGED <<environ, pool, ctxCancelled, signalled, tasks, listening, handling, late, cert>>

Signal ==
  /\ ~signalled /\ main \in {"startTasks", "startHTTP", "startMetrics", "serving"}
  /\ signalled' = TRUE /\ ctxCancelled' = TRUE
  /\ UNCHANGED <<environ, main, pool, tasks, listening, handling, late, cert>>

Shutdown ==
  /\ MainAt("serving") /\ signalled
  /\ Goes("stopTasks")
  /\ UNCHANGED <<environ, pool, ctxCancelled, signalled, tasks, listening, handling, late, cert>>

TimeIsUp ==
  /\ main \in {"stopTasks", "stopHTTP"} /\ ~late
  /\ late' = TRUE
  /\ UNCHANGED <<environ, main, pool, ctxCancelled, signalled, tasks, listening, handling, cert>>

\* scheduler.Stop with the shutdown context.
StopTasks ==
  /\ MainAt("stopTasks")
  /\ late \/ \A t \in TaskNames : tasks[t] \in {"off", "ended"}
  /\ Goes("stopHTTP")
  /\ UNCHANGED <<environ, pool, ctxCancelled, signalled, tasks, listening, handling, late, cert>>

\* httpserver.Stop and metrics.Stop: the listeners close, requests in
\* progress are awaited.
StopHTTP ==
  /\ MainAt("stopHTTP")
  /\ late \/ ~handling
  /\ listening' = {} /\ Goes("return")
  /\ UNCHANGED <<environ, pool, ctxCancelled, signalled, tasks, handling, late, cert>>

\* runMain's deferred Close of the pool, which waits for its connections, and
\* the exit.
CloseAndExit ==
  /\ MainAt("return")
  /\ pool' = "closed" /\ Goes("exit")
  /\ UNCHANGED <<environ, ctxCancelled, signalled, tasks, listening, handling, late, cert>>

(* ------------------------------ the scheduler --------------------------- *)

Alive == main # "exit"

\* runTask: Run returns; the task ends when its context is done, else waits.
\* A run of the renewal task is RenewReturns.
RunReturns(t) ==
  /\ Alive /\ t # "pki" /\ tasks[t] = "running"
  /\ tasks' = [tasks EXCEPT ![t] = IF ctxCancelled THEN "ended" ELSE "waiting"]
  /\ UNCHANGED <<environ, main, pool, ctxCancelled, signalled, listening, handling, late, cert>>

CycleTimerFires(t) ==
  /\ Alive /\ tasks[t] = "waiting"
  /\ IF ctxCancelled THEN tasks' = [tasks EXCEPT ![t] = "ended"]
     ELSE t # "pki" /\ tasks' = [tasks EXCEPT ![t] = "running"]
  /\ UNCHANGED <<environ, main, pool, ctxCancelled, signalled, listening, handling, late, cert>>

\* A request of the API; after the signal its context is done.
RequestArrives ==
  /\ Alive /\ "api" \in listening /\ ~handling /\ ~signalled
  /\ handling' = TRUE
  /\ UNCHANGED <<environ, main, pool, ctxCancelled, signalled, tasks, listening, late, cert>>

RequestEnds ==
  /\ Alive /\ handling
  /\ handling' = FALSE
  /\ UNCHANGED <<environ, main, pool, ctxCancelled, signalled, tasks, listening, late, cert>>

(* -------------------------- certificate renewal ------------------------- *)

\* Mutant: only a certificate that is out of date is renewed.
RenewLate(left) == IF left > 0 THEN left ELSE Validity

\* Renew: outside its window nothing happens, inside a certificate of the
\* same validity is issued.
Renew(left) == IF left > RenewBefore THEN left ELSE Validity

\* The renewal task's Run, and the timer of runTask that starts when it ends.
RenewReturns(fails) ==
  /\ Alive /\ tasks["pki"] = "running"
  /\ fails => cert.left <= RenewBefore /\ cert.failures < MaxFailures
  /\ cert' = [cert EXCEPT !.left = IF fails THEN @ ELSE Renew(@),
                          !.timer = RenewBefore, !.running = 0,
                          !.failures = IF fails THEN @ + 1 ELSE @]
  /\ tasks' = [tasks EXCEPT !["pki"] = IF ctxCancelled THEN "ended" ELSE "waiting"]
  /\ UNCHANGED <<environ, main, pool, ctxCancelled, signalled, listening, handling, late>>

RenewTimerFires ==
  /\ Alive /\ tasks["pki"] = "waiting" /\ ~ctxCancelled /\ cert.timer = 0
  /\ tasks' = [tasks EXCEPT !["pki"] = "running"]
  /\ UNCHANGED <<environ, main, pool, ctxCancelled, signalled, listening, handling, late, cert>>

\* Time passes while the server serves; a timer that is due fires first.
ClockTicks ==
  /\ MainAt("serving") /\ ~signalled /\ cert.ticks < Clock
  /\ tasks["pki"] = "running" => cert.running < RunTime
  /\ tasks["pki"] = "waiting" => cert.timer > 0
  /\ cert' = [cert EXCEPT !.left = @ - 1, !.ticks = @ + 1,
                          !.timer = IF tasks["pki"] = "waiting" THEN @ - 1 ELSE @,
                          !.running = IF tasks["pki"] = "running" THEN @ + 1 ELSE @]
  /\ UNCHANGED <<environ, main, pool, ctxCancelled, signalled, tasks, listening, handling, late>>

(* ----------------------------- specification ---------------------------- *)

ProcessInit ==
  /\ environ \in [stale : Duration, missing : Required \cup {""}]
  /\ main = "load" /\ pool = "none" /\ ctxCancelled = FALSE /\ signalled = FALSE
  /\ tasks = [t \in TaskNames |-> "off"]
  /\ listening = {} /\ handling = FALSE /\ late = FALSE
  /\ \E n \in 1..Validity :
       cert = [left |-> n, timer |-> 0, running |-> 0, failures |-> 0, ticks |-> 0]

MainNext ==
  \/ LoadFromEnv \/ SetupFails \/ SetupDone \/ StartTasks
  \/ StartHTTP \/ StartHTTPFails \/ StartMetrics \/ StartMetricsFails \/ WaitTasks
  \/ Signal \/ Shutdown \/ TimeIsUp \/ StopTasks \/ StopHTTP \/ CloseAndExit

TaskNext ==
  \/ \E t \in TaskNames : RunReturns(t) \/ CycleTimerFires(t)
  \/ \E fails \in BOOLEAN : RenewReturns(fails)
  \/ RenewTimerFires

ProcessNext == MainNext \/ TaskNext \/ RequestArrives \/ RequestEnds \/ ClockTicks

\* Every step of main but the signal and the faults is taken; a task's run and
\* a request end, since each passes its context to every call it waits for;
\* the ten seconds pass.
MainSteps ==
  \/ LoadFromEnv \/ SetupDone \/ SetupFails \/ StartTasks \/ StartHTTP \/ StartHTTPFails
  \/ StartMetrics \/ StartMetricsFails \/ WaitTasks \/ Shutdown \/ StopTasks \/ StopHTTP \/ CloseAndExit

ProcessFairness ==
  /\ WF_procVars(MainSteps)
  /\ WF_procVars(TimeIsUp)
  /\ WF_procVars(RequestEnds)
  /\ \A t \in TaskNames : WF_procVars(RunReturns(t) \/ CycleTimerFires(t))
  /\ WF_procVars(\E fails \in BOOLEAN : RenewReturns(fails))

ProcessSpec == ProcessInit /\ [][ProcessNext]_procVars /\ ProcessFairness

(* ------------------------------ properties ------------------------------ *)

\* The database pool is open while a task runs or a request is served, on
\* every way the process starts, fails to start and stops, unless the ten
\* seconds of the shutdown ran out first (run, runMain).
PoolOpenWhileUsed ==
  (pool = "closed" /\ ~late) =>
    ~handling /\ \A t \in TaskNames : tasks[t] \in {"off", "ended"}

\* The certificate is never out of date for as long as one run of the renewal
\* task, although the task looks at it only every RenewBefore, as long as no
\* renewal failed (Renew, runTask, New).
CertificateRenewed == cert.failures = 0 => cert.left > -RunTime

\* Once the signal is caught, the process exits (run's shutdown).
SignalEndsProcess == signalled ~> main = "exit"

\* What a request needs is there as long as requests are served: an open pool
\* and a valid certificate.
ServesSafely ==
  /\ PoolOpenWhileUsed
  /\ CertificateRenewed
=============================================================================
