---------------------------- MODULE NodeHeartbeat ----------------------------
(***************************************************************************)
(* The heartbeat loop of a node (HeartbeatManager), the handler that       *)
(* records it, and the recovery task that gives up the Running jobs of a   *)
(* node whose last heartbeat is too old.  Time is counted in ticks; one    *)
(* Tick moves every clock.  The node stays alive throughout: what fails is *)
(* the server, which refuses requests or does not answer for a while.      *)
(***************************************************************************)
EXTENDS Naturals

CONSTANTS Interval,      \* Heartbeat.Interval
          Timeout,       \* Heartbeat.Timeout of one request
          FirstBackoff,  \* HeartbeatPolicy.InitialInterval
          LastBackoff,   \* HeartbeatPolicy.MaxInterval
          StaleAfter,    \* Scheduler.NodeStaleAfter
          ScanEvery,     \* Scheduler.StaleJobRecoveryInterval
          MaxOutages     \* outages of the server

ASSUME HeartbeatAssumption ==
  /\ {Interval, Timeout, FirstBackoff, LastBackoff, StaleAfter, ScanEvery} \subseteq Nat \ {0}
  /\ MaxOutages \in Nat
  /\ FirstBackoff <= LastBackoff

VARIABLES
  server,    \* what a request meets: "ok", "5xx", "refused" (4xx, no connection), "dark"
  outages,
  client,    \* the lazily created HTTP client: "none", "ready" or "broken"
  phase,     \* the loop: "send", "diagnostic" or "timer"
  timer,     \* ticks to the next heartbeat, or to the request's timeout
  eb,        \* the interval the exponential backoff returns next
  current,   \* StatefulBackoff.current (0: not started)
  active,    \* backoffActive
  age,       \* ticks since nodes.last_heartbeat, up to TooOld
  steady,    \* a heartbeat was recorded and no outage began since
  scan,      \* ticks to the next recovery cycle
  job        \* the node's job: "Running" or "Cancelled"

beatVars == <<server, outages, client, phase, timer, eb, current, active, age, steady,
              scan, job>>

TooOld == StaleAfter + 1
Least(a, b) == IF a < b THEN a ELSE b
\* The longest wait of a jittered backoff interval.
LongestWait == LastBackoff + LastBackoff \div 2

BeatInit ==
  /\ server = "ok" /\ outages = 0
  /\ client = "none"
  /\ phase = "send" /\ timer = Timeout
  /\ eb = FirstBackoff /\ current = 0 /\ active = FALSE
  /\ age = 0 /\ steady = FALSE
  /\ scan = ScanEvery
  /\ job = "Running"

(* --------------------------------- node -------------------------------- *)

\* StatefulBackoff.Apply: the interval is drawn with half of it as jitter
\* either way, then doubled up to the cap.
Apply ==
  /\ \E d \in (eb - eb \div 2)..(eb + eb \div 2) : current' = d
  /\ eb' = Least(2 * eb, LastBackoff)

\* StatefulBackoff.Reset: back to the first interval.
Reset == eb' = FirstBackoff /\ current' = 0

\* applyBackoff: a 5xx answer advances the backoff.
applyBackoff == Apply /\ active' = TRUE

\* Mutant: a success leaves the backoff as it is.
resetBackoffNot == UNCHANGED <<eb, current, active>>

\* resetBackoff: back to the steady rhythm.
resetBackoff == Reset /\ active' = FALSE

\* StatefulBackoff.GetDuration.
GetDuration(c) == IF c = 0 THEN FirstBackoff ELSE c

\* HeartbeatManager.Start: the delay before the next heartbeat.
NextDelay(a, c) == IF a THEN GetDuration(c) ELSE Interval

\* sendHeartbeat creates the client once; its error is kept for good.
createHTTPClient ==
  /\ phase = "send" /\ client = "none"
  /\ client' \in {"ready", "broken"}
  /\ UNCHANGED <<server, outages, phase, timer, eb, current, active, age, steady, scan, job>>

ClientBroken ==
  /\ phase = "send" /\ client = "broken"
  /\ phase' = "timer" /\ timer' = Interval
  /\ UNCHANGED <<server, outages, client, eb, current, active, age, steady, scan, job>>

UpdateNodeHeartbeat == age' = 0

\* heartbeatHandler records the heartbeat and answers.
HeartbeatRecorded ==
  /\ phase = "send" /\ client = "ready" /\ server = "ok"
  /\ UpdateNodeHeartbeat
  /\ steady' = TRUE
  /\ phase' = "diagnostic" /\ timer' = Timeout
  /\ UNCHANGED <<server, outages, client, eb, current, active, scan, job>>

\* The node's own diagnostic follows every heartbeat, in the same loop: it is
\* answered, or times out; its failure is only logged, and the loop resets.
uploadSelfDiagnostic ==
  /\ phase = "diagnostic" /\ (server # "dark" \/ timer = 0)
  /\ resetBackoff
  /\ phase' = "timer" /\ timer' = NextDelay(active', current')
  /\ UNCHANGED <<server, outages, client, age, steady, scan, job>>

\* A 5xx answer: backoff.
HeartbeatRefused ==
  /\ phase = "send" /\ client = "ready" /\ server = "5xx"
  /\ applyBackoff
  /\ phase' = "timer" /\ timer' = NextDelay(active', current')
  /\ UNCHANGED <<server, outages, client, age, steady, scan, job>>

\* A 4xx, no connection, no answer before the timeout: neither a backoff nor
\* a reset.
HeartbeatFails ==
  /\ phase = "send" /\ client = "ready"
  /\ \/ server = "refused"
     \/ server = "dark" /\ timer = 0
  /\ phase' = "timer" /\ timer' = NextDelay(active, current)
  /\ UNCHANGED <<server, outages, client, eb, current, active, age, steady, scan, job>>

TimerFires ==
  /\ phase = "timer" /\ timer = 0
  /\ phase' = "send" /\ timer' = Timeout
  /\ UNCHANGED <<server, outages, client, eb, current, active, age, steady, scan, job>>

(* -------------------------------- server ------------------------------- *)

\* ListStaleRunningJobs: the heartbeat is older than the cutoff.
Stale == age > StaleAfter

\* StaleJobRecoveryTask.Run: the Running jobs of a stale node are cancelled.
RecoveryCycle ==
  /\ scan = 0 /\ server # "dark"
  /\ scan' = ScanEvery
  /\ \/ job' = IF Stale THEN "Cancelled" ELSE job
     \/ server = "5xx" /\ UNCHANGED job    \* a failed query is only logged
  /\ UNCHANGED <<server, outages, client, phase, timer, eb, current, active, age, steady>>

OutageBegins ==
  /\ server = "ok" /\ outages < MaxOutages
  /\ outages' = outages + 1
  /\ server' \in {"5xx", "refused", "dark"}
  /\ steady' = FALSE
  /\ UNCHANGED <<client, phase, timer, eb, current, active, age, scan, job>>

OutageEnds ==
  /\ server # "ok"
  /\ server' = "ok"
  /\ scan' = IF server = "dark" THEN 0 ELSE scan   \* the scheduler runs its tasks at once
  /\ UNCHANGED <<outages, client, phase, timer, eb, current, active, age, steady, job>>

(* --------------------------------- time -------------------------------- *)

\* What must happen before time moves on.
Due ==
  \/ phase = "timer" /\ timer = 0
  \/ phase = "send" /\ client # "ready"
  \/ phase \in {"send", "diagnostic"} /\ (server # "dark" \/ timer = 0)
  \/ scan = 0 /\ server # "dark"

Tick ==
  /\ ~Due
  /\ timer' = timer - 1
  /\ scan' = IF scan = 0 THEN 0 ELSE scan - 1
  /\ age' = Least(age + 1, TooOld)
  /\ UNCHANGED <<server, outages, client, phase, eb, current, active, steady, job>>

BeatSteps == createHTTPClient \/ ClientBroken \/ HeartbeatRecorded \/ HeartbeatRefused
             \/ HeartbeatFails \/ uploadSelfDiagnostic \/ TimerFires

BeatNext == BeatSteps \/ RecoveryCycle \/ OutageBegins \/ OutageEnds \/ Tick

\* Time passes, the loop runs when it is due and so does the scheduler.
BeatFairness ==
  /\ WF_beatVars(BeatSteps)
  /\ WF_beatVars(RecoveryCycle)
  /\ WF_beatVars(Tick)

BeatSpec == BeatInit /\ [][BeatNext]_beatVars /\ BeatFairness

(* ------------------------------ properties ----------------------------- *)

\* Every variable has its type.
BeatTypeOK ==
  /\ server \in {"ok", "5xx", "refused", "dark"} /\ outages \in 0..MaxOutages
  /\ client \in {"none", "ready", "broken"}
  /\ phase \in {"send", "diagnostic", "timer"}
  /\ timer \in 0..(Interval + Timeout + LongestWait)
  /\ eb \in FirstBackoff..LastBackoff /\ current \in 0..LongestWait
  /\ active \in BOOLEAN
  /\ age \in 0..TooOld /\ steady \in BOOLEAN
  /\ scan \in 0..ScanEvery
  /\ job \in {"Running", "Cancelled"}

\* A heartbeat that was recorded with no outage since puts the node back in
\* the steady rhythm, whatever backoff came before: the next one comes within
\* an interval, half the age at which recovery would take the node for dead.
SteadyNodeIsFresh ==
  steady => age <= Interval /\ (active => phase = "diagnostic")

\* A node that never met an outage never loses its job to recovery, and
\* never waits by the backoff.
JobSafeWithoutOutage ==
  outages = 0 /\ client # "broken" => job = "Running" /\ ~active

\* Once the server stays up, the heartbeats come back for good and the
\* backoff ends, however long the outage was - unless the client could not
\* be created, which is never tried again.
HeartbeatResumes ==
  <>[](server = "ok" /\ client = "ready") => <>[](~active /\ age <= Interval)

\* A node that can reach the server is not taken for dead.
LiveNodeKept ==
  /\ BeatTypeOK
  /\ SteadyNodeIsFresh
  /\ JobSafeWithoutOutage
=============================================================================
