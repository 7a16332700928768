----------------------------- MODULE NodeAgent -----------------------------
(***************************************************************************)
(* The node agent's concurrency: the claim loop and the HTTP start handler  *)
(* acquire a slot (a semaphore permit and a shared maintenance lock), start *)
(* at most one goroutine for a job, and hand the slot over to it; the sweep *)
(* removes what abandoned jobs left on disk; host maintenance excludes all  *)
(* of them; a crashed process recovers the containers docker still runs.    *)
(* What a job does while it executes is module RunWorkspace.                *)
(***************************************************************************)
EXTENDS Naturals, FiniteSets, TLC

CONSTANTS
  AgentJobs,      \* job ids
  Goroutines,     \* identities for the goroutines that execute or monitor
  Capacity,       \* Config.Concurrency, between 1 and MaxConcurrency
  MaxJobResumes,  \* bound on retries of failed jobs
  MaxControls,    \* bound on HTTP start and stop requests
  MaxNodeCrashes  \* bound on crashes of the process

MaxConcurrency == 64

ASSUME AgentAssumption ==
  /\ Capacity \in 1..MaxConcurrency
  /\ {MaxJobResumes, MaxControls, MaxNodeCrashes} \subseteq Nat
  /\ Goroutines \subseteq Nat \ {0}

None == "none"
Untracked == 0

\* Who may hold the shared lock.
TheLoop == <<"loop", 0>>
TheStartup == <<"startup", 0>>
TheHandler == <<"start", 0>>
TheSweep == <<"sweep", 0>>
Goroutine(g) == <<"goroutine", g>>

VARIABLES
  status,       \* the server's view of each job
  docker,       \* the job's container: none, running or exited
  dirs,         \* jobs whose runtime directories exist on the node
  tracked,      \* runController.jobs: job id -> goroutine
  permits,      \* len(jobSem)
  shared,       \* holders of the shared maintenance lock
  host,         \* host maintenance holds the lock exclusively
  loop,         \* the claim loop
  start,        \* the HTTP start handler
  sweep,        \* the sweep of abandoned runtime directories
  gor,          \* the goroutines
  resumes, controls, stops, falls

agentVars == <<status, docker, dirs, tracked, permits, shared, host, loop, start, sweep, gor,
               resumes, controls, stops, falls>>
counters == <<resumes, controls, stops, falls>>

-----------------------------------------------------------------------------
Free == [role |-> None, at |-> None, job |-> None, cancelled |-> FALSE]
Waiting == [at |-> "idle", job |-> None]
NoSweep == [at |-> "idle", by |-> None, candidates |-> {}]

AgentInit ==
  /\ status = [j \in AgentJobs |-> "Queued"]
  /\ docker = [j \in AgentJobs |-> None]
  /\ dirs = {}
  /\ tracked = [j \in AgentJobs |-> Untracked]
  /\ permits = 0
  /\ shared = {}
  /\ host = FALSE
  /\ loop = [at |-> "startup", job |-> None]
  /\ start = Waiting
  /\ sweep = NoSweep
  /\ gor = [g \in Goroutines |-> Free]
  /\ resumes = 0 /\ controls = 0 /\ stops = 0 /\ falls = 0

Terminal == {"Success", "Fail", "Cancelled"}
Tracked == {j \in AgentJobs : tracked[j] # Untracked}
nodeIsIdle == Tracked = {} /\ permits = 0

\* The goroutine a new execution gets.
Fresh == CHOOSE g \in Goroutines : gor[g].role = None
HasFresh == \E g \in Goroutines : gor[g].role = None

-----------------------------------------------------------------------------
(* The server and the host, as the node sees them.                          *)

\* The run is cancelled, or a failed job is queued again under its id.
CancelJob(j) ==
  /\ status[j] \in {"Queued", "Running"}
  /\ status' = [status EXCEPT ![j] = "Cancelled"]
  /\ UNCHANGED <<docker, dirs, tracked, permits, shared, host, loop, start, sweep, gor, counters>>

ResumeJob(j) ==
  /\ status[j] = "Fail"
  /\ resumes < MaxJobResumes
  /\ resumes' = resumes + 1
  /\ status' = [status EXCEPT ![j] = "Queued"]
  /\ UNCHANGED <<docker, dirs, tracked, permits, shared, host, loop, start, sweep, gor, controls, stops, falls>>

HostLock ==
  /\ ~host /\ shared = {}
  /\ host' = TRUE
  /\ UNCHANGED <<status, docker, dirs, tracked, permits, shared, loop, start, sweep, gor, counters>>

HostUnlock ==
  /\ host
  /\ host' = FALSE
  /\ UNCHANGED <<status, docker, dirs, tracked, permits, shared, loop, start, sweep, gor, counters>>

-----------------------------------------------------------------------------
(* Slots.                                                                   *)

\* Mutant: a lock file of the node's own.
acquirePrivateLock(who) == shared' = shared \cup {who}

\* The permit first; then the shared lock, polled until the host lets go.
TakePermit == permits < Capacity /\ permits' = permits + 1
acquireMaintenanceActivity(who) == ~host /\ shared' = shared \cup {who}

\* ReleaseSlot: the lock's file is closed and the permit given back.
ReleaseSlot(who) == permits' = permits - 1 /\ shared' = shared \ {who}

\* The slot a caller acquired passes to the goroutine it starts.
HandOver(who, g) == shared' = (shared \ {who}) \cup {Goroutine(g)}

\* StartRun, under the mutex: a job that is tracked is refused.
Accepts(j) == tracked[j] = Untracked

StartRun(j, who) ==
  /\ Accepts(j)
  /\ tracked' = [tracked EXCEPT ![j] = Fresh]
  /\ gor' = [gor EXCEPT ![Fresh] = [role |-> "exec", at |-> "start", job |-> j, cancelled |-> FALSE]]
  /\ HandOver(who, Fresh)

-----------------------------------------------------------------------------
(* The claim loop.                                                          *)

LoopAt(p) == loop.at = p
LoopGoto(p) == loop' = [loop EXCEPT !.at = p]

\* Startup reconciliation, under a lock of its own: the containers docker
\* lists; an error ends the claim loop for good while the process lives on.
StartupLock ==
  /\ LoopAt("startup")
  /\ acquireMaintenanceActivity(TheStartup)
  /\ LoopGoto("discover")
  /\ UNCHANGED <<status, docker, dirs, tracked, permits, host, start, sweep, gor, counters>>

Monitored == {gor[g].job : g \in {h \in Goroutines : gor[h].role = "monitor"}}
Discover ==
  /\ LoopAt("discover")
  /\ \/ LoopGoto("monitors") /\ UNCHANGED shared
     \/ LoopGoto("dead") /\ shared' = shared \ {TheStartup}
  /\ UNCHANGED <<status, docker, dirs, tracked, permits, host, start, sweep, gor, counters>>

\* One slot and one monitor for every container that was running; one whose
\* slot cannot be had is passed over.  (The host cannot hold the lock now.)
startRecoveredRunningMonitors(j) ==
  /\ LoopAt("monitors") /\ HasFresh
  /\ docker[j] = "running" /\ j \notin Monitored
  /\ TakePermit
  /\ shared' = shared \cup {Goroutine(Fresh)}
  /\ gor' = [gor EXCEPT ![Fresh] = [role |-> "monitor", at |-> "wait", job |-> j, cancelled |-> FALSE]]
  /\ UNCHANGED <<status, docker, dirs, tracked, host, loop, start, sweep, counters>>

\* Then the containers that ended: their status is sent again, and counts if
\* the job is still running for the server.  Startup ends with a sweep.
reconcileRecoveredTerminalContainers ==
  /\ LoopAt("monitors")
  /\ \E sent \in SUBSET {j \in AgentJobs : docker[j] = "exited" /\ status[j] = "Running"} :
       \E st \in [sent -> {"Success", "Fail"}] :
         status' = [j \in AgentJobs |-> IF j \in sent THEN st[j] ELSE status[j]]
  /\ LoopGoto("sweep")
  /\ UNCHANGED <<docker, dirs, tracked, permits, shared, host, start, sweep, gor, counters>>

\* claimAndExecute: permit, lock, claim, start.
ClaimPermit ==
  /\ LoopAt("idle")
  /\ TakePermit
  /\ LoopGoto("lock")
  /\ UNCHANGED <<status, docker, dirs, tracked, shared, host, start, sweep, gor, counters>>

\* Without the lock file there is no claim: the permit goes back.
ClaimLock ==
  /\ LoopAt("lock")
  /\ \/ acquireMaintenanceActivity(TheLoop) /\ LoopGoto("claim") /\ UNCHANGED permits
     \/ permits' = permits - 1 /\ LoopGoto("idle") /\ UNCHANGED shared
  /\ UNCHANGED <<status, docker, dirs, tracked, host, start, sweep, gor, counters>>

\* 200 with a job; or no work, after which an idle node sweeps; or an error,
\* possibly after the server has assigned the job.
ClaimJob(j) ==
  /\ LoopAt("claim")
  /\ status[j] = "Queued"
  /\ status' = [status EXCEPT ![j] = "Running"]
  /\ \/ loop' = [at |-> "start", job |-> j] /\ UNCHANGED <<permits, shared>>
     \/ LoopGoto("idle") /\ ReleaseSlot(TheLoop)
  /\ UNCHANGED <<docker, dirs, tracked, host, start, sweep, gor, counters>>

ClaimNothing ==
  /\ LoopAt("claim")
  /\ \/ (\A j \in AgentJobs : status[j] # "Queued") /\ LoopGoto("sweep")
     \/ LoopGoto("idle")
  /\ ReleaseSlot(TheLoop)
  /\ UNCHANGED <<status, docker, dirs, tracked, host, start, sweep, gor, counters>>

\* A spec that does not parse, or a job that is still tracked: the slot goes
\* back and the job stays Running on the server.
ClaimStart ==
  /\ LoopAt("start") /\ HasFresh
  /\ loop' = Waiting
  /\ \/ StartRun(loop.job, TheLoop) /\ UNCHANGED permits
     \/ ReleaseSlot(TheLoop) /\ UNCHANGED <<tracked, gor>>
  /\ UNCHANGED <<status, docker, dirs, host, start, sweep, counters>>

-----------------------------------------------------------------------------
(* The sweep of abandoned runtime directories.  sweepMu lets one run.       *)

SweepAt(p) == sweep.at = p

\* Callers: the loop when there was no work or startup is over, and a monitor
\* whose slot is released; both look whether the node is idle first.
sweepBegins(who) ==
  \/ nodeIsIdle /\ SweepAt("idle") /\ sweep' = [NoSweep EXCEPT !.at = "lock", !.by = who]
  \/ ~nodeIsIdle /\ UNCHANGED sweep

LoopSweeps ==
  /\ LoopAt("sweep")
  /\ sweepBegins("loop")
  /\ LoopGoto(IF nodeIsIdle THEN "sweeping" ELSE "idle")
  /\ shared' = IF nodeIsIdle THEN shared ELSE shared \ {TheStartup}
  /\ UNCHANGED <<status, docker, dirs, tracked, permits, host, start, gor, counters>>

LoopSwept ==
  /\ LoopAt("sweeping") /\ ~(sweep.at # "idle" /\ sweep.by = "loop")
  /\ LoopGoto("idle")
  /\ shared' = shared \ {TheStartup}
  /\ UNCHANGED <<status, docker, dirs, tracked, permits, host, start, sweep, gor, counters>>

SweepLock ==
  /\ SweepAt("lock")
  /\ \/ acquireMaintenanceActivity(TheSweep) /\ sweep' = [sweep EXCEPT !.at = "list"]
     \/ UNCHANGED shared /\ sweep' = NoSweep
  /\ UNCHANGED <<status, docker, dirs, tracked, permits, host, loop, start, gor, counters>>

\* The directories found, then a status for each of them (or none: an error).
SweepReads ==
  /\ SweepAt("list")
  /\ \/ /\ nodeIsIdle
        /\ \E seen \in SUBSET {j \in dirs : status[j] \in Terminal} :
             sweep' = [sweep EXCEPT !.at = "clean", !.candidates = seen]
        /\ UNCHANGED shared
     \/ /\ ~nodeIsIdle
        /\ sweep' = NoSweep
        /\ shared' = shared \ {TheSweep}
  /\ UNCHANGED <<status, docker, dirs, tracked, permits, host, loop, start, gor, counters>>

\* Mutant: no second look before the directories go.
SweepCleansBlind ==
  /\ SweepAt("clean")
  /\ dirs' = dirs \ sweep.candidates
  /\ sweep' = NoSweep
  /\ shared' = shared \ {TheSweep}
  /\ UNCHANGED <<status, docker, tracked, permits, host, loop, start, gor, counters>>

\* Under the mutex the node is looked at again.
SweepCleans ==
  /\ SweepAt("clean")
  /\ dirs' = IF nodeIsIdle THEN dirs \ sweep.candidates ELSE dirs
  /\ sweep' = NoSweep
  /\ shared' = shared \ {TheSweep}
  /\ UNCHANGED <<status, docker, tracked, permits, host, loop, start, gor, counters>>

-----------------------------------------------------------------------------
(* The HTTP handlers.                                                       *)

StartAt(p) == start.at = p

StartPermit(j) ==
  /\ StartAt("idle") /\ loop.at # "down"
  /\ controls < MaxControls
  /\ controls' = controls + 1
  /\ TakePermit
  /\ start' = [at |-> "lock", job |-> j]
  /\ UNCHANGED <<status, docker, dirs, tracked, shared, host, loop, sweep, gor, resumes, stops, falls>>

\* Mutant: the permit is kept when the lock cannot be had.
StartLockLeaks ==
  /\ StartAt("lock")
  /\ \/ /\ acquireMaintenanceActivity(TheHandler)
        /\ start' = [start EXCEPT !.at = "start"]
     \/ /\ start' = Waiting /\ UNCHANGED shared
  /\ UNCHANGED <<status, docker, dirs, tracked, permits, host, loop, sweep, gor, counters>>

\* The lock, or a caller that went away while the host held it.
StartLock ==
  /\ StartAt("lock")
  /\ \/ /\ acquireMaintenanceActivity(TheHandler)
        /\ start' = [start EXCEPT !.at = "start"] /\ UNCHANGED permits
     \/ /\ permits' = permits - 1
        /\ start' = Waiting /\ UNCHANGED shared
  /\ UNCHANGED <<status, docker, dirs, tracked, host, loop, sweep, gor, counters>>

handleRunStart ==
  /\ StartAt("start") /\ HasFresh
  /\ \/ /\ StartRun(start.job, TheHandler)
        /\ start' = [start EXCEPT !.at = "respond"] /\ UNCHANGED permits
     \/ /\ ~Accepts(start.job)
        /\ ReleaseSlot(TheHandler) /\ start' = Waiting /\ UNCHANGED <<tracked, gor>>
  /\ UNCHANGED <<status, docker, dirs, host, loop, sweep, counters>>

\* The goroutine's context derives from the request's, which ends with it.
RespondStart ==
  /\ StartAt("respond")
  /\ start' = Waiting
  /\ gor' = [g \in Goroutines |->
       IF gor[g].role = "exec" /\ gor[g].job = start.job /\ tracked[start.job] = g
       THEN [gor[g] EXCEPT !.cancelled = TRUE] ELSE gor[g]]
  /\ UNCHANGED <<status, docker, dirs, tracked, permits, shared, host, loop, sweep, counters>>

\* StopRun cancels a tracked job and forgets it; the goroutine goes on.
StopRun(j) ==
  /\ tracked[j] # Untracked
  /\ gor' = [gor EXCEPT ![tracked[j]].cancelled = TRUE]
  /\ tracked' = [tracked EXCEPT ![j] = Untracked]

handleRunStop(j) ==
  /\ loop.at # "down"
  /\ controls < MaxControls
  /\ controls' = controls + 1
  /\ stops' = stops + 1
  /\ StopRun(j)
  /\ UNCHANGED <<status, docker, dirs, permits, shared, host, loop, start, sweep, resumes, falls>>

-----------------------------------------------------------------------------
(* A goroutine that executes a job, and one that monitors a recovered one.  *)

In(g, role, at) == gor[g].role = role /\ gor[g].at = at
Move(g, at) == gor' = [gor EXCEPT ![g].at = at]

\* The job's runtime directories are made, or cannot be and that is reported;
\* the work inside is RunWorkspace.
ExecDirs(g) ==
  /\ In(g, "exec", "start")
  /\ \/ dirs' = dirs \cup {gor[g].job} /\ Move(g, "run")
     \/ UNCHANGED dirs /\ Move(g, "report")
  /\ UNCHANGED <<status, docker, tracked, permits, shared, host, loop, start, sweep, counters>>

ExecContainer(g) ==
  /\ In(g, "exec", "run") /\ ~gor[g].cancelled
  /\ docker' = [docker EXCEPT ![gor[g].job] = "running"]
  /\ Move(g, "container")
  /\ UNCHANGED <<status, dirs, tracked, permits, shared, host, loop, start, sweep, counters>>

\* Mutant: an execution cancelled before its container is started hangs.
ExecReturnsFromContainer(g) ==
  /\ In(g, "exec", "container")
  /\ docker[gor[g].job] = "exited" \/ gor[g].cancelled
  /\ docker' = IF gor[g].cancelled THEN [docker EXCEPT ![gor[g].job] = None] ELSE docker
  /\ Move(g, "report")
  /\ UNCHANGED <<status, dirs, tracked, permits, shared, host, loop, start, sweep, counters>>

\* The container ended, or the context did and the container is removed, or
\* the work failed before a container existed.
ExecReturns(g) ==
  /\ \/ /\ In(g, "exec", "container")
        /\ docker[gor[g].job] = "exited" \/ gor[g].cancelled
        /\ docker' = IF gor[g].cancelled THEN [docker EXCEPT ![gor[g].job] = None] ELSE docker
     \/ In(g, "exec", "run") /\ UNCHANGED docker
  /\ Move(g, "report")
  /\ UNCHANGED <<status, dirs, tracked, permits, shared, host, loop, start, sweep, counters>>

\* The terminal status, on a context of its own: accepted if the job runs.
ExecReports(g) ==
  /\ In(g, "exec", "report")
  /\ \/ /\ status[gor[g].job] = "Running"
        /\ \E st \in IF gor[g].cancelled THEN {"Cancelled"} ELSE {"Success", "Fail"} :
             status' = [status EXCEPT ![gor[g].job] = st]
     \/ UNCHANGED status
  /\ Move(g, "cleanup")
  /\ UNCHANGED <<docker, dirs, tracked, permits, shared, host, loop, start, sweep, counters>>

\* Deferred, in this order: the runtime directories, the tracked entry, the
\* slot.  The entry is deleted by job id, whoever it belongs to.
ExecCleans(g) ==
  /\ In(g, "exec", "cleanup")
  /\ dirs' = dirs \ {gor[g].job}
  /\ Move(g, "untrack")
  /\ UNCHANGED <<status, docker, tracked, permits, shared, host, loop, start, sweep, counters>>

ExecUntracks(g) ==
  /\ In(g, "exec", "untrack")
  /\ tracked' = [tracked EXCEPT ![gor[g].job] = Untracked]
  /\ Move(g, "release")
  /\ UNCHANGED <<status, docker, dirs, permits, shared, host, loop, start, sweep, counters>>

ExecReleases(g) ==
  /\ In(g, "exec", "release")
  /\ ReleaseSlot(Goroutine(g))
  /\ gor' = [gor EXCEPT ![g] = Free]
  /\ UNCHANGED <<status, docker, dirs, tracked, host, loop, start, sweep, counters>>

\* The control plane cancelled the job: the watch ends the context.
watchRemoteCancellation(g) ==
  /\ gor[g].role = "exec" /\ ~gor[g].cancelled
  /\ status[gor[g].job] = "Cancelled"
  /\ gor' = [gor EXCEPT ![g].cancelled = TRUE]
  /\ UNCHANGED <<status, docker, dirs, tracked, permits, shared, host, loop, start, sweep, counters>>

\* A container ends by itself.
ContainerEnds(j) ==
  /\ docker[j] = "running"
  /\ docker' = [docker EXCEPT ![j] = "exited"]
  /\ UNCHANGED <<status, dirs, tracked, permits, shared, host, loop, start, sweep, gor, counters>>

\* The monitor reports the exit code, then releases its slot and sweeps.
monitorRecoveredRunningContainer(g) ==
  /\ In(g, "monitor", "wait")
  /\ docker[gor[g].job] # "running"
  /\ \/ /\ status[gor[g].job] = "Running"
        /\ \E st \in {"Success", "Fail"} : status' = [status EXCEPT ![gor[g].job] = st]
     \/ UNCHANGED status
  /\ Move(g, "release")
  /\ UNCHANGED <<docker, dirs, tracked, permits, shared, host, loop, start, sweep, counters>>

MonitorReleases(g) ==
  /\ In(g, "monitor", "release")
  /\ ReleaseSlot(Goroutine(g))
  /\ Move(g, "sweep")
  /\ UNCHANGED <<status, docker, dirs, tracked, host, loop, start, sweep, counters>>

MonitorSweeps(g) ==
  /\ In(g, "monitor", "sweep")
  /\ sweepBegins("monitor")
  /\ gor' = [gor EXCEPT ![g] = Free]
  /\ UNCHANGED <<status, docker, dirs, tracked, permits, shared, host, loop, start, counters>>

-----------------------------------------------------------------------------
(* The process dies: its memory and its locks are gone, the directories and *)
(* the containers stay.                                                     *)

NodeCrash ==
  /\ loop.at # "down" /\ falls < MaxNodeCrashes
  /\ falls' = falls + 1
  /\ tracked' = [j \in AgentJobs |-> Untracked]
  /\ permits' = 0 /\ shared' = {}
  /\ loop' = [at |-> "down", job |-> None]
  /\ start' = Waiting /\ sweep' = NoSweep
  /\ gor' = [g \in Goroutines |-> Free]
  /\ UNCHANGED <<status, docker, dirs, host, resumes, controls, stops>>

NodeBoot ==
  /\ LoopAt("down")
  /\ LoopGoto("startup")
  /\ UNCHANGED <<status, docker, dirs, tracked, permits, shared, host, start, sweep, gor, counters>>

-----------------------------------------------------------------------------
LoopSteps ==
  \/ StartupLock \/ Discover \/ reconcileRecoveredTerminalContainers
  \/ \E j \in AgentJobs : startRecoveredRunningMonitors(j) \/ ClaimJob(j)
  \/ ClaimPermit \/ ClaimLock \/ ClaimNothing \/ ClaimStart \/ LoopSweeps \/ LoopSwept

SweepSteps == SweepLock \/ SweepReads \/ SweepCleans
StartSteps == StartLock \/ handleRunStart \/ RespondStart
ExecSteps(g) ==
  \/ ExecDirs(g) \/ ExecContainer(g) \/ ExecReturns(g) \/ ExecReports(g) \/ ExecCleans(g)
  \/ ExecUntracks(g) \/ ExecReleases(g) \/ watchRemoteCancellation(g)
  \/ monitorRecoveredRunningContainer(g) \/ MonitorReleases(g) \/ MonitorSweeps(g)

AgentNext ==
  \/ \E j \in AgentJobs : CancelJob(j) \/ ResumeJob(j) \/ StartPermit(j) \/ handleRunStop(j) \/ ContainerEnds(j)
  \/ HostLock \/ HostUnlock
  \/ LoopSteps \/ SweepSteps \/ StartSteps
  \/ \E g \in Goroutines : ExecSteps(g)
  \/ NodeCrash \/ NodeBoot

\* Goroutines are scheduled and containers end.
AgentFairness ==
  /\ \A g \in Goroutines : WF_agentVars(ExecSteps(g))
  /\ \A j \in AgentJobs : WF_agentVars(ContainerEnds(j))
  /\ WF_agentVars(SweepSteps)

AgentSpec == AgentInit /\ [][AgentNext]_agentVars /\ AgentFairness

-----------------------------------------------------------------------------
(* Properties.                                                              *)

Holders == {TheLoop, TheHandler, TheStartup, TheSweep} \cup {Goroutine(g) : g \in Goroutines}

\* The type invariant.
AgentTypeOK ==
  /\ status \in [AgentJobs -> {"Queued", "Running"} \cup Terminal]
  /\ docker \in [AgentJobs -> {None, "running", "exited"}]
  /\ dirs \subseteq AgentJobs
  /\ tracked \in [AgentJobs -> Goroutines \cup {Untracked}]
  /\ permits \in 0..Capacity
  /\ shared \subseteq Holders
  /\ host \in BOOLEAN
  /\ loop.at \in {"down", "startup", "discover", "monitors", "dead", "idle", "lock", "claim",
                  "start", "sweep", "sweeping"}
  /\ start.at \in {"idle", "lock", "start", "respond"}
  /\ sweep.at \in {"idle", "lock", "list", "clean"}
  /\ \A g \in Goroutines : gor[g].role \in {None, "exec", "monitor"} /\ gor[g].cancelled \in BOOLEAN

\* A monitor gives its slot back before it sweeps.
HoldsSlot(g) == gor[g].role # None /\ ~In(g, "monitor", "sweep")

\* The owners of a permit: the loop or the handler between acquiring a slot and
\* passing it on, and a goroutine until its last deferred call.
SlotOwners ==
  (IF loop.at \in {"lock", "claim", "start"} THEN 1 ELSE 0)
  + (IF start.at \in {"lock", "start"} THEN 1 ELSE 0)
  + Cardinality({g \in Goroutines : HoldsSlot(g)})

\* Every permit of the semaphore has exactly one owner: no path of the claim loop,
\* the start handler and their goroutines loses one, so the node never runs dry,
\* and none is given back twice.
SlotsConserved == permits = SlotOwners

\* While the host holds the maintenance lock nothing of the node is at work:
\* no job executes, no recovered container is monitored, no directory is swept
\* and no job can be claimed.
MaintenanceExclusive ==
  host => /\ \A g \in Goroutines : ~HoldsSlot(g)
          /\ loop.at \notin {"discover", "monitors", "claim", "start"}
          /\ start.at # "start"
          /\ sweep.at \notin {"list", "clean"}

\* Only the slot is left to release once the tracked entry is gone.
Working(g) == gor[g].role = "exec" /\ gor[g].at # "release"

\* As long as nobody called StopRun, at most one goroutine works on a job id,
\* even when the job failed, was resumed and is claimed again while the first
\* execution still cleans up.
OneExecutionPerJob ==
  stops = 0 => \A g, h \in Goroutines :
    Working(g) /\ Working(h) /\ gor[g].job = gor[h].job => g = h

\* As long as nobody called StopRun, neither the sweep nor the clean-up of an
\* earlier execution removes the directories a job is executing in.
RuntimeKept ==
  stops = 0 => \A g \in Goroutines :
    gor[g].role = "exec" /\ gor[g].at \in {"run", "container"} => gor[g].job \in dirs

\* Every slot a goroutine holds comes back, whatever was cancelled or lost.
SlotsComeBack == \A g \in Goroutines : HoldsSlot(g) ~> ~HoldsSlot(g)

\* An execution has its job and its directories to itself.
ExecutionUndisturbed ==
  /\ AgentTypeOK
  /\ OneExecutionPerJob
  /\ RuntimeKept
=============================================================================
