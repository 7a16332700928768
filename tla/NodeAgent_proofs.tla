-------------------------- MODULE NodeAgent_proofs --------------------------
(***************************************************************************)
(* Proofs about the node agent, for any number of jobs, goroutines and      *)
(* permits: every permit has one owner, the host's maintenance excludes the *)
(* node's work, and an execution has its job and its directories to itself. *)
(***************************************************************************)
EXTENDS NodeAgent, FiniteSetTheorems, TLAPS

-----------------------------------------------------------------------------
(* The inductive invariant.                                                 *)

LoopPlaces == {"down", "startup", "discover", "monitors", "dead", "idle", "lock", "claim",
               "start", "sweep", "sweeping"}
LoopRecord == [at : LoopPlaces, job : AgentJobs \cup {None}]
StartRecord == [at : {"idle", "lock", "start", "respond"}, job : AgentJobs \cup {None}]
SweepRecord == [at : {"idle", "lock", "list", "clean"}, by : {None, "loop", "monitor"},
                candidates : SUBSET AgentJobs]
GorPlaces == {None, "start", "run", "container", "report", "cleanup", "untrack", "release",
              "wait", "sweep"}
GorRecord ==
  [role : {None, "exec", "monitor"}, at : GorPlaces,
   job : AgentJobs \cup {None}, cancelled : BOOLEAN]

\* Who runs has a job to run.
Shapes ==
  /\ status \in [AgentJobs -> {"Queued", "Running"} \cup Terminal]
  /\ docker \in [AgentJobs -> {None, "running", "exited"}]
  /\ dirs \subseteq AgentJobs
  /\ tracked \in [AgentJobs -> Goroutines \cup {Untracked}]
  /\ permits \in 0..Capacity
  /\ shared \subseteq Holders
  /\ host \in BOOLEAN
  /\ loop \in LoopRecord /\ (loop.at = "start" => loop.job \in AgentJobs)
  /\ start \in StartRecord /\ (start.at # "idle" => start.job \in AgentJobs)
  /\ sweep \in SweepRecord
  /\ gor \in [Goroutines -> GorRecord]
  /\ \A g \in Goroutines : gor[g].role # None => gor[g].job \in AgentJobs
  /\ stops \in Nat

\* Whoever works holds the shared lock, which nobody does under maintenance.
LocksHeld ==
  /\ loop.at \in {"claim", "start"} => TheLoop \in shared
  /\ loop.at \in {"discover", "monitors"} => TheStartup \in shared
  /\ start.at = "start" => TheHandler \in shared
  /\ sweep.at \in {"list", "clean"} => TheSweep \in shared
  /\ \A g \in Goroutines : HoldsSlot(g) => Goroutine(g) \in shared
  /\ host => shared = {}

\* The owners of a permit, one by one.
Held == {g \in Goroutines : HoldsSlot(g)}
LoopShare == IF loop.at \in {"lock", "claim", "start"} THEN 1 ELSE 0
StartShare == IF start.at \in {"lock", "start"} THEN 1 ELSE 0
SlotsOK == IsFiniteSet(Held) /\ permits = LoopShare + StartShare + Cardinality(Held)

\* A goroutine at work is the one its job is tracked under.
TracksOK == stops = 0 => \A g \in Goroutines : Working(g) => tracked[gor[g].job] = g

AgentInv == Shapes /\ LocksHeld /\ SlotsOK /\ TracksOK /\ RuntimeKept

-----------------------------------------------------------------------------
(* What a step does to the owners of permits.                               *)

LEMMA SlotsMeaning == SlotsOK => SlotsConserved
  BY DEF SlotsOK, SlotsConserved, SlotOwners, Held, LoopShare, StartShare

LEMMA CapacityNat == Capacity \in Nat
  BY AgentAssumption DEF MaxConcurrency

LEMMA SharesBounded == LoopShare \in 0..1 /\ StartShare \in 0..1
  BY DEF LoopShare, StartShare

\* The goroutines keep what they have: loop and handler account for the change.
LEMMA SlotsStay ==
  ASSUME SlotsOK, Held' = Held,
         permits' + LoopShare + StartShare = permits + LoopShare' + StartShare',
         permits \in Nat, permits' \in Int
  PROVE  SlotsOK'
<1>1. Cardinality(Held) \in Nat
  BY FS_CardinalityType DEF SlotsOK
<1>2. LoopShare' \in 0..1 /\ StartShare' \in 0..1
  BY DEF LoopShare, StartShare
<1> QED BY <1>1, <1>2, SharesBounded DEF SlotsOK

\* A goroutine gets a slot: a new permit, or the one of its starter.
LEMMA SlotsGrow ==
  ASSUME SlotsOK, NEW g, g \notin Held, Held' = Held \cup {g},
         permits' + LoopShare + StartShare = permits + LoopShare' + StartShare' + 1,
         permits \in Nat, permits' \in Int
  PROVE  SlotsOK'
<1>1. Cardinality(Held) \in Nat
  BY FS_CardinalityType DEF SlotsOK
<1>2. LoopShare' \in 0..1 /\ StartShare' \in 0..1
  BY DEF LoopShare, StartShare
<1>3. IsFiniteSet(Held') /\ Cardinality(Held') = Cardinality(Held) + 1
  BY FS_AddElement DEF SlotsOK
<1> QED BY <1>1, <1>2, <1>3, SharesBounded DEF SlotsOK

\* A goroutine gives its slot back.
LEMMA SlotsShrink ==
  ASSUME SlotsOK, NEW g \in Held, Held' = Held \ {g},
         permits' + LoopShare + StartShare + 1 = permits + LoopShare' + StartShare',
         permits \in Nat, permits' \in Int
  PROVE  SlotsOK'
<1>1. Cardinality(Held) \in Nat
  BY FS_CardinalityType DEF SlotsOK
<1>2. LoopShare' \in 0..1 /\ StartShare' \in 0..1
  BY DEF LoopShare, StartShare
<1>3. IsFiniteSet(Held') /\ Cardinality(Held') = Cardinality(Held) - 1
  BY FS_RemoveElement DEF SlotsOK
<1> QED BY <1>1, <1>2, <1>3, SharesBounded DEF SlotsOK

\* Who owns a permit finds the semaphore not empty.
LEMMA OwnersCounted ==
  ASSUME SlotsOK
  PROVE  /\ permits >= LoopShare + StartShare
         /\ Held # {} => permits > LoopShare + StartShare
<1>1. Cardinality(Held) \in Nat /\ (Held # {} => Cardinality(Held) # 0)
  BY FS_CardinalityType, FS_EmptySet DEF SlotsOK
<1> QED BY <1>1, SharesBounded DEF SlotsOK

\* One goroutine's record changes.
LEMMA HeldStep ==
  ASSUME NEW g \in Goroutines, NEW k, gor' = [gor EXCEPT ![g] = k],
         gor \in [Goroutines -> GorRecord]
  PROVE  Held' = IF k.role # None /\ ~(k.role = "monitor" /\ k.at = "sweep")
                 THEN Held \cup {g} ELSE Held \ {g}
  BY DEF Held, HoldsSlot, In

LEMMA HeldSame ==
  ASSUME UNCHANGED gor PROVE Held' = Held
  BY DEF Held, HoldsSlot, In

-----------------------------------------------------------------------------
(* Steps in which no goroutine moves.                                       *)

\* Such a step keeps the invariant if the loop and the handler account for the
\* permits and those who work keep their locks.
LEMMA GorSameInv ==
  ASSUME AgentInv, Shapes', UNCHANGED <<gor, tracked, stops>>,
         \A g \in Goroutines : gor[g].role = "exec" => dirs \subseteq dirs',
         permits' + LoopShare + StartShare = permits + LoopShare' + StartShare',
         loop'.at \in {"claim", "start"} => TheLoop \in shared',
         loop'.at \in {"discover", "monitors"} => TheStartup \in shared',
         start'.at = "start" => TheHandler \in shared',
         sweep'.at \in {"list", "clean"} => TheSweep \in shared',
         \A g \in Goroutines : Goroutine(g) \in shared => Goroutine(g) \in shared',
         host' => shared' = {}
  PROVE  AgentInv'
<1>1. permits \in Nat /\ permits' \in Int
  BY CapacityNat DEF AgentInv, Shapes
<1>2. Held' = Held
  BY HeldSame
<1>3. SlotsOK'
  BY <1>1, <1>2, SlotsStay DEF AgentInv
<1>4. LocksHeld'
  BY DEF AgentInv, LocksHeld, HoldsSlot, In
<1>5. TracksOK' /\ RuntimeKept'
  BY DEF AgentInv, TracksOK, RuntimeKept, Working
<1> QED BY <1>3, <1>4, <1>5 DEF AgentInv

LEMMA HoldersDiffer ==
  /\ \A g : Goroutine(g) \notin {TheLoop, TheStartup, TheHandler, TheSweep}
  /\ TheLoop \notin {TheStartup, TheHandler, TheSweep}
  /\ TheStartup \notin {TheHandler, TheSweep} /\ TheHandler # TheSweep
  BY DEF Goroutine, TheLoop, TheStartup, TheHandler, TheSweep

\* The server, the host and docker.
LEMMA OutsideInv ==
  ASSUME AgentInv,
         \/ \E j \in AgentJobs : CancelJob(j) \/ ResumeJob(j) \/ ContainerEnds(j)
         \/ HostLock \/ HostUnlock
  PROVE  AgentInv'
<1>1. /\ UNCHANGED <<dirs, tracked, permits, shared, loop, start, sweep, gor, stops>>
      /\ host' => shared' = {}
  BY DEF AgentInv, LocksHeld, CancelJob, ResumeJob, ContainerEnds, HostLock, HostUnlock, counters
<1>2. /\ status' \in [AgentJobs -> {"Queued", "Running"} \cup Terminal]
      /\ docker' \in [AgentJobs -> {None, "running", "exited"}]
      /\ host' \in BOOLEAN
  BY Zenon DEF AgentInv, Shapes, Terminal, CancelJob, ResumeJob, ContainerEnds, HostLock, HostUnlock
<1>3. Shapes'
  BY <1>1, <1>2 DEF AgentInv, Shapes
<1>4. LoopShare' = LoopShare /\ StartShare' = StartShare
  BY <1>1 DEF LoopShare, StartShare
<1> QED BY <1>1, <1>3, <1>4, GorSameInv DEF AgentInv, LocksHeld

\* A step of the claim loop to place p.
LEMMA LoopStepInv ==
  ASSUME AgentInv, UNCHANGED <<docker, dirs, tracked, host, start, gor, stops>>,
         loop' \in LoopRecord, loop'.at = "start" => loop'.job \in AgentJobs,
         status' \in [AgentJobs -> {"Queued", "Running"} \cup Terminal],
         sweep' \in SweepRecord, sweep'.at \in {"list", "clean"} => sweep.at \in {"list", "clean"},
         permits' \in Int, permits' <= Capacity, permits' + LoopShare = permits + LoopShare',
         shared' \subseteq Holders, host => shared' = {},
         loop'.at \in {"claim", "start"} => TheLoop \in shared',
         loop'.at \in {"discover", "monitors"} => TheStartup \in shared',
         \A h \in shared : h \in shared' \/ h = TheLoop \/ h = TheStartup
  PROVE  AgentInv'
<1>1. StartShare' = StartShare /\ LoopShare \in 0..1 /\ LoopShare' \in 0..1
  BY DEF StartShare, LoopShare
<1>2. permits \in Nat /\ permits >= LoopShare + StartShare
  BY OwnersCounted, CapacityNat DEF AgentInv, Shapes
<1>3. permits' \in 0..Capacity
  BY <1>1, <1>2, SharesBounded, CapacityNat
<1>4. Shapes'
  BY <1>3 DEF AgentInv, Shapes
<1>5. /\ start'.at = "start" => TheHandler \in shared'
      /\ sweep'.at \in {"list", "clean"} => TheSweep \in shared'
      /\ \A g \in Goroutines : Goroutine(g) \in shared => Goroutine(g) \in shared'
  BY HoldersDiffer DEF AgentInv, LocksHeld
<1>6. permits' + LoopShare + StartShare = permits + LoopShare' + StartShare'
  BY <1>1, <1>2, <1>3, SharesBounded, CapacityNat
<1> HIDE DEF AgentInv, Shapes, LoopShare, StartShare
<1> QED BY <1>4, <1>5, <1>6, GorSameInv

LEMMA LoopGotoRecord ==
  ASSUME loop \in LoopRecord, NEW p \in LoopPlaces, LoopGoto(p)
  PROVE  loop' \in LoopRecord /\ loop'.at = p /\ loop'.job = loop.job
  BY DEF LoopRecord, LoopGoto

LEMMA StartupLockInv ==
  ASSUME AgentInv, StartupLock PROVE AgentInv'
<1>1. /\ loop' \in LoopRecord /\ loop.at = "startup" /\ loop'.at = "discover"
      /\ ~host /\ shared' = shared \cup {TheStartup}
      /\ UNCHANGED <<status, docker, dirs, tracked, permits, host, start, sweep, gor, stops>>
  BY LoopGotoRecord DEF AgentInv, Shapes, StartupLock, LoopAt, acquireMaintenanceActivity, LoopPlaces, counters
<1>2. LoopShare = 0 /\ LoopShare' = 0
  BY <1>1 DEF LoopShare
<1> QED BY <1>1, <1>2, LoopStepInv, CapacityNat DEF AgentInv, Shapes, Holders, LocksHeld

LEMMA DiscoverInv ==
  ASSUME AgentInv, Discover PROVE AgentInv'
<1>1. /\ loop' \in LoopRecord /\ loop.at = "discover"
      /\ \/ loop'.at = "monitors" /\ shared' = shared
         \/ loop'.at = "dead" /\ shared' = shared \ {TheStartup}
      /\ UNCHANGED <<status, docker, dirs, tracked, permits, host, start, sweep, gor, stops>>
  BY LoopGotoRecord DEF AgentInv, Shapes, Discover, LoopAt, LoopPlaces, counters
<1>2. LoopShare = 0 /\ LoopShare' = 0
  BY <1>1 DEF LoopShare
<1> QED BY <1>1, <1>2, LoopStepInv, CapacityNat DEF AgentInv, Shapes, LocksHeld

LEMMA ReconcileInv ==
  ASSUME AgentInv, reconcileRecoveredTerminalContainers PROVE AgentInv'
<1>1. /\ loop' \in LoopRecord /\ loop.at = "monitors" /\ loop'.at = "sweep"
      /\ UNCHANGED <<docker, dirs, tracked, permits, shared, host, start, sweep, gor, stops>>
  BY LoopGotoRecord
     DEF AgentInv, Shapes, reconcileRecoveredTerminalContainers, LoopAt, LoopPlaces, counters
<1>2. status' \in [AgentJobs -> {"Queued", "Running"} \cup Terminal]
  BY DEF AgentInv, Shapes, reconcileRecoveredTerminalContainers, Terminal
<1>3. LoopShare = 0 /\ LoopShare' = 0
  BY <1>1 DEF LoopShare
<1> QED BY <1>1, <1>2, <1>3, LoopStepInv, CapacityNat DEF AgentInv, Shapes, LocksHeld

LEMMA ClaimPermitInv ==
  ASSUME AgentInv, ClaimPermit PROVE AgentInv'
<1>1. /\ loop' \in LoopRecord /\ loop.at = "idle" /\ loop'.at = "lock"
      /\ permits < Capacity /\ permits' = permits + 1
      /\ UNCHANGED <<status, docker, dirs, tracked, shared, host, start, sweep, gor, stops>>
  BY LoopGotoRecord DEF AgentInv, Shapes, ClaimPermit, TakePermit, LoopAt, LoopPlaces, counters
<1>2. LoopShare = 0 /\ LoopShare' = 1
  BY <1>1 DEF LoopShare
<1> QED BY <1>1, <1>2, LoopStepInv, CapacityNat DEF AgentInv, Shapes, LocksHeld

LEMMA ClaimLockInv ==
  ASSUME AgentInv, ClaimLock PROVE AgentInv'
<1>1. /\ loop' \in LoopRecord /\ loop.at = "lock"
      /\ \/ ~host /\ shared' = shared \cup {TheLoop} /\ loop'.at = "claim" /\ permits' = permits
         \/ permits' = permits - 1 /\ loop'.at = "idle" /\ shared' = shared
      /\ UNCHANGED <<status, docker, dirs, tracked, host, start, sweep, gor, stops>>
  BY LoopGotoRecord
     DEF AgentInv, Shapes, ClaimLock, acquireMaintenanceActivity, LoopAt, LoopPlaces, counters
<1>2. LoopShare = 1 /\ LoopShare' = IF loop'.at = "claim" THEN 1 ELSE 0
  BY <1>1 DEF LoopShare
<1> QED BY <1>1, <1>2, LoopStepInv, CapacityNat DEF AgentInv, Shapes, LocksHeld, Holders

LEMMA ClaimJobInv ==
  ASSUME AgentInv, NEW j \in AgentJobs, ClaimJob(j) PROVE AgentInv'
<1>1. /\ loop.at = "claim" /\ loop \in LoopRecord /\ permits \in Nat /\ permits <= Capacity
      /\ status' \in [AgentJobs -> {"Queued", "Running"} \cup Terminal]
      /\ shared \subseteq Holders /\ sweep \in SweepRecord /\ (host => shared = {})
      /\ TheLoop \in shared
      /\ UNCHANGED <<docker, dirs, tracked, host, start, sweep, gor, stops>>
  BY CapacityNat DEF AgentInv, Shapes, LocksHeld, ClaimJob, LoopAt, counters
<1>2. CASE loop' = [at |-> "start", job |-> j] /\ UNCHANGED <<permits, shared>>
  <2>1. loop' \in LoopRecord /\ loop'.at = "start" /\ loop'.job = j
    BY <1>2 DEF LoopRecord, LoopPlaces
  <2>2. LoopShare = 1 /\ LoopShare' = 1
    BY <1>1, <2>1 DEF LoopShare
  <2> QED BY <1>1, <1>2, <2>1, <2>2, LoopStepInv, CapacityNat
<1>3. CASE LoopGoto("idle") /\ ReleaseSlot(TheLoop)
  <2>1. /\ loop' \in LoopRecord /\ loop'.at = "idle"
        /\ permits' = permits - 1 /\ shared' = shared \ {TheLoop}
    BY <1>1, <1>3, LoopGotoRecord DEF LoopPlaces, ReleaseSlot
  <2>2. LoopShare = 1 /\ LoopShare' = 0
    BY <1>1, <2>1 DEF LoopShare
  <2> QED BY <1>1, <2>1, <2>2, LoopStepInv, CapacityNat
<1> QED BY <1>2, <1>3 DEF ClaimJob

LEMMA ClaimNothingInv ==
  ASSUME AgentInv, ClaimNothing PROVE AgentInv'
<1>1. /\ loop.at = "claim" /\ loop' \in LoopRecord /\ loop'.at \in {"sweep", "idle"}
      /\ permits' = permits - 1 /\ shared' = shared \ {TheLoop}
      /\ UNCHANGED <<status, docker, dirs, tracked, host, start, sweep, gor, stops>>
  BY LoopGotoRecord DEF AgentInv, Shapes, ClaimNothing, LoopAt, LoopPlaces, ReleaseSlot, counters
<1>2. LoopShare = 1 /\ LoopShare' = 0
  BY <1>1 DEF LoopShare
<1> QED BY <1>1, <1>2, LoopStepInv, CapacityNat DEF AgentInv, Shapes, LocksHeld

LEMMA LoopSweepsInv ==
  ASSUME AgentInv, LoopSweeps PROVE AgentInv'
<1>1. /\ loop.at = "sweep" /\ loop' \in LoopRecord /\ loop'.at \in {"sweeping", "idle"}
      /\ shared' \in {shared, shared \ {TheStartup}}
      /\ UNCHANGED <<status, docker, dirs, tracked, permits, host, start, gor, stops>>
  BY LoopGotoRecord DEF AgentInv, Shapes, LoopSweeps, LoopAt, LoopPlaces, counters
<1>2. sweep' \in SweepRecord /\ (sweep'.at \in {"list", "clean"} => sweep.at \in {"list", "clean"})
  BY Zenon DEF AgentInv, Shapes, LoopSweeps, sweepBegins, SweepRecord, NoSweep
<1>3. LoopShare = 0 /\ LoopShare' = 0
  BY <1>1 DEF LoopShare
<1> QED BY <1>1, <1>2, <1>3, LoopStepInv, CapacityNat DEF AgentInv, Shapes, LocksHeld

LEMMA LoopSweptInv ==
  ASSUME AgentInv, LoopSwept PROVE AgentInv'
<1>1. /\ loop.at = "sweeping" /\ loop' \in LoopRecord /\ loop'.at = "idle"
      /\ shared' = shared \ {TheStartup}
      /\ UNCHANGED <<status, docker, dirs, tracked, permits, host, start, sweep, gor, stops>>
  BY LoopGotoRecord DEF AgentInv, Shapes, LoopSwept, LoopAt, LoopPlaces, counters
<1>2. LoopShare = 0 /\ LoopShare' = 0
  BY <1>1 DEF LoopShare
<1> QED BY <1>1, <1>2, LoopStepInv, CapacityNat DEF AgentInv, Shapes, LocksHeld

LEMMA NodeBootInv ==
  ASSUME AgentInv, NodeBoot PROVE AgentInv'
<1>1. /\ loop.at = "down" /\ loop' \in LoopRecord /\ loop'.at = "startup"
      /\ UNCHANGED <<status, docker, dirs, tracked, permits, shared, host, start, sweep, gor, stops>>
  BY LoopGotoRecord DEF AgentInv, Shapes, NodeBoot, LoopAt, LoopPlaces, counters
<1>2. LoopShare = 0 /\ LoopShare' = 0
  BY <1>1 DEF LoopShare
<1> QED BY <1>1, <1>2, LoopStepInv, CapacityNat DEF AgentInv, Shapes, LocksHeld

\* The sweep.
LEMMA SweepStepInv ==
  ASSUME AgentInv, UNCHANGED <<status, docker, tracked, permits, host, loop, start, gor, stops>>,
         sweep' \in SweepRecord, dirs' \subseteq AgentJobs,
         \A g \in Goroutines : gor[g].role = "exec" => dirs \subseteq dirs',
         sweep'.at \in {"list", "clean"} => TheSweep \in shared',
         shared' \subseteq Holders, host => shared' = {},
         \A h \in shared : h \in shared' \/ h = TheSweep
  PROVE  AgentInv'
<1>1. Shapes'
  BY DEF AgentInv, Shapes
<1>2. LoopShare' = LoopShare /\ StartShare' = StartShare
  BY DEF LoopShare, StartShare
<1>3. /\ loop'.at \in {"claim", "start"} => TheLoop \in shared'
      /\ loop'.at \in {"discover", "monitors"} => TheStartup \in shared'
      /\ start'.at = "start" => TheHandler \in shared'
      /\ \A g \in Goroutines : Goroutine(g) \in shared => Goroutine(g) \in shared'
  BY HoldersDiffer DEF AgentInv, LocksHeld
<1> QED BY <1>1, <1>2, <1>3, GorSameInv

LEMMA SweepLockInv ==
  ASSUME AgentInv, SweepLock PROVE AgentInv'
<1>1. /\ UNCHANGED <<status, docker, dirs, tracked, permits, host, loop, start, gor, stops>>
      /\ \/ ~host /\ shared' = shared \cup {TheSweep} /\ sweep' = [sweep EXCEPT !.at = "list"]
         \/ shared' = shared /\ sweep' = NoSweep
  BY DEF SweepLock, acquireMaintenanceActivity, counters
<1>2. sweep' \in SweepRecord /\ (sweep'.at \in {"list", "clean"} => TheSweep \in shared')
  BY <1>1 DEF AgentInv, Shapes, SweepRecord, NoSweep
<1> QED BY <1>1, <1>2, SweepStepInv DEF AgentInv, Shapes, LocksHeld, Holders

LEMMA SweepReadsInv ==
  ASSUME AgentInv, SweepReads PROVE AgentInv'
<1>1. /\ UNCHANGED <<status, docker, dirs, tracked, permits, host, loop, start, gor, stops>>
      /\ TheSweep \in shared /\ dirs \subseteq AgentJobs
      /\ \/ /\ shared' = shared
            /\ \E seen \in SUBSET dirs : sweep' = [sweep EXCEPT !.at = "clean", !.candidates = seen]
         \/ shared' = shared \ {TheSweep} /\ sweep' = NoSweep
  BY Zenon DEF AgentInv, Shapes, LocksHeld, SweepReads, SweepAt, counters
<1>2. sweep' \in SweepRecord /\ (sweep'.at \in {"list", "clean"} => TheSweep \in shared')
  <2>1. CASE shared' = shared \ {TheSweep} /\ sweep' = NoSweep
    BY <2>1 DEF SweepRecord, NoSweep
  <2>2. ASSUME NEW seen \in SUBSET dirs, shared' = shared,
               sweep' = [sweep EXCEPT !.at = "clean", !.candidates = seen]
        PROVE  sweep' \in SweepRecord /\ TheSweep \in shared'
    BY Zenon, <1>1, <2>2 DEF AgentInv, Shapes, SweepRecord
  <2> QED BY Zenon, <1>1, <2>1, <2>2
<1> QED BY Zenon, <1>1, <1>2, SweepStepInv DEF AgentInv, Shapes, LocksHeld

\* An idle node executes nothing, so the sweep takes no execution's directories.
LEMMA IdleExecutesNothing ==
  ASSUME AgentInv, permits = 0, NEW g \in Goroutines PROVE ~HoldsSlot(g)
<1>1. Held = {}
  BY OwnersCounted, SharesBounded DEF AgentInv
<1> QED BY <1>1 DEF Held

LEMMA SweepCleansInv ==
  ASSUME AgentInv, SweepCleans PROVE AgentInv'
<1>1. /\ UNCHANGED <<status, docker, tracked, permits, host, loop, start, gor, stops>>
      /\ shared' = shared \ {TheSweep} /\ sweep' = NoSweep
      /\ dirs' \subseteq dirs /\ (permits # 0 => dirs' = dirs)
  BY DEF SweepCleans, nodeIsIdle, counters
<1>2. sweep' \in SweepRecord /\ sweep'.at = "idle"
  BY <1>1 DEF SweepRecord, NoSweep
<1>3. ASSUME NEW g \in Goroutines, gor[g].role = "exec" PROVE dirs \subseteq dirs'
  <2>1. HoldsSlot(g)
    BY <1>3 DEF HoldsSlot, In, None
  <2> QED BY <1>1, <2>1, IdleExecutesNothing
<1> QED BY <1>1, <1>2, <1>3, SweepStepInv DEF AgentInv, Shapes, LocksHeld

\* The start handler.
LEMMA StartStepInv ==
  ASSUME AgentInv, UNCHANGED <<status, docker, dirs, tracked, host, loop, sweep, gor, stops>>,
         start' \in StartRecord, start'.at # "idle" => start'.job \in AgentJobs,
         permits' \in Int, permits' <= Capacity, permits' + StartShare = permits + StartShare',
         start'.at = "start" => TheHandler \in shared',
         shared' \subseteq Holders, host => shared' = {},
         \A h \in shared : h \in shared' \/ h = TheHandler
  PROVE  AgentInv'
<1>1. LoopShare' = LoopShare /\ StartShare \in 0..1 /\ StartShare' \in 0..1
  BY DEF StartShare, LoopShare
<1>2. permits \in Nat /\ permits >= LoopShare + StartShare
  BY OwnersCounted, CapacityNat DEF AgentInv, Shapes
<1>3. permits' \in 0..Capacity
  BY <1>1, <1>2, SharesBounded, CapacityNat
<1>4. Shapes'
  BY <1>3 DEF AgentInv, Shapes
<1>5. /\ loop'.at \in {"claim", "start"} => TheLoop \in shared'
      /\ loop'.at \in {"discover", "monitors"} => TheStartup \in shared'
      /\ sweep'.at \in {"list", "clean"} => TheSweep \in shared'
      /\ \A g \in Goroutines : Goroutine(g) \in shared => Goroutine(g) \in shared'
  BY HoldersDiffer DEF AgentInv, LocksHeld
<1>6. permits' + LoopShare + StartShare = permits + LoopShare' + StartShare'
  BY <1>1, <1>2, <1>3, SharesBounded, CapacityNat
<1> QED BY <1>4, <1>5, <1>6, GorSameInv

LEMMA StartPermitInv ==
  ASSUME AgentInv, NEW j \in AgentJobs, StartPermit(j) PROVE AgentInv'
<1>1. /\ start.at = "idle" /\ start' = [at |-> "lock", job |-> j]
      /\ permits < Capacity /\ permits' = permits + 1
      /\ UNCHANGED <<status, docker, dirs, tracked, shared, host, loop, sweep, gor, stops>>
  BY DEF StartPermit, StartAt, TakePermit
<1>2. start' \in StartRecord /\ start'.at = "lock" /\ start'.job \in AgentJobs
  BY <1>1 DEF StartRecord
<1>3. StartShare = 0 /\ StartShare' = 1
  BY <1>1, <1>2 DEF StartShare
<1> QED BY <1>1, <1>2, <1>3, StartStepInv, CapacityNat DEF AgentInv, Shapes, LocksHeld

LEMMA StartLockInv ==
  ASSUME AgentInv, StartLock PROVE AgentInv'
<1>1. /\ start.at = "lock" /\ start \in StartRecord /\ start.job \in AgentJobs
      /\ UNCHANGED <<status, docker, dirs, tracked, host, loop, sweep, gor, stops>>
      /\ \/ /\ ~host /\ shared' = shared \cup {TheHandler} /\ permits' = permits
            /\ start' = [start EXCEPT !.at = "start"]
         \/ permits' = permits - 1 /\ start' = Waiting /\ shared' = shared
  BY DEF AgentInv, Shapes, StartLock, StartAt, acquireMaintenanceActivity, counters
<1>2. /\ start' \in StartRecord /\ (start'.at # "idle" => start'.job \in AgentJobs)
      /\ \/ ~host /\ shared' = shared \cup {TheHandler} /\ permits' = permits /\ start'.at = "start"
         \/ permits' = permits - 1 /\ start'.at = "idle" /\ shared' = shared
  BY <1>1 DEF StartRecord, Waiting
<1>3. StartShare = 1 /\ StartShare' = IF start'.at = "start" THEN 1 ELSE 0
  BY <1>1, <1>2 DEF StartShare
<1> QED BY <1>1, <1>2, <1>3, StartStepInv, CapacityNat DEF AgentInv, Shapes, LocksHeld, Holders

-----------------------------------------------------------------------------
(* Steps of a goroutine.                                                    *)

\* One that keeps its slot and its job.
LEMMA GorStepInv ==
  ASSUME AgentInv, NEW g \in Goroutines, NEW k \in GorRecord, gor' = [gor EXCEPT ![g] = k],
         k.role = gor[g].role, k.role # None, k.job = gor[g].job,
         ~(k.role = "monitor" /\ k.at = "sweep"), HoldsSlot(g),
         k.role = "exec" /\ k.at # "release" => gor[g].at # "release",
         UNCHANGED <<tracked, permits, shared, host, loop, start, sweep, stops>>,
         status' \in [AgentJobs -> {"Queued", "Running"} \cup Terminal],
         docker' \in [AgentJobs -> {None, "running", "exited"}],
         dirs' \subseteq AgentJobs,
         k.role = "exec" /\ k.at \in {"run", "container"} => stops # 0 \/ k.job \in dirs',
         \A h \in Goroutines \ {g} : Working(h) =>
           stops # 0 \/ gor[h].job \notin dirs \/ gor[h].job \in dirs'
  PROVE  AgentInv'
<1>1. gor \in [Goroutines -> GorRecord] /\ permits \in Nat /\ gor[g].job \in AgentJobs
  BY CapacityNat DEF AgentInv, Shapes
<1>2. gor' \in [Goroutines -> GorRecord] /\ gor'[g] = k /\ \A h \in Goroutines \ {g} : gor'[h] = gor[h]
  BY <1>1
<1>3. Shapes'
  BY <1>1, <1>2 DEF AgentInv, Shapes
<1>4. Held' = Held
  BY Zenon, <1>1, HeldStep DEF Held
<1>5. LoopShare' = LoopShare /\ StartShare' = StartShare
  BY DEF LoopShare, StartShare
<1>6. SlotsOK'
  BY <1>1, <1>4, <1>5, SlotsStay, SharesBounded DEF AgentInv
<1>7. LocksHeld'
  <2>1. \A h \in Goroutines : HoldsSlot(h)' => HoldsSlot(h)
    BY <1>2 DEF HoldsSlot, In
  <2> QED BY <2>1 DEF AgentInv, LocksHeld
<1>8. TracksOK'
  BY <1>2 DEF AgentInv, TracksOK, Working
<1>9. RuntimeKept'
  BY <1>2 DEF AgentInv, RuntimeKept, Working
<1> QED BY <1>3, <1>6, <1>7, <1>8, <1>9 DEF AgentInv

LEMMA MoveRecord ==
  ASSUME AgentInv, NEW g \in Goroutines, NEW at \in GorPlaces, Move(g, at)
  PROVE  \E k \in GorRecord : /\ gor' = [gor EXCEPT ![g] = k]
                              /\ k.role = gor[g].role /\ k.job = gor[g].job /\ k.at = at
<1>1. gor[g] \in GorRecord
  BY DEF AgentInv, Shapes
<1>2. PICK k : k = [gor[g] EXCEPT !.at = at]
  BY Zenon
<1>3. k \in GorRecord /\ k.role = gor[g].role /\ k.job = gor[g].job /\ k.at = at
  BY <1>1, <1>2 DEF GorRecord
<1>4. gor' = [gor EXCEPT ![g] = k]
  BY <1>2 DEF Move
<1> QED BY Zenon, <1>3, <1>4

\* An execution or a monitor goes on; it is its directories that need care.
LEMMA ExecMoveInv ==
  ASSUME AgentInv, NEW g \in Goroutines, NEW at \in GorPlaces \ {"sweep"}, Move(g, at),
         gor[g].role \in {"exec", "monitor"}, HoldsSlot(g),
         gor[g].role = "exec" => gor[g].at # "release",
         UNCHANGED <<tracked, permits, shared, host, loop, start, sweep, stops>>,
         status' \in [AgentJobs -> {"Queued", "Running"} \cup Terminal],
         docker' \in [AgentJobs -> {None, "running", "exited"}],
         dirs' \subseteq AgentJobs,
         gor[g].role = "exec" /\ at \in {"run", "container"} => stops # 0 \/ gor[g].job \in dirs',
         \A h \in Goroutines \ {g} : Working(h) =>
           stops # 0 \/ gor[h].job \notin dirs \/ gor[h].job \in dirs'
  PROVE  AgentInv'
<1>1. PICK k \in GorRecord : /\ gor' = [gor EXCEPT ![g] = k]
                             /\ k.role = gor[g].role /\ k.job = gor[g].job /\ k.at = at
  BY MoveRecord
<1>2. k.role # None
  BY <1>1 DEF None
<1> QED BY Zenon, <1>1, <1>2, GorStepInv

LEMMA ExecDirsInv ==
  ASSUME AgentInv, NEW g \in Goroutines, ExecDirs(g) PROVE AgentInv'
<1>1. /\ gor[g].role = "exec" /\ gor[g].at = "start" /\ HoldsSlot(g) /\ gor[g].job \in AgentJobs
      /\ UNCHANGED <<status, docker, tracked, permits, shared, host, loop, start, sweep, stops>>
      /\ \/ dirs' = dirs \cup {gor[g].job} /\ Move(g, "run")
         \/ dirs' = dirs /\ Move(g, "report")
  BY DEF AgentInv, Shapes, ExecDirs, In, HoldsSlot, None, counters
<1> QED BY <1>1, ExecMoveInv DEF AgentInv, Shapes, GorPlaces

LEMMA ExecContainerInv ==
  ASSUME AgentInv, NEW g \in Goroutines, ExecContainer(g) PROVE AgentInv'
<1>1. /\ gor[g].role = "exec" /\ gor[g].at = "run" /\ HoldsSlot(g) /\ gor[g].job \in AgentJobs
      /\ Move(g, "container") /\ docker' = [docker EXCEPT ![gor[g].job] = "running"]
      /\ UNCHANGED <<status, dirs, tracked, permits, shared, host, loop, start, sweep, stops>>
  BY DEF AgentInv, Shapes, ExecContainer, In, HoldsSlot, None, counters
<1>2. docker' \in [AgentJobs -> {None, "running", "exited"}]
  BY <1>1 DEF AgentInv, Shapes
<1>3. stops # 0 \/ gor[g].job \in dirs
  BY <1>1 DEF AgentInv, RuntimeKept
<1> QED BY <1>1, <1>2, <1>3, ExecMoveInv DEF AgentInv, Shapes, GorPlaces

LEMMA ExecReturnsInv ==
  ASSUME AgentInv, NEW g \in Goroutines, ExecReturns(g) PROVE AgentInv'
<1>1. /\ gor[g].role = "exec" /\ gor[g].at \in {"run", "container"} /\ HoldsSlot(g)
      /\ gor[g].job \in AgentJobs /\ Move(g, "report")
      /\ docker' \in {docker, [docker EXCEPT ![gor[g].job] = None]}
      /\ UNCHANGED <<status, dirs, tracked, permits, shared, host, loop, start, sweep, stops>>
  BY DEF AgentInv, Shapes, ExecReturns, In, HoldsSlot, None, counters
<1>2. docker' \in [AgentJobs -> {None, "running", "exited"}]
  BY <1>1 DEF AgentInv, Shapes
<1> QED BY <1>1, <1>2, ExecMoveInv DEF AgentInv, Shapes, GorPlaces

LEMMA ExecReportsInv ==
  ASSUME AgentInv, NEW g \in Goroutines, ExecReports(g) PROVE AgentInv'
<1>1. /\ gor[g].role = "exec" /\ gor[g].at = "report" /\ HoldsSlot(g)
      /\ gor[g].job \in AgentJobs /\ Move(g, "cleanup")
      /\ UNCHANGED <<docker, dirs, tracked, permits, shared, host, loop, start, sweep, stops>>
  BY DEF AgentInv, Shapes, ExecReports, In, HoldsSlot, None, counters
<1>2. status' \in [AgentJobs -> {"Queued", "Running"} \cup Terminal]
  BY <1>1 DEF AgentInv, Shapes, ExecReports, Terminal
<1> QED BY <1>1, <1>2, ExecMoveInv DEF AgentInv, Shapes, GorPlaces

\* The directories that go belong to no other execution: two executions of one
\* job would both be the tracked one.
LEMMA ExecCleansInv ==
  ASSUME AgentInv, NEW g \in Goroutines, ExecCleans(g) PROVE AgentInv'
<1>1. /\ gor[g].role = "exec" /\ gor[g].at = "cleanup" /\ HoldsSlot(g) /\ Working(g)
      /\ gor[g].job \in AgentJobs /\ Move(g, "untrack") /\ dirs' = dirs \ {gor[g].job}
      /\ UNCHANGED <<status, docker, tracked, permits, shared, host, loop, start, sweep, stops>>
  BY DEF AgentInv, Shapes, ExecCleans, In, HoldsSlot, Working, None, counters
<1>2. \A h \in Goroutines \ {g} : Working(h) => stops # 0 \/ gor[h].job # gor[g].job
  BY <1>1 DEF AgentInv, TracksOK
<1> QED BY Zenon, <1>1, <1>2, ExecMoveInv DEF AgentInv, Shapes, GorPlaces

LEMMA MonitorReportsInv ==
  ASSUME AgentInv, NEW g \in Goroutines, monitorRecoveredRunningContainer(g) PROVE AgentInv'
<1>1. /\ gor[g].role = "monitor" /\ gor[g].at = "wait" /\ HoldsSlot(g)
      /\ gor[g].job \in AgentJobs /\ Move(g, "release")
      /\ UNCHANGED <<docker, dirs, tracked, permits, shared, host, loop, start, sweep, stops>>
  BY DEF AgentInv, Shapes, monitorRecoveredRunningContainer, In, HoldsSlot, None, counters
<1>2. status' \in [AgentJobs -> {"Queued", "Running"} \cup Terminal]
  BY <1>1 DEF AgentInv, Shapes, monitorRecoveredRunningContainer, Terminal
<1> QED BY Zenon, <1>1, <1>2, ExecMoveInv DEF AgentInv, Shapes, GorPlaces

\* A context that ends: nothing but the mark.
LEMMA WatchInv ==
  ASSUME AgentInv, NEW g \in Goroutines, watchRemoteCancellation(g) PROVE AgentInv'
<1>1. /\ gor[g].role = "exec" /\ HoldsSlot(g) /\ gor[g] \in GorRecord
      /\ UNCHANGED <<status, docker, dirs, tracked, permits, shared, host, loop, start, sweep, stops>>
  BY DEF AgentInv, Shapes, watchRemoteCancellation, HoldsSlot, In, None, counters
<1>2. PICK k : k = [gor[g] EXCEPT !.cancelled = TRUE]
  BY Zenon
<1>3. /\ k \in GorRecord /\ k.role = gor[g].role /\ k.job = gor[g].job /\ k.at = gor[g].at
      /\ gor' = [gor EXCEPT ![g] = k] /\ k.role # None
  BY Zenon, <1>1, <1>2 DEF GorRecord, watchRemoteCancellation, None
<1>4. k.at \in {"run", "container"} => stops # 0 \/ k.job \in dirs
  BY <1>1, <1>3 DEF AgentInv, RuntimeKept
<1> QED BY Zenon, <1>1, <1>3, <1>4, GorStepInv DEF AgentInv, Shapes

\* Executed: the entry goes, which is no other execution's.
LEMMA ExecUntracksInv ==
  ASSUME AgentInv, NEW g \in Goroutines, ExecUntracks(g) PROVE AgentInv'
<1>1. /\ gor[g].role = "exec" /\ gor[g].at = "untrack" /\ HoldsSlot(g) /\ Working(g)
      /\ gor[g].job \in AgentJobs /\ Move(g, "release")
      /\ tracked' = [tracked EXCEPT ![gor[g].job] = Untracked]
      /\ UNCHANGED <<status, docker, dirs, permits, shared, host, loop, start, sweep, stops>>
  BY DEF AgentInv, Shapes, ExecUntracks, In, HoldsSlot, Working, None, counters
<1>2. PICK k \in GorRecord : /\ gor' = [gor EXCEPT ![g] = k]
                             /\ k.role = "exec" /\ k.job = gor[g].job /\ k.at = "release"
  BY <1>1, MoveRecord DEF GorPlaces
<1>3. /\ gor \in [Goroutines -> GorRecord] /\ permits \in Nat
      /\ gor'[g] = k /\ \A h \in Goroutines \ {g} : gor'[h] = gor[h]
  BY <1>2, CapacityNat DEF AgentInv, Shapes
<1>4. Shapes'
  BY <1>1, <1>2, <1>3 DEF AgentInv, Shapes
<1>5. Held' = Held
  BY Zenon, <1>1, <1>2, <1>3, HeldStep DEF Held, None
<1>6. LoopShare' = LoopShare /\ StartShare' = StartShare
  BY <1>1 DEF LoopShare, StartShare
<1>7. SlotsOK'
  BY <1>1, <1>3, <1>5, <1>6, SlotsStay, SharesBounded DEF AgentInv
<1>8. LocksHeld'
  <2>1. \A h \in Goroutines : HoldsSlot(h)' => HoldsSlot(h)
    BY <1>1, <1>3 DEF HoldsSlot, In
  <2> QED BY <1>1, <2>1 DEF AgentInv, LocksHeld
<1>9. TracksOK'
  <2> SUFFICES ASSUME stops = 0, NEW h \in Goroutines, Working(h)'
               PROVE  tracked'[gor'[h].job] = h
    BY <1>1 DEF TracksOK
  <2>1. h # g /\ gor'[h] = gor[h] /\ Working(h)
    BY <1>2, <1>3 DEF Working
  <2>2. tracked[gor[h].job] = h /\ gor[h].job # gor[g].job
    BY <1>1, <2>1 DEF AgentInv, TracksOK
  <2>3. gor[h].job \in AgentJobs
    BY <2>1 DEF AgentInv, Shapes, Working, None
  <2> QED BY <1>1, <2>1, <2>2, <2>3 DEF AgentInv, Shapes
<1>10. RuntimeKept'
  BY <1>1, <1>2, <1>3 DEF AgentInv, RuntimeKept
<1> QED BY <1>4, <1>7, <1>8, <1>9, <1>10 DEF AgentInv

\* The slot goes back.
LEMMA GorReleaseInv ==
  ASSUME AgentInv, NEW g \in Goroutines, NEW k \in GorRecord, gor' = [gor EXCEPT ![g] = k],
         HoldsSlot(g), k.role = None \/ (k.role = "monitor" /\ k.at = "sweep"),
         k.role # None => k.job \in AgentJobs, ReleaseSlot(Goroutine(g)),
         UNCHANGED <<status, docker, dirs, tracked, host, loop, start, sweep, stops>>
  PROVE  AgentInv'
<1>1. /\ gor \in [Goroutines -> GorRecord] /\ permits \in Nat /\ permits <= Capacity
      /\ gor'[g] = k /\ \A h \in Goroutines \ {g} : gor'[h] = gor[h]
      /\ shared' = shared \ {Goroutine(g)} /\ permits' = permits - 1
  BY CapacityNat DEF AgentInv, Shapes, ReleaseSlot
<1>2. g \in Held /\ Held' = Held \ {g}
  BY Zenon, <1>1, HeldStep DEF Held
<1>3. LoopShare' = LoopShare /\ StartShare' = StartShare
  BY DEF LoopShare, StartShare
<1>4. permits > 0
  BY <1>1, <1>2, OwnersCounted, SharesBounded DEF AgentInv
<1>5. SlotsOK'
  BY <1>1, <1>2, <1>3, SlotsShrink, SharesBounded DEF AgentInv
<1>6. permits' \in 0..Capacity
  BY <1>1, <1>4, CapacityNat
<1>7. Shapes'
  BY <1>1, <1>6 DEF AgentInv, Shapes
<1>8. LocksHeld'
  <2>1. \A h \in Goroutines : HoldsSlot(h)' => HoldsSlot(h) /\ h # g
    BY <1>1 DEF HoldsSlot, In
  <2>2. \A h \in Goroutines : h # g => Goroutine(h) # Goroutine(g)
    BY DEF Goroutine
  <2> QED BY <1>1, <2>1, <2>2, HoldersDiffer DEF AgentInv, LocksHeld
<1>9. TracksOK' /\ RuntimeKept'
  BY <1>1 DEF AgentInv, TracksOK, RuntimeKept, Working, None
<1> QED BY <1>5, <1>7, <1>8, <1>9 DEF AgentInv

LEMMA FreeRecord == Free \in GorRecord /\ Free.role = None /\ Free.role # "exec"
  BY DEF Free, GorRecord, GorPlaces, None

LEMMA ExecReleasesInv ==
  ASSUME AgentInv, NEW g \in Goroutines, ExecReleases(g) PROVE AgentInv'
<1>1. HoldsSlot(g)
  BY DEF ExecReleases, In, HoldsSlot, None
<1> QED BY Zenon, <1>1, FreeRecord, GorReleaseInv DEF ExecReleases, counters

LEMMA MonitorReleasesInv ==
  ASSUME AgentInv, NEW g \in Goroutines, MonitorReleases(g) PROVE AgentInv'
<1>1. HoldsSlot(g) /\ gor[g].role = "monitor" /\ gor[g].job \in AgentJobs
  BY DEF AgentInv, Shapes, MonitorReleases, In, HoldsSlot, None
<1>2. PICK k \in GorRecord : /\ gor' = [gor EXCEPT ![g] = k]
                             /\ k.role = "monitor" /\ k.job = gor[g].job /\ k.at = "sweep"
  BY <1>1, MoveRecord DEF GorPlaces, MonitorReleases
<1> QED BY Zenon, <1>1, <1>2, GorReleaseInv DEF MonitorReleases, counters

\* The monitor leaves; it held nothing any more.
LEMMA MonitorSweepsInv ==
  ASSUME AgentInv, NEW g \in Goroutines, MonitorSweeps(g) PROVE AgentInv'
<1>1. /\ gor[g].role = "monitor" /\ gor[g].at = "sweep" /\ ~HoldsSlot(g)
      /\ gor' = [gor EXCEPT ![g] = Free]
      /\ UNCHANGED <<status, docker, dirs, tracked, permits, shared, host, loop, start, stops>>
  BY DEF MonitorSweeps, In, HoldsSlot, counters
<1>2. sweep' \in SweepRecord /\ (sweep'.at \in {"list", "clean"} => sweep.at \in {"list", "clean"})
  BY Zenon DEF AgentInv, Shapes, MonitorSweeps, sweepBegins, SweepRecord, NoSweep
<1>3. /\ gor \in [Goroutines -> GorRecord] /\ permits \in Nat
      /\ gor'[g] = Free /\ \A h \in Goroutines \ {g} : gor'[h] = gor[h]
  BY <1>1, CapacityNat DEF AgentInv, Shapes
<1>4. Shapes'
  BY <1>1, <1>2, <1>3, FreeRecord DEF AgentInv, Shapes
<1>5. Held' = Held
  <2>1. ~(Free.role # None /\ ~(Free.role = "monitor" /\ Free.at = "sweep"))
    BY FreeRecord
  <2>2. Held' = Held \ {g}
    BY Zenon, <1>1, <1>3, <2>1, HeldStep
  <2>3. g \notin Held
    BY <1>1 DEF Held
  <2> QED BY <2>2, <2>3
<1>6. LoopShare' = LoopShare /\ StartShare' = StartShare
  BY <1>1 DEF LoopShare, StartShare
<1>7. SlotsOK'
  BY <1>1, <1>3, <1>5, <1>6, SlotsStay, SharesBounded DEF AgentInv
<1>8. LocksHeld'
  <2>1. \A h \in Goroutines : HoldsSlot(h)' => HoldsSlot(h)
    BY <1>3, FreeRecord DEF HoldsSlot, In
  <2> QED BY <1>1, <1>2, <2>1 DEF AgentInv, LocksHeld
<1>9. TracksOK' /\ RuntimeKept'
  BY <1>1, <1>3, FreeRecord DEF AgentInv, TracksOK, RuntimeKept, Working
<1> QED BY <1>4, <1>7, <1>8, <1>9 DEF AgentInv

-----------------------------------------------------------------------------
(* Goroutines that start, are cancelled from outside, or die.               *)

LEMMA FreshIsFree ==
  ASSUME HasFresh
  PROVE  Fresh \in Goroutines /\ gor[Fresh].role = None /\ Fresh \notin Held
<1>1. Fresh \in Goroutines /\ gor[Fresh].role = None
  BY DEF HasFresh, Fresh
<1> QED BY <1>1 DEF Held, HoldsSlot

\* A goroutine appears with a slot; if it executes, its job was not tracked.
LEMMA GorStartInv ==
  ASSUME AgentInv, NEW f \in Goroutines, gor[f].role = None, NEW j \in AgentJobs,
         NEW role \in {"exec", "monitor"}, NEW at \in {"start", "wait"},
         gor' = [gor EXCEPT ![f] = [role |-> role, at |-> at, job |-> j, cancelled |-> FALSE]],
         role = "exec" => tracked[j] = Untracked /\ tracked' = [tracked EXCEPT ![j] = f],
         role # "exec" => UNCHANGED tracked,
         UNCHANGED <<status, docker, dirs, host, sweep, stops>>,
         permits' \in 0..Capacity,
         permits' + LoopShare + StartShare = permits + LoopShare' + StartShare' + 1,
         loop' \in LoopRecord, loop'.at = "start" => loop'.job \in AgentJobs,
         start' \in StartRecord, start'.at # "idle" => start'.job \in AgentJobs,
         loop'.at \in {"claim", "start"} => TheLoop \in shared',
         loop'.at \in {"discover", "monitors"} => TheStartup \in shared',
         start'.at = "start" => TheHandler \in shared',
         sweep.at \in {"list", "clean"} => TheSweep \in shared',
         shared' \subseteq Holders, Goroutine(f) \in shared', ~host,
         \A g \in Goroutines : Goroutine(g) \in shared => Goroutine(g) \in shared'
  PROVE  AgentInv'
<1>1. PICK k : k = [role |-> role, at |-> at, job |-> j, cancelled |-> FALSE]
  BY Zenon
<1>2. k \in GorRecord /\ k.role = role /\ k.at = at /\ k.job = j /\ k.role # None
  BY <1>1 DEF GorRecord, GorPlaces, None
<1>3. /\ gor \in [Goroutines -> GorRecord] /\ permits \in Nat /\ permits' \in Int
      /\ gor' = [gor EXCEPT ![f] = k]
      /\ gor'[f] = k /\ \A h \in Goroutines \ {f} : gor'[h] = gor[h]
  BY <1>1, CapacityNat DEF AgentInv, Shapes
<1>4. Shapes'
  <2>1. tracked' \in [AgentJobs -> Goroutines \cup {Untracked}]
    BY Zenon DEF AgentInv, Shapes
  <2>2. gor' \in [Goroutines -> GorRecord]
    BY Zenon, <1>2, <1>3
  <2>3. \A g \in Goroutines : gor'[g].role # None => gor'[g].job \in AgentJobs
    <3>1. \A g \in Goroutines : gor[g].role # None => gor[g].job \in AgentJobs
      BY Zenon DEF AgentInv, Shapes
    <3> QED BY Zenon, <1>2, <1>3, <3>1
  <2>4. /\ status' \in [AgentJobs -> {"Queued", "Running"} \cup Terminal]
        /\ docker' \in [AgentJobs -> {None, "running", "exited"}]
        /\ dirs' \subseteq AgentJobs /\ host' \in BOOLEAN /\ sweep' \in SweepRecord /\ stops' \in Nat
    BY Zenon DEF AgentInv, Shapes
  <2> QED BY Zenon, <2>1, <2>2, <2>3, <2>4 DEF Shapes
<1>5. f \notin Held /\ Held' = Held \cup {f}
  <2>1. Held' = Held \cup {f}
    BY Zenon, <1>2, <1>3, HeldStep
  <2> QED BY Zenon, <2>1 DEF Held, HoldsSlot
<1>6. SlotsOK'
  BY <1>3, <1>5, SlotsGrow DEF AgentInv
<1>7. LocksHeld'
  <2>1. \A h \in Goroutines : HoldsSlot(h)' => h = f \/ HoldsSlot(h)
    BY <1>3 DEF HoldsSlot, In
  <2> QED BY <2>1 DEF AgentInv, LocksHeld
<1>8. TracksOK'
  <2> SUFFICES ASSUME stops = 0, NEW h \in Goroutines, Working(h)'
               PROVE  tracked'[gor'[h].job] = h
    BY DEF TracksOK
  <2>1. CASE h = f
    BY <1>2, <1>3, <2>1 DEF AgentInv, Shapes, Working
  <2>2. CASE h # f
    <3>1. gor'[h] = gor[h] /\ Working(h)
      BY Zenon, <1>3, <2>2 DEF Working
    <3>2. tracked[gor[h].job] = h /\ gor[h].job \in AgentJobs
      BY <3>1 DEF AgentInv, TracksOK, Shapes, Working, None
    <3>3. h # Untracked
      BY AgentAssumption DEF Untracked
    <3> QED BY Zenon, <3>1, <3>2, <3>3 DEF AgentInv, Shapes
  <2> QED BY <2>1, <2>2
<1>9. RuntimeKept'
  BY <1>2, <1>3 DEF AgentInv, RuntimeKept
<1> QED BY <1>4, <1>6, <1>7, <1>8, <1>9 DEF AgentInv

\* The same for a slot handed over: StartRun under the loop or the handler.
LEMMA ClaimStartInv ==
  ASSUME AgentInv, ClaimStart PROVE AgentInv'
<1>1. /\ loop.at = "start" /\ loop.job \in AgentJobs /\ TheLoop \in shared /\ ~host
      /\ permits \in Nat /\ permits <= Capacity /\ HasFresh /\ loop' = Waiting
      /\ UNCHANGED <<status, docker, dirs, host, start, sweep, stops>>
  BY CapacityNat DEF AgentInv, Shapes, LocksHeld, ClaimStart, LoopAt, counters
<1>2. loop' \in LoopRecord /\ loop'.at = "idle"
  BY <1>1 DEF LoopRecord, LoopPlaces, Waiting
<1>3. LoopShare = 1 /\ LoopShare' = 0 /\ StartShare' = StartShare
  BY <1>1, <1>2 DEF LoopShare, StartShare
<1>4. CASE StartRun(loop.job, TheLoop) /\ UNCHANGED permits
  <2>1. PICK f : f = Fresh
    OBVIOUS
  <2>2. /\ f \in Goroutines /\ gor[f].role = None /\ tracked[loop.job] = Untracked
        /\ tracked' = [tracked EXCEPT ![loop.job] = f]
        /\ gor' = [gor EXCEPT ![f] = [role |-> "exec", at |-> "start", job |-> loop.job, cancelled |-> FALSE]]
        /\ shared' = (shared \ {TheLoop}) \cup {Goroutine(f)}
    BY <1>1, <1>4, <2>1, FreshIsFree DEF StartRun, Accepts, HandOver
  <2>3. permits' \in 0..Capacity /\ permits' + LoopShare + StartShare = permits + LoopShare' + StartShare' + 1
    BY <1>1, <1>3, <1>4, CapacityNat, SharesBounded
  <2>4. /\ shared' \subseteq Holders /\ Goroutine(f) \in shared'
        /\ \A g \in Goroutines : Goroutine(g) \in shared => Goroutine(g) \in shared'
        /\ start.at = "start" => TheHandler \in shared'
        /\ sweep.at \in {"list", "clean"} => TheSweep \in shared'
    BY <2>2, HoldersDiffer DEF AgentInv, Shapes, LocksHeld, Holders
  <2>5. start' \in StartRecord /\ (start'.at # "idle" => start'.job \in AgentJobs)
    BY <1>1 DEF AgentInv, Shapes
  <2> HIDE DEF LoopShare, StartShare
  <2> QED BY Zenon, <1>1, <1>2, <2>2, <2>3, <2>4, <2>5, GorStartInv
<1>5. CASE ReleaseSlot(TheLoop) /\ UNCHANGED <<tracked, gor>>
  <2>1. permits' = permits - 1 /\ shared' = shared \ {TheLoop} /\ UNCHANGED <<tracked, gor>>
    BY <1>5 DEF ReleaseSlot
  <2>2. /\ permits' \in Int /\ permits' <= Capacity
        /\ permits' + LoopShare = permits + LoopShare'
    BY <1>1, <1>3, <2>1, CapacityNat
  <2>3. /\ status' \in [AgentJobs -> {"Queued", "Running"} \cup Terminal]
        /\ sweep' \in SweepRecord /\ shared' \subseteq Holders
    BY <1>1, <2>1 DEF AgentInv, Shapes
  <2>4. \A h \in shared : h \in shared' \/ h = TheLoop
    BY <2>1
  <2> HIDE DEF LoopShare
  <2> QED BY Zenon, <1>1, <1>2, <2>1, <2>2, <2>3, <2>4, LoopStepInv
<1> QED BY <1>4, <1>5 DEF ClaimStart

LEMMA handleRunStartInv ==
  ASSUME AgentInv, handleRunStart PROVE AgentInv'
<1>1. /\ start.at = "start" /\ start.job \in AgentJobs /\ TheHandler \in shared /\ ~host
      /\ permits \in Nat /\ permits <= Capacity /\ HasFresh /\ start \in StartRecord
      /\ UNCHANGED <<status, docker, dirs, host, loop, sweep, stops>>
  BY CapacityNat DEF AgentInv, Shapes, LocksHeld, handleRunStart, StartAt, counters
<1>2. CASE StartRun(start.job, TheHandler) /\ start' = [start EXCEPT !.at = "respond"] /\ UNCHANGED permits
  <2>1. PICK f : f = Fresh
    OBVIOUS
  <2>2. /\ f \in Goroutines /\ gor[f].role = None /\ tracked[start.job] = Untracked
        /\ tracked' = [tracked EXCEPT ![start.job] = f]
        /\ gor' = [gor EXCEPT ![f] = [role |-> "exec", at |-> "start", job |-> start.job, cancelled |-> FALSE]]
        /\ shared' = (shared \ {TheHandler}) \cup {Goroutine(f)}
    BY <1>1, <1>2, <2>1, FreshIsFree DEF StartRun, Accepts, HandOver
  <2>3. start' \in StartRecord /\ start'.at = "respond" /\ start'.job = start.job
    BY <1>1, <1>2 DEF StartRecord
  <2>4. StartShare = 1 /\ StartShare' = 0 /\ LoopShare' = LoopShare
    BY <1>1, <2>3 DEF LoopShare, StartShare
  <2>5. permits' \in 0..Capacity /\ permits' + LoopShare + StartShare = permits + LoopShare' + StartShare' + 1
    BY <1>1, <1>2, <2>4, CapacityNat, SharesBounded
  <2>6. /\ shared' \subseteq Holders /\ Goroutine(f) \in shared'
        /\ \A g \in Goroutines : Goroutine(g) \in shared => Goroutine(g) \in shared'
        /\ loop.at \in {"claim", "start"} => TheLoop \in shared'
        /\ loop.at \in {"discover", "monitors"} => TheStartup \in shared'
        /\ sweep.at \in {"list", "clean"} => TheSweep \in shared'
    BY Zenon, <2>2, HoldersDiffer DEF AgentInv, Shapes, LocksHeld, Holders
  <2>7. loop' \in LoopRecord /\ (loop'.at = "start" => loop'.job \in AgentJobs)
    BY <1>1 DEF AgentInv, Shapes
  <2> HIDE DEF LoopShare, StartShare
  <2> QED BY Zenon, <1>1, <2>2, <2>3, <2>5, <2>6, <2>7, GorStartInv
<1>3. CASE ReleaseSlot(TheHandler) /\ start' = Waiting /\ UNCHANGED <<tracked, gor>>
  <2>1. start' \in StartRecord /\ start'.at = "idle"
    BY <1>3 DEF StartRecord, Waiting
  <2>2. StartShare = 1 /\ StartShare' = 0
    BY <1>1, <2>1 DEF StartShare
  <2>3. permits' = permits - 1 /\ shared' = shared \ {TheHandler} /\ UNCHANGED <<tracked, gor>>
    BY <1>3 DEF ReleaseSlot
  <2>4. /\ permits' \in Int /\ permits' <= Capacity
        /\ permits' + StartShare = permits + StartShare'
    BY <1>1, <2>2, <2>3, CapacityNat
  <2>5. shared' \subseteq Holders
    BY <2>3 DEF AgentInv, Shapes
  <2>6. \A h \in shared : h \in shared' \/ h = TheHandler
    BY <2>3
  <2> HIDE DEF StartShare
  <2> QED BY <1>1, <2>1, <2>3, <2>4, <2>5, <2>6, StartStepInv
<1> QED BY <1>2, <1>3 DEF handleRunStart

LEMMA MonitorStartsInv ==
  ASSUME AgentInv, NEW j \in AgentJobs, startRecoveredRunningMonitors(j) PROVE AgentInv'
<1>1. PICK f : f = Fresh
  OBVIOUS
<1>2. /\ loop.at = "monitors" /\ HasFresh /\ permits < Capacity /\ permits' = permits + 1
      /\ shared' = shared \cup {Goroutine(f)}
      /\ gor' = [gor EXCEPT ![f] = [role |-> "monitor", at |-> "wait", job |-> j, cancelled |-> FALSE]]
      /\ UNCHANGED <<status, docker, dirs, tracked, host, loop, start, sweep, stops>>
  BY <1>1 DEF startRecoveredRunningMonitors, LoopAt, TakePermit, counters
<1>7. TheStartup \in shared /\ ~host
  BY Zenon, <1>2 DEF AgentInv, LocksHeld
<1>8. permits \in Nat
  BY CapacityNat DEF AgentInv, Shapes
<1>3. f \in Goroutines /\ gor[f].role = None
  BY <1>1, <1>2, FreshIsFree
<1>4. LoopShare' = LoopShare /\ StartShare' = StartShare
  BY <1>2 DEF LoopShare, StartShare
<1>5. permits' \in 0..Capacity /\ permits' + LoopShare + StartShare = permits + LoopShare' + StartShare' + 1
  BY <1>2, <1>4, <1>8, CapacityNat, SharesBounded
<1>6. shared' \subseteq Holders /\ Goroutine(f) \in shared' /\ shared \subseteq shared'
  BY <1>2, <1>3 DEF AgentInv, Shapes, Holders
<1> HIDE DEF LoopShare, StartShare
<1> QED BY Zenon, <1>2, <1>3, <1>5, <1>6, <1>7, GorStartInv DEF AgentInv, Shapes, LocksHeld

\* Contexts end from outside: the handler's request is over, or StopRun.
LEMMA MarksInv ==
  ASSUME AgentInv, gor' \in [Goroutines -> GorRecord],
         \A g \in Goroutines : /\ gor'[g].role = gor[g].role /\ gor'[g].at = gor[g].at
                               /\ gor'[g].job = gor[g].job,
         tracked' \in [AgentJobs -> Goroutines \cup {Untracked}], stops' \in Nat,
         stops' = 0 => stops = 0 /\ tracked' = tracked,
         start' \in StartRecord, start'.at # "idle" => start'.job \in AgentJobs,
         start'.at \in {"lock", "start"} <=> start.at \in {"lock", "start"},
         start'.at = "start" => start.at = "start",
         UNCHANGED <<status, docker, dirs, permits, shared, host, loop, sweep>>
  PROVE  AgentInv'
<1>1. Shapes'
  BY Zenon DEF AgentInv, Shapes
<1>2. \A g \in Goroutines : HoldsSlot(g)' <=> HoldsSlot(g)
  BY Zenon DEF HoldsSlot, In
<1>3. Held' = Held
  BY Zenon, <1>2 DEF Held
<1>4. LoopShare' = LoopShare /\ StartShare' = StartShare
  BY Zenon DEF LoopShare, StartShare
<1>5. permits \in Nat
  BY CapacityNat DEF AgentInv, Shapes
<1>6. SlotsOK'
  BY <1>3, <1>4, <1>5, SlotsStay, SharesBounded DEF AgentInv
<1>7. LocksHeld'
  BY <1>2 DEF AgentInv, LocksHeld
<1>8. TracksOK' /\ RuntimeKept'
  BY DEF AgentInv, TracksOK, RuntimeKept, Working
<1> QED BY Zenon, <1>1, <1>6, <1>7, <1>8 DEF AgentInv

LEMMA RespondStartInv ==
  ASSUME AgentInv, RespondStart PROVE AgentInv'
<1>1. /\ start.at = "respond" /\ start' = Waiting
      /\ UNCHANGED <<status, docker, dirs, tracked, permits, shared, host, loop, sweep, stops>>
      /\ gor' = [g \in Goroutines |->
           IF gor[g].role = "exec" /\ gor[g].job = start.job /\ tracked[start.job] = g
           THEN [gor[g] EXCEPT !.cancelled = TRUE] ELSE gor[g]]
  BY DEF RespondStart, StartAt, counters
<1>2. \A g \in Goroutines : gor[g] \in GorRecord
  BY DEF AgentInv, Shapes
<1>3. \A k \in GorRecord : LET c == [k EXCEPT !.cancelled = TRUE]
                           IN c \in GorRecord /\ c.role = k.role /\ c.at = k.at /\ c.job = k.job
  BY Zenon DEF GorRecord
<1>4. \A g \in Goroutines : /\ gor'[g] \in GorRecord /\ gor'[g].role = gor[g].role
                            /\ gor'[g].at = gor[g].at /\ gor'[g].job = gor[g].job
  BY <1>1, <1>2, <1>3
<1>5. gor' \in [Goroutines -> GorRecord]
  BY <1>1, <1>4
<1>6. start' \in StartRecord /\ start'.at = "idle"
  BY <1>1 DEF StartRecord, Waiting
<1> QED BY <1>1, <1>4, <1>5, <1>6, MarksInv DEF AgentInv, Shapes

LEMMA handleRunStopInv ==
  ASSUME AgentInv, NEW j \in AgentJobs, handleRunStop(j) PROVE AgentInv'
<1>1. PICK f : f = tracked[j]
  OBVIOUS
<1>2. /\ f \in Goroutines /\ gor \in [Goroutines -> GorRecord] /\ gor[f] \in GorRecord
      /\ gor' = [gor EXCEPT ![f] = [gor[f] EXCEPT !.cancelled = TRUE]]
      /\ tracked' \in [AgentJobs -> Goroutines \cup {Untracked}]
      /\ stops' \in Nat /\ stops' # 0
      /\ UNCHANGED <<status, docker, dirs, permits, shared, host, loop, start, sweep>>
  BY <1>1 DEF AgentInv, Shapes, handleRunStop, StopRun
<1>3. PICK k : k = [gor[f] EXCEPT !.cancelled = TRUE]
  BY Zenon
<1>4. k \in GorRecord /\ k.role = gor[f].role /\ k.at = gor[f].at /\ k.job = gor[f].job
  BY Zenon, <1>2, <1>3 DEF GorRecord
<1>5. /\ gor' \in [Goroutines -> GorRecord]
      /\ \A g \in Goroutines : /\ gor'[g].role = gor[g].role /\ gor'[g].at = gor[g].at
                               /\ gor'[g].job = gor[g].job
  BY <1>2, <1>3, <1>4
<1> QED BY <1>2, <1>5, MarksInv DEF AgentInv, Shapes

-----------------------------------------------------------------------------
(* A process without memory: at first, and after a crash.                   *)

NoMemory ==
  /\ status \in [AgentJobs -> {"Queued", "Running"} \cup Terminal]
  /\ docker \in [AgentJobs -> {None, "running", "exited"}]
  /\ dirs \subseteq AgentJobs /\ host \in BOOLEAN /\ stops \in Nat
  /\ tracked = [j \in AgentJobs |-> Untracked] /\ permits = 0 /\ shared = {}
  /\ loop \in LoopRecord /\ loop.at \in {"down", "startup"}
  /\ start = Waiting /\ sweep = NoSweep /\ gor = [g \in Goroutines |-> Free]

LEMMA NoMemoryInv == NoMemory => AgentInv
<1> SUFFICES ASSUME NoMemory PROVE AgentInv
  OBVIOUS
<1> USE DEF NoMemory
<1>1. start \in StartRecord /\ start.at = "idle" /\ sweep \in SweepRecord /\ sweep.at = "idle"
  BY DEF Waiting, NoSweep, StartRecord, SweepRecord
<1>2. \A g \in Goroutines : gor[g] \in GorRecord /\ gor[g].role = None /\ gor[g].role # "exec"
  BY FreeRecord
<1>3. Shapes
  BY <1>1, <1>2, CapacityNat, FreeRecord DEF Shapes
<1>4. Held = {} /\ LoopShare = 0 /\ StartShare = 0
  BY <1>1, <1>2 DEF Held, HoldsSlot, LoopShare, StartShare
<1>5. SlotsOK
  BY <1>4, FS_EmptySet DEF SlotsOK
<1>6. LocksHeld
  BY <1>1, <1>2 DEF LocksHeld, HoldsSlot
<1>7. TracksOK /\ RuntimeKept
  BY <1>2 DEF TracksOK, RuntimeKept, Working
<1> QED BY <1>3, <1>5, <1>6, <1>7 DEF AgentInv

LEMMA AgentInitInv ==
  ASSUME AgentInit PROVE AgentInv
<1>1. loop \in LoopRecord /\ loop.at = "startup"
  BY DEF AgentInit, LoopRecord, LoopPlaces
<1> QED BY Zenon, <1>1, NoMemoryInv DEF AgentInit, NoMemory, Terminal

LEMMA NodeCrashInv ==
  ASSUME AgentInv, NodeCrash PROVE AgentInv'
<1>1. /\ tracked' = [j \in AgentJobs |-> Untracked] /\ permits' = 0 /\ shared' = {}
      /\ loop' = [at |-> "down", job |-> None] /\ start' = Waiting /\ sweep' = NoSweep
      /\ gor' = [g \in Goroutines |-> Free]
      /\ UNCHANGED <<status, docker, dirs, host, stops>>
  BY DEF NodeCrash
<1>2. loop' \in LoopRecord /\ loop'.at = "down"
  BY <1>1 DEF LoopRecord, LoopPlaces
<1>3. NoMemory'
  BY <1>1, <1>2 DEF AgentInv, Shapes, NoMemory
<1> QED BY <1>3, NoMemoryInv, PTL

-----------------------------------------------------------------------------
(* The theorems.                                                            *)

LEMMA AgentStepInv ==
  ASSUME AgentInv, [AgentNext]_agentVars PROVE AgentInv'
<1>1. CASE UNCHANGED agentVars
  BY Zenon, <1>1 DEF agentVars, AgentInv, Shapes, LocksHeld, SlotsOK, Held, LoopShare, StartShare,
     TracksOK, RuntimeKept, Working, HoldsSlot, In
<1>2. ASSUME NEW j \in AgentJobs,
             CancelJob(j) \/ ResumeJob(j) \/ StartPermit(j) \/ handleRunStop(j) \/ ContainerEnds(j)
      PROVE  AgentInv'
  BY <1>2, OutsideInv, StartPermitInv, handleRunStopInv
<1>3. CASE HostLock \/ HostUnlock
  BY <1>3, OutsideInv
<1>4. CASE LoopSteps
  BY <1>4, StartupLockInv, DiscoverInv, ReconcileInv, MonitorStartsInv, ClaimJobInv, ClaimPermitInv,
     ClaimLockInv, ClaimNothingInv, ClaimStartInv, LoopSweepsInv, LoopSweptInv DEF LoopSteps
<1>5. CASE SweepSteps
  BY <1>5, SweepLockInv, SweepReadsInv, SweepCleansInv DEF SweepSteps
<1>6. CASE StartSteps
  BY <1>6, StartLockInv, handleRunStartInv, RespondStartInv DEF StartSteps
<1>7. ASSUME NEW g \in Goroutines, ExecSteps(g) PROVE AgentInv'
  BY <1>7, ExecDirsInv, ExecContainerInv, ExecReturnsInv, ExecReportsInv, ExecCleansInv,
     ExecUntracksInv, ExecReleasesInv, WatchInv, MonitorReportsInv, MonitorReleasesInv,
     MonitorSweepsInv DEF ExecSteps
<1>8. CASE NodeCrash \/ NodeBoot
  BY <1>8, NodeCrashInv, NodeBootInv
<1> QED BY <1>1, <1>2, <1>3, <1>4, <1>5, <1>6, <1>7, <1>8 DEF AgentNext

\* The inductive invariant of the agent: whoever works holds the shared
\* maintenance lock, every permit of the semaphore has an owner, and a goroutine
\* at work is the one its job is tracked under.
THEOREM AgentInvariant == AgentSpec => []AgentInv
<1>1. AgentInit => AgentInv
  BY AgentInitInv
<1>2. AgentInv /\ [AgentNext]_agentVars => AgentInv'
  BY AgentStepInv
<1> QED BY <1>1, <1>2, PTL DEF AgentSpec

\* For every capacity, every set of jobs and any number of goroutines, crashes,
\* resumes and start or stop requests: the permits taken are exactly those of the
\* loop, the handler and the goroutines that own one.
THEOREM PermitsConserved == AgentSpec => []SlotsConserved
<1>1. AgentInv => SlotsConserved
  BY SlotsMeaning DEF AgentInv
<1> QED BY <1>1, AgentInvariant, PTL

\* The host's maintenance and the node's work exclude each other.
THEOREM MaintenanceExcludesWork == AgentSpec => []MaintenanceExclusive
<1>1. AgentInv => MaintenanceExclusive
  BY DEF AgentInv, LocksHeld, MaintenanceExclusive
<1> QED BY <1>1, AgentInvariant, PTL

\* As long as nobody called StopRun, a job id has one goroutine at work, and the
\* directories it executes in stay.
THEOREM ExecutionsUndisturbed == AgentSpec => []ExecutionUndisturbed
<1>1. AgentInv => AgentTypeOK
  BY DEF AgentInv, Shapes, AgentTypeOK, LoopRecord, LoopPlaces, StartRecord, SweepRecord, GorRecord
<1>2. AgentInv => OneExecutionPerJob
  BY DEF AgentInv, TracksOK, OneExecutionPerJob
<1>3. AgentInv => ExecutionUndisturbed
  BY <1>1, <1>2 DEF AgentInv, ExecutionUndisturbed
<1> QED BY <1>3, AgentInvariant, PTL
=============================================================================
