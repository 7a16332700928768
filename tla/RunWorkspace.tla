---------------------------- MODULE RunWorkspace ----------------------------
(***************************************************************************)
(* One run executed on one node: the sticky workspace the run's jobs share, *)
(* the git baseline that advances with every successful mig, the diffs and  *)
(* the repo SHAs that the jobs report, and what becomes of them when a step *)
(* fails, when the node process crashes and recovers the container it left  *)
(* behind, when a failed job is resumed and when the run is restarted.      *)
(*                                                                          *)
(* A tree is the set of edits it holds over the source commit; a diff is    *)
(* the pair of trees it leads from and to; a repo SHA is the sequence of    *)
(* trees it was derived from, for the synthetic commit hashes its tree and  *)
(* its parent.  The node executes one job at a time (its default).          *)
(***************************************************************************)
EXTENDS Naturals, Sequences, TLC

CONSTANTS
  Chain,          \* the kinds of the run's jobs, in order: "gate" or "mig"
  Edits,          \* what containers may do to the workspace
  MaxAttempts,    \* bound on full restarts
  MaxResumes,     \* bound on retries from the failed job
  MaxCrashes      \* bound on crashes of the node process

Jobs == 1..Len(Chain)
Last(s) == s[Len(s)]
Trees == SUBSET Edits
Source == << {} >>
NoSHA == << >>
NoDiff == [from |-> {}, to |-> {}]

ASSUME WorkspaceAssumption ==
  /\ Chain \in Seq({"gate", "mig"}) /\ Chain # << >>
  /\ "missing" \in Edits
  /\ {MaxAttempts, MaxResumes, MaxCrashes} \subseteq Nat

VARIABLES
  jobs,        \* the server's rows: status, repo_sha_in, repo_sha_out
  diffs,       \* the latest diff stored for each job of the attempt
  attempt, resume,
  workspace,   \* runs/{run_id}/workspace: .git present, HEAD's tree, content
  exec,        \* the node's goroutine: where it is and what it found
  container,   \* the job container docker holds, running or exited
  crashes

wsVars == <<jobs, diffs, attempt, resume, workspace, exec, container, crashes>>

-----------------------------------------------------------------------------
\* An execution belongs to a job of an attempt (a restart makes new job ids)
\* and to the resume count it was claimed with.
Owners == [job : Jobs, attempt : 1..MaxAttempts, resume : 0..MaxResumes]
Owner(k) == [job |-> k, attempt |-> attempt, resume |-> resume]
NoOwner == [job |-> 1, attempt |-> 1, resume |-> 0]

Idle == [at |-> "idle", of |-> NoOwner, shaIn |-> NoSHA, pre |-> {}, status |-> "", sha |-> NoSHA]
NoContainer == [state |-> "none", of |-> NoOwner, code |-> 0]
NoWorkspace == [git |-> FALSE, head |-> {}, tree |-> {}]

FirstJobs == [k \in Jobs |->
  [status |-> IF k = 1 THEN "Queued" ELSE "Created",
   shaIn  |-> IF k = 1 THEN Source ELSE NoSHA,
   shaOut |-> NoSHA]]

WorkspaceInit ==
  /\ jobs = FirstJobs
  /\ diffs = [k \in Jobs |-> NoDiff]
  /\ attempt = 1 /\ resume = 0
  /\ workspace = NoWorkspace
  /\ exec = Idle
  /\ container = NoContainer
  /\ crashes = 0

At(p) == exec.at = p
Goto(p) == exec' = [exec EXCEPT !.at = p]
Report(st, sha) == exec' = [exec EXCEPT !.at = "report", !.status = st, !.sha = sha]
ServerSame == UNCHANGED <<jobs, diffs, attempt, resume>>

-----------------------------------------------------------------------------
(* The server: what it makes of a terminal status.                          *)

\* A gate that names no repo_sha_out keeps its input; a mig that has a
\* successor must name one, or the request is refused and nothing changes.
SHAOut(k, sha) == IF Chain[k] = "gate" /\ sha = NoSHA THEN jobs[k].shaIn ELSE sha

AcceptsStatus(o, st, sha) ==
  /\ jobs[o.job].status = "Running"
  /\ o = Owner(o.job)
  /\ ~(st = "Success" /\ o.job < Len(Chain) /\ SHAOut(o.job, sha) = NoSHA)

Completed(k, st, sha) ==
  [j \in Jobs |->
     IF j = k
     THEN [jobs[k] EXCEPT !.status = st,
                          !.shaOut = IF st = "Success" THEN SHAOut(k, sha) ELSE NoSHA]
     ELSE IF st = "Success"
     THEN IF j = k + 1 THEN [jobs[j] EXCEPT !.status = "Queued", !.shaIn = SHAOut(k, sha)]
                       ELSE jobs[j]
     ELSE IF jobs[j].status = "Created" THEN [jobs[j] EXCEPT !.status = "Cancelled"] ELSE jobs[j]]

\* POST /v1/jobs/{id}/complete arrives, or every one of its attempts is lost.
SendStatus(o, st, sha) ==
  /\ \/ /\ AcceptsStatus(o, st, sha)
        /\ jobs' = Completed(o.job, st, sha)
     \/ jobs' = jobs
  /\ UNCHANGED <<diffs, attempt, resume>>

RunFailed == \E k \in Jobs : jobs[k].status \in {"Fail", "Error"}
RunSucceeded == \A k \in Jobs : jobs[k].status = "Success"
RunCancelled == ~RunFailed /\ \E k \in Jobs : jobs[k].status = "Cancelled"

\* POST /v1/runs/{id}/cancel.
CancelRun ==
  /\ ~RunFailed /\ ~RunSucceeded /\ ~RunCancelled
  /\ jobs' = [k \in Jobs |->
       IF jobs[k].status \in {"Created", "Queued", "Running"}
       THEN [jobs[k] EXCEPT !.status = "Cancelled"] ELSE jobs[k]]
  /\ UNCHANGED <<diffs, attempt, resume, workspace, exec, container, crashes>>

\* A full restart: a new attempt with new jobs under the same run id; the
\* diffs the patch is made of are those of the current attempt.
RestartRun ==
  /\ RunFailed \/ RunSucceeded \/ RunCancelled
  /\ attempt < MaxAttempts
  /\ attempt' = attempt + 1
  /\ resume' = 0
  /\ jobs' = FirstJobs
  /\ diffs' = [k \in Jobs |-> NoDiff]
  /\ UNCHANGED <<workspace, exec, container, crashes>>

\* A retry from the failed job: same attempt, same job id, the diffs stay.
ResumeRun ==
  /\ RunFailed
  /\ resume < MaxResumes
  /\ resume' = resume + 1
  /\ LET k == CHOOSE j \in Jobs : jobs[j].status \in {"Fail", "Error"}
     IN  jobs' = [j \in Jobs |->
           IF j = k THEN [jobs[j] EXCEPT !.status = "Queued", !.shaOut = NoSHA]
           ELSE IF j > k THEN [status |-> "Created", shaIn |-> NoSHA, shaOut |-> NoSHA]
           ELSE jobs[j]]
  /\ UNCHANGED <<diffs, attempt, workspace, exec, container, crashes>>

-----------------------------------------------------------------------------
(* The node: claim, prepare, hydrate.                                       *)

Claim(k) ==
  /\ At("idle")
  /\ jobs[k].status = "Queued"
  /\ jobs' = [jobs EXCEPT ![k].status = "Running"]
  /\ exec' = [Idle EXCEPT !.at = "prepare", !.of = Owner(k), !.shaIn = jobs[k].shaIn]
  /\ UNCHANGED <<diffs, attempt, resume, workspace, container, crashes>>

\* Directories, mounts, manifest, runtime, log writers: any of them may fail.
executeRun ==
  /\ At("prepare")
  /\ Goto("hydrate") \/ Report("Error", NoSHA)
  /\ ServerSame /\ UNCHANGED <<workspace, container, crashes>>

\* A workspace with a .git directory is reused as it is; without one a resumed
\* job fails and another starts to unpack the snapshot of the source commit.
prepareStickyWorkspace ==
  /\ At("hydrate")
  /\ \/ /\ workspace.git
        /\ Goto("ready") /\ UNCHANGED workspace
     \/ /\ ~workspace.git
        /\ exec.of.resume > 0 \/ exec.shaIn = NoSHA
        /\ Report("Error", NoSHA) /\ UNCHANGED workspace
     \/ /\ ~workspace.git
        /\ exec.of.resume = 0 /\ exec.shaIn # NoSHA
        /\ workspace' = [git |-> TRUE, head |-> {}, tree |-> {"missing"}]
        /\ Goto("unpack")
  /\ ServerSame /\ UNCHANGED <<container, crashes>>

\* The unpacking ends with HEAD verified, or fails and the directory goes.
downloadSnapshot ==
  /\ At("unpack")
  /\ \/ /\ workspace' = [git |-> TRUE, head |-> {}, tree |-> {}]
        /\ Goto("ready")
     \/ /\ workspace' = NoWorkspace
        /\ Report("Error", NoSHA)
  /\ ServerSame /\ UNCHANGED <<container, crashes>>

Kind == Chain[exec.of.job]
AfterContainer == IF Kind = "mig" THEN "diff" ELSE "outcomes"

\* The tree before the mig, the image name, the resources; clearing the gate's
\* outcomes; then the container is created and started.  One that cannot be
\* counts as a container that failed; a gate may get by without one.
StartContainer ==
  /\ At("ready")
  /\ \/ /\ exec' = [exec EXCEPT !.at = "container", !.pre = workspace.tree]
        /\ container' = [state |-> "running", of |-> exec.of, code |-> 0]
     \/ /\ \E st \in IF Kind = "mig" THEN {"Error"} ELSE {"Success", "Fail", "Error"} :
             exec' = [exec EXCEPT !.at = AfterContainer, !.pre = workspace.tree, !.status = st]
        /\ UNCHANGED container
     \/ /\ Report("Error", NoSHA) /\ UNCHANGED container
  /\ ServerSame /\ UNCHANGED <<workspace, crashes>>

\* Docker: the container writes to the workspace mounted in it and exits.
ContainerExits ==
  /\ container.state = "running"
  /\ \E t \in Trees, c \in 0..1 :
       /\ workspace' = [workspace EXCEPT !.tree = t]
       /\ container' = [container EXCEPT !.state = "exited", !.code = c]
  /\ ServerSame /\ UNCHANGED <<exec, crashes>>

\* Wait returns the exit code, or an error of the docker client.
ContainerReturns ==
  /\ At("container")
  /\ \/ /\ container.state = "exited"
        /\ exec' = [exec EXCEPT !.at = AfterContainer,
                                !.status = IF container.code = 0 THEN "Success" ELSE "Fail"]
     \/ exec' = [exec EXCEPT !.at = AfterContainer,
                             !.status = "Error"]
  /\ ServerSame /\ UNCHANGED <<workspace, container, crashes>>

-----------------------------------------------------------------------------
(* The node: what a finished mig uploads.                                   *)

\* An empty diff is not uploaded; one that is may be stored and its answer
\* lost.  A failure only counts against an execution that was succeeding.
uploadDiff ==
  /\ At("diff")
  /\ LET diff == [from |-> workspace.head, to |-> workspace.tree]
         stored == diffs' = IF exec.of.attempt = attempt THEN [diffs EXCEPT ![exec.of.job] = diff] ELSE diffs
         failed == IF exec.status = "Success"
                   THEN exec' = [exec EXCEPT !.at = "baseline", !.status = "Error"]
                   ELSE Goto("baseline")
     IN  \/ workspace.tree = workspace.head /\ diffs' = diffs /\ Goto("baseline")
         \/ workspace.tree # workspace.head /\ stored /\ Goto("baseline")
         \/ workspace.tree # workspace.head /\ stored /\ failed
         \/ diffs' = diffs /\ failed
  /\ UNCHANGED <<jobs, attempt, resume, workspace, container, crashes>>

\* Mutant: the baseline stays where it was.
advanceNothing ==
  /\ At("baseline")
  /\ \/ /\ exec.status = "Success"
        /\ Goto("sha")
     \/ /\ Report(IF exec.status = "Success" THEN "Error" ELSE exec.status, NoSHA)
  /\ ServerSame /\ UNCHANGED <<workspace, container, crashes>>

\* A successful mig's changes are committed in the workspace.
advanceWorkspaceBaseline ==
  /\ At("baseline")
  /\ \/ /\ exec.status = "Success"
        /\ workspace' = [workspace EXCEPT !.head = workspace.tree]
        /\ Goto("sha")
     \/ /\ Report(IF exec.status = "Success" THEN "Error" ELSE exec.status, NoSHA)
        /\ UNCHANGED workspace
  /\ ServerSame /\ UNCHANGED <<container, crashes>>

\* The tree repo_sha_in stands for: the tree before the mig; for a gate the
\* tree of a commit git can resolve (the source's), otherwise HEAD's.
resolveInputTree ==
  IF Kind = "mig" THEN exec.pre
  ELSE IF exec.shaIn = Source THEN {} ELSE workspace.head

ComputeRepoSHAV1 ==
  IF workspace.tree = resolveInputTree
  THEN exec.shaIn
  ELSE Append(exec.shaIn, workspace.tree)

computeRepoSHAOut ==
  /\ At("sha")
  /\ Report("Success", ComputeRepoSHAV1) \/ Report("Error", NoSHA)
  /\ ServerSame /\ UNCHANGED <<workspace, container, crashes>>

\* A gate's outcomes are published before its status; a gate that passed also
\* names its repo SHA.
persistGateOutcomes ==
  /\ At("outcomes")
  /\ \/ IF exec.status = "Success" THEN Goto("sha") ELSE Report(exec.status, NoSHA)
     \/ Report("Error", NoSHA)
  /\ ServerSame /\ UNCHANGED <<workspace, container, crashes>>

\* The status leaves for the server on a context of its own; the goroutine
\* then closes its logs, uploads its artifacts and gives up its slot.
uploadStatus ==
  /\ At("report")
  /\ SendStatus(exec.of, exec.status, exec.sha)
  /\ exec' = Idle
  /\ UNCHANGED <<workspace, container, crashes>>

\* The node's watch sees the job cancelled: its context ends, the container
\* that is being waited for is removed, and what is reported comes too late.
CancelWatch ==
  /\ exec.at \in {"prepare", "hydrate", "unpack", "ready", "container", "diff", "baseline", "sha", "outcomes"}
  /\ exec.of.attempt < attempt \/ jobs[exec.of.job].status = "Cancelled"
  /\ container' = IF At("container") THEN NoContainer ELSE container
  /\ workspace' = IF At("unpack") THEN NoWorkspace ELSE workspace
  /\ Report("Cancelled", NoSHA)
  /\ ServerSame /\ UNCHANGED crashes

-----------------------------------------------------------------------------
(* The node process dies and comes back.                                    *)

Crash ==
  /\ exec.at # "down"
  /\ crashes < MaxCrashes
  /\ crashes' = crashes + 1
  /\ exec' = [Idle EXCEPT !.at = "down"]
  /\ ServerSame /\ UNCHANGED <<workspace, container>>

\* Startup looks at the containers docker still holds: one that runs gets a
\* monitor in a slot of its own, one that ended recently is reported at once,
\* one that ended before the terminal window is passed over.
runStartupReconcilePass ==
  /\ At("down")
  /\ \E at \in CASE container.state = "running" -> {"monitor"}
                 [] container.state = "exited"  -> {"terminal", "idle"}
                 [] OTHER -> {"idle"} :
       exec' = [Idle EXCEPT !.at = at]
  /\ ServerSame /\ UNCHANGED <<workspace, container, crashes>>

RecoveredStatus == IF container.code = 0 THEN "Success" ELSE "Fail"

\* The recovered container's exit code is all that is reported: no diff, no
\* baseline, no repo SHA.
uploadRecoveredTerminalStatus ==
  /\ At("monitor") \/ At("terminal")
  /\ container.state = "exited"
  /\ SendStatus(container.of, RecoveredStatus, NoSHA)
  /\ exec' = Idle
  /\ UNCHANGED <<workspace, container, crashes>>

\* The wait itself fails: Error.
RecoveredWaitFails ==
  /\ At("monitor")
  /\ SendStatus(container.of, "Error", NoSHA)
  /\ exec' = Idle
  /\ UNCHANGED <<workspace, container, crashes>>

-----------------------------------------------------------------------------
NodeSteps ==
  \/ executeRun \/ prepareStickyWorkspace \/ downloadSnapshot \/ StartContainer
  \/ ContainerReturns \/ uploadDiff \/ advanceWorkspaceBaseline \/ computeRepoSHAOut
  \/ persistGateOutcomes \/ uploadStatus \/ CancelWatch
  \/ runStartupReconcilePass \/ uploadRecoveredTerminalStatus \/ RecoveredWaitFails

WorkspaceNext ==
  \/ CancelRun \/ RestartRun \/ ResumeRun
  \/ \E k \in Jobs : Claim(k)
  \/ ContainerExits
  \/ NodeSteps
  \/ Crash

\* The node's goroutines run and containers end.
WorkspaceFairness ==
  /\ WF_wsVars(NodeSteps)
  /\ WF_wsVars(ContainerExits)

WorkspaceSpec == WorkspaceInit /\ [][WorkspaceNext]_wsVars /\ WorkspaceFairness

-----------------------------------------------------------------------------
(* Properties.                                                              *)

SHAs == UNION {[1..n -> Trees] : n \in 0..(Len(Chain) + 1)}

\* The type invariant.
WorkspaceTypeOK ==
  /\ jobs \in [Jobs -> [status : {"Created", "Queued", "Running", "Success", "Fail", "Error", "Cancelled"},
                        shaIn : SHAs, shaOut : SHAs]]
  /\ diffs \in [Jobs -> [from : Trees, to : Trees]]
  /\ attempt \in 1..MaxAttempts /\ resume \in 0..MaxResumes /\ crashes \in 0..MaxCrashes
  /\ workspace \in [git : BOOLEAN, head : Trees, tree : Trees]
  /\ exec.at \in {"idle", "prepare", "hydrate", "unpack", "ready", "container", "diff", "baseline",
                  "sha", "outcomes", "report", "down", "monitor", "terminal"}
  /\ exec.of \in Owners /\ exec.shaIn \in SHAs /\ exec.pre \in Trees /\ exec.sha \in SHAs
  /\ container \in [state : {"none", "running", "exited"}, of : Owners, code : 0..1]

\* Applying the stored diffs of the first k jobs to a tree, in the order of the
\* chain; a diff that does not apply breaks the patch.
Broken == {"broken"}
AccumulatedPatch(base, k) ==
  LET apply[i \in 0..k] ==
        IF i = 0 THEN base
        ELSE IF diffs[i] = NoDiff THEN apply[i - 1]
        ELSE IF diffs[i].from = apply[i - 1] THEN diffs[i].to ELSE Broken
  IN  apply[k]

\* The job chain stands still after job k: its successor waits to be claimed,
\* or k was the last.
Frontier(k) ==
  /\ jobs[k].status = "Success"
  /\ IF k = Len(Chain) THEN TRUE ELSE jobs[k + 1].status = "Queued"

\* Whenever the chain of an attempt stands still and no job of it was resumed,
\* the diffs the server hands out as the accumulated patch follow on from each
\* other and end in what the node has committed in the workspace, whatever
\* uploads failed and whichever gate was recovered from a crash on the way; in
\* the first attempt they begin at the source commit.
PatchChains ==
  resume = 0 => \A k \in Jobs : Frontier(k) =>
    \E base \in Trees : /\ attempt = 1 => base = {}
                        /\ AccumulatedPatch(base, k) = workspace.head

\* In every attempt the accumulated patch leads from the run's source commit,
\* which is where `run apply` applies it, to what the node has committed.
PatchAppliesToSource ==
  \A k \in Jobs : Frontier(k) => AccumulatedPatch({}, k) = workspace.head

\* As long as no crash was recovered from and no job resumed, the repo SHA the
\* last job of the first attempt reported describes the workspace its successor
\* will find.
SHADescribesWorkspace ==
  crashes = 0 /\ resume = 0 /\ attempt = 1 => \A k \in Jobs : Frontier(k) => Last(jobs[k].shaOut) = workspace.tree

\* Whatever fails, the node returns to where it can claim.
NodeComesBack == (exec.at # "idle") ~> (exec.at = "idle")

\* What the server has stored of a run, its diffs and its commits, describes the
\* workspace on the node.
PatchDescribesWorkspace ==
  /\ WorkspaceTypeOK
  /\ PatchChains
  /\ SHADescribesWorkspace
=============================================================================
