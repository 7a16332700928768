------------------------------ MODULE JobChain ------------------------------
(***************************************************************************)
(* The jobs of one run attempt: a chain linked by next_id, step 1 the head *)
(* and step N the tail.  A chain is a function from steps to job rows; the *)
(* operators below are the statements of the store that rewrite the rows   *)
(* of one attempt.                                                         *)
(*                                                                         *)
(* Of a job row the model keeps status, node_id, whether started_at is     *)
(* set, and the commits repo_sha_in and repo_sha_out.                      *)
(***************************************************************************)
EXTENDS Naturals

CONSTANTS N,         \* length of the chain planned from the spec
          Nodes,     \* worker nodes
          NoNode,    \* node_id IS NULL
          Commits,   \* canonical 40-hex commit ids
          NoSha,     \* the empty commit id
          Sha0,      \* runs.repo_sha0: the commit the run starts from
          GateSteps  \* steps whose job cannot change the repository

Steps == 1..N

ASSUME ChainAssumption ==
  /\ N \in Nat \ {0}
  /\ NoNode \notin Nodes
  /\ Sha0 \in Commits
  /\ NoSha \notin Commits
  /\ GateSteps \subseteq Steps

Shas == Commits \cup {NoSha}

Active == {"Created", "Queued", "Running"}
Outcomes == {"Success", "Fail", "Error", "Cancelled"}
\* "None" stands for a row that has not been inserted.
JobStatuses == {"None"} \cup Active \cup Outcomes
\* A job that was, at some time, allowed to run and was not cancelled.
Entered == {"Queued", "Running", "Success", "Fail", "Error"}

Jobs == [status  : JobStatuses,
         node    : Nodes \cup {NoNode},
         started : BOOLEAN,
         shaIn   : Shas,
         shaOut  : Shas]

Chains == [Steps -> Jobs]

NoJob == [status |-> "None", node |-> NoNode, started |-> FALSE,
          shaIn |-> NoSha, shaOut |-> NoSha]

NoChain == [k \in Steps |-> NoJob]

\* Insert the planned chain: the head is Queued on repo_sha0, the rest wait.
createPlannedJobs ==
  [k \in Steps |->
     IF k = 1 THEN [NoJob EXCEPT !.status = "Queued", !.shaIn = Sha0]
              ELSE [NoJob EXCEPT !.status = "Created"]]

\* Mutant: the status filter of the bulk cancellation is missing.
CancelAllJobs(c) ==
  [k \in Steps |-> IF c[k].status = "None" THEN c[k] ELSE [c[k] EXCEPT !.status = "Cancelled"]]

\* Bulk cancellation; terminal rows and the columns of cancelled rows stay.
CancelActiveJobs(c) ==
  [k \in Steps |->
     IF c[k].status \in Active THEN [c[k] EXCEPT !.status = "Cancelled"]
                               ELSE c[k]]

-----------------------------------------------------------------------------
(* Claiming                                                                *)

\* Step k may be claimed by node n: it is Queued, assigned to no other node,
\* and no other node owns a job of the attempt.
Claimable(c, k, n) ==
  /\ c[k].status = "Queued"
  /\ c[k].node \in {NoNode, n}
  /\ \A i \in Steps : c[i].node \in {NoNode, n}

SetRunning(c, k, n) ==
  [c EXCEPT ![k] = [@ EXCEPT !.status = "Running", !.node = n, !.started = TRUE]]

\* Back to Queued.  A resumed run keeps the node, which holds its workspace.
Requeued(c, k, resumed) ==
  [c EXCEPT ![k] = [@ EXCEPT !.status = "Queued", !.started = FALSE,
                             !.node = IF resumed THEN c[k].node ELSE NoNode]]

-----------------------------------------------------------------------------
(* Completion                                                              *)

\* A gate reports no output commit of its own: its input passes through.
EffectiveSha(job, k, s, sha) ==
  IF s = "Success" /\ sha = NoSha /\ k \in GateSteps THEN job.shaIn ELSE sha

\* Mutant: the output commit is not handed to the successor.
UpdateJobCompletionAlone(c, k, s, sha) ==
  [c EXCEPT ![k].status = s, ![k].shaOut = IF sha = NoSha THEN @ ELSE sha]

\* The outcome of step k, and its output commit handed to the successor.
UpdateJobCompletion(c, k, s, sha) ==
  LET out == IF sha = NoSha THEN c[k].shaOut ELSE sha
  IN  [i \in Steps |->
         CASE i = k                    -> [c[i] EXCEPT !.status = s, !.shaOut = out]
           [] i = k + 1 /\ out # NoSha -> [c[i] EXCEPT !.shaIn = out]
           [] OTHER                    -> c[i]]

\* Every non-terminal job behind step k is cancelled.
cancelRemainingJobs(c, k) ==
  [i \in Steps |->
     IF i > k /\ c[i].status \notin Outcomes THEN [c[i] EXCEPT !.status = "Cancelled"]
                                             ELSE c[i]]

\* Mutant: nothing is promoted.
PromoteNothing(c, k) == c

\* The successor of step k is released if it waits and step k succeeded.
PromoteNext(c, k) ==
  [i \in Steps |->
     IF i = k + 1 /\ c[i].status = "Created" /\ c[k].status = "Success"
     THEN [c[i] EXCEPT !.status = "Queued"] ELSE c[i]]

\* All the job writes of one accepted completion.
CompleteStep(c, k, s, sha) ==
  LET u == UpdateJobCompletion(c, k, s, sha)
  IN  IF s = "Success" THEN PromoteNext(u, k) ELSE cancelRemainingJobs(u, k)

\* The run can be finalised when no job of the attempt is left ...
AllTerminal(c) == \A k \in Steps : c[k].status \in Outcomes

\* ... and the job at the tail decides how the run ended.
RunOutcome(c) ==
  CASE c[N].status = "Success"           -> "Success"
    [] c[N].status \in {"Fail", "Error"} -> "Fail"
    [] OTHER                             -> "Cancelled"

-----------------------------------------------------------------------------
(* Resuming from the failed step                                           *)

\* Step k is the failed step of a resumable chain: everything before it
\* succeeded, nothing behind it was ever started, and one node owns it all.
failedJobSuffix(c, k) ==
  /\ \A i \in 1..(k - 1) : c[i].status = "Success"
  /\ c[k].status \in {"Fail", "Error"}
  /\ c[k].node # NoNode
  /\ c[k].shaIn # NoSha
  /\ \A i \in 1..(k - 1) : c[i].node \in {NoNode, c[k].node}
  /\ \A i \in (k + 1)..N :
       c[i].status = "Cancelled" /\ ~c[i].started /\ c[i].node = NoNode

\* The failed step is queued again on its input and its node; its successors
\* wait again for the commits that completions will hand them.
resumeFailedJobs(c, k) ==
  [i \in Steps |->
     CASE i < k -> c[i]
       [] i = k -> [c[i] EXCEPT !.status = "Queued", !.started = FALSE,
                                !.shaOut = NoSha]
       [] OTHER -> [c[i] EXCEPT !.status = "Created", !.started = FALSE,
                                !.shaIn = NoSha, !.shaOut = NoSha]]

-----------------------------------------------------------------------------
(* What every chain must satisfy                                           *)

\* A step is entered only behind successful steps.
InOrder(c) ==
  \A i, j \in Steps : i < j /\ c[j].status \in Entered => c[i].status = "Success"

\* One node owns all the jobs of an attempt: they share its workspace.
OneOwner(c) ==
  \A i, j \in Steps :
    c[i].node # NoNode /\ c[j].node # NoNode => c[i].node = c[j].node

\* The head runs on repo_sha0, every later step on its predecessor's output.
Linked(c, k) == c[k].shaIn # NoSha /\ c[k].shaIn = IF k = 1 THEN Sha0 ELSE c[k - 1].shaOut
CommitsLinked(c) == \A k \in Steps : c[k].status \in Entered => Linked(c, k)

ChainOK(c) == InOrder(c) /\ OneOwner(c) /\ CommitsLinked(c)

\* What an accepted completion of step k still finds when it commits: the step
\* may have been cancelled meanwhile, but it has no outcome of its own.
Completable(c, k, s, sha) ==
  /\ c[k].status \in {"Queued", "Running", "Cancelled"}
  /\ \A i \in Steps : i < k => c[i].status = "Success"
  /\ Linked(c, k)
  /\ s = "Success" /\ k < N => sha # NoSha

\* What may happen to a chain while someone else holds the lock of its run.
QuietStep(c, d) ==
  \/ d = c
  \/ d = CancelActiveJobs(c)
  \/ \E k \in Steps, n \in Nodes : Claimable(c, k, n) /\ d = SetRunning(c, k, n)
  \/ \E k \in Steps, b \in BOOLEAN : c[k].status = "Running" /\ d = Requeued(c, k, b)

\* Everything that ever happens to a chain.
ChainStep(c, d) ==
  \/ QuietStep(c, d)
  \/ c = NoChain /\ d = createPlannedJobs
  \/ \E k \in Steps, s \in Outcomes, sha \in Shas :
       Completable(c, k, s, sha) /\ d = CompleteStep(c, k, s, sha)
  \/ \E k \in Steps : failedJobSuffix(c, k) /\ d = resumeFailedJobs(c, k)
=============================================================================
