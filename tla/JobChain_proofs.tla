--------------------------- MODULE JobChain_proofs ---------------------------
(***************************************************************************)
(* Lemmas about the operators of JobChain: each maps chains to chains, and *)
(* each keeps the steps of a chain in order and its owner unique.          *)
(***************************************************************************)
EXTENDS JobChain, TLAPS

\* Inserted jobs form a chain.
LEMMA PlannedType == createPlannedJobs \in Chains /\ NoChain \in Chains
BY Zenon, ChainAssumption DEF createPlannedJobs, NoChain, NoJob, Chains, Jobs, JobStatuses,
   Active, Outcomes, Shas

\* Bulk cancellation maps chains to chains.
LEMMA CancelType ==
  ASSUME NEW c \in Chains
  PROVE  CancelActiveJobs(c) \in Chains
BY DEF CancelActiveJobs, Chains, Jobs, JobStatuses, Active, Outcomes

\* Claiming and requeueing map chains to chains.
LEMMA ClaimType ==
  ASSUME NEW c \in Chains, NEW k \in Steps, NEW n \in Nodes, NEW b \in BOOLEAN
  PROVE  /\ SetRunning(c, k, n) \in Chains
         /\ Requeued(c, k, b) \in Chains
BY ZenonT(30) DEF SetRunning, Requeued, Chains, Jobs, JobStatuses, Active, Outcomes

\* The commit a completion records is a commit or empty.
LEMMA EffectiveShaType ==
  ASSUME NEW c \in Chains, NEW k \in Steps, NEW s \in Outcomes, NEW sha \in Shas
  PROVE  EffectiveSha(c[k], k, s, sha) \in Shas
BY DEF EffectiveSha, Chains, Jobs

\* A completion maps chains to chains.
LEMMA CompleteType ==
  ASSUME NEW c \in Chains, NEW k \in Steps, NEW s \in Outcomes, NEW sha \in Shas
  PROVE  CompleteStep(c, k, s, sha) \in Chains
<1> DEFINE u == UpdateJobCompletion(c, k, s, sha)
<1>1. u \in Chains
  BY ZenonT(30), ChainAssumption DEF UpdateJobCompletion, Chains, Jobs, JobStatuses, Outcomes, Shas, Steps
<1>2. PromoteNext(u, k) \in Chains
  BY <1>1 DEF PromoteNext, Chains, Jobs, JobStatuses, Active
<1>3. cancelRemainingJobs(u, k) \in Chains
  BY <1>1 DEF cancelRemainingJobs, Chains, Jobs, JobStatuses, Outcomes
<1> QED
  BY <1>2, <1>3 DEF CompleteStep

\* A resume maps chains to chains.
LEMMA ResumeType ==
  ASSUME NEW c \in Chains, NEW k \in Steps
  PROVE  resumeFailedJobs(c, k) \in Chains
BY ZenonT(30), ChainAssumption DEF resumeFailedJobs, Chains, Jobs, JobStatuses, Active, Shas, Steps

\* The outcome of a finished chain is an outcome of a run.
LEMMA OutcomeType ==
  ASSUME NEW c \in Chains
  PROVE  RunOutcome(c) \in {"Success", "Fail", "Cancelled"}
BY DEF RunOutcome

-----------------------------------------------------------------------------
\* A planned chain, and one that was never inserted, are well linked.
LEMMA PlannedOK == ChainOK(createPlannedJobs) /\ ChainOK(NoChain)
<1>1. /\ \A k \in Steps : NoChain[k] = NoJob
      /\ \A k \in Steps : createPlannedJobs[k].node = NoNode
      /\ \A k \in Steps : k # 1 => createPlannedJobs[k].status = "Created"
      /\ 1 \in Steps => createPlannedJobs[1].shaIn = Sha0
  BY DEF NoChain, createPlannedJobs, NoJob
<1>2. \A k \in Steps : k # 1 => createPlannedJobs[k].status \notin Entered
  BY <1>1 DEF Entered
<1>3. \A k \in Steps : NoChain[k].status \notin Entered /\ NoChain[k].node = NoNode
  BY <1>1 DEF NoJob, Entered
<1>4. ChainOK(NoChain)
  BY <1>3 DEF ChainOK, InOrder, OneOwner, CommitsLinked
<1>5. InOrder(createPlannedJobs)
  BY <1>2 DEF InOrder, Steps
<1>6. OneOwner(createPlannedJobs)
  BY <1>1 DEF OneOwner
<1>7. CommitsLinked(createPlannedJobs)
  BY <1>1, <1>2, ChainAssumption DEF CommitsLinked, Linked, Steps
<1> QED
  BY <1>4, <1>5, <1>6, <1>7 DEF ChainOK

\* A step taken outside the run lock changes neither the commits nor the jobs
\* that have an outcome.
LEMMA QuietFacts ==
  ASSUME NEW c \in Chains, NEW d, QuietStep(c, d), NEW k \in Steps
  PROVE  /\ d \in Chains
         /\ d[k].shaIn = c[k].shaIn /\ d[k].shaOut = c[k].shaOut
         /\ c[k].status \in Outcomes => d[k].status = c[k].status
         /\ d[k].status \in Entered => c[k].status \in Entered
         /\ c[k].status \in {"Queued", "Running"} =>
              d[k].status \in {"Queued", "Running", "Cancelled"}
         /\ d[k].status = "None" <=> c[k].status = "None"
<1>1. CASE d = c
  BY <1>1 DEF Outcomes
<1>2. CASE d = CancelActiveJobs(c)
  BY <1>2, CancelType DEF CancelActiveJobs, Chains, Jobs, Active, Outcomes, Entered
<1>3. CASE \E i \in Steps, n \in Nodes : Claimable(c, i, n) /\ d = SetRunning(c, i, n)
  <2>1. PICK i \in Steps, n \in Nodes : Claimable(c, i, n) /\ d = SetRunning(c, i, n)
    BY <1>3
  <2>2. d \in Chains
    BY Zenon, <2>1, ClaimType
  <2> QED
    BY <2>1, <2>2 DEF Claimable, SetRunning, Chains, Jobs, Outcomes, Entered
<1>4. CASE \E i \in Steps, b \in BOOLEAN : c[i].status = "Running" /\ d = Requeued(c, i, b)
  <2>1. PICK i \in Steps, b \in BOOLEAN : c[i].status = "Running" /\ d = Requeued(c, i, b)
    BY <1>4
  <2>2. d \in Chains
    BY ZenonT(30), <2>1 DEF Requeued, Chains, Jobs, JobStatuses, Active, Outcomes
  <2> QED
    BY <2>1, <2>2 DEF Requeued, Chains, Jobs, Outcomes, Entered
<1> QED
  BY <1>1, <1>2, <1>3, <1>4 DEF QuietStep

\* A step taken outside the run lock keeps the chain well linked.
LEMMA QuietOK ==
  ASSUME NEW c \in Chains, NEW d, ChainOK(c), QuietStep(c, d)
  PROVE  ChainOK(d)
<1>1. InOrder(d)
  <2> SUFFICES ASSUME NEW i \in Steps, NEW j \in Steps, i < j, d[j].status \in Entered
               PROVE  d[i].status = "Success"
    BY DEF InOrder
  <2>1. c[j].status \in Entered
    BY QuietFacts
  <2>2. c[i].status = "Success"
    BY <2>1 DEF ChainOK, InOrder
  <2> QED
    BY <2>2, QuietFacts DEF Outcomes
<1>2. CommitsLinked(d)
  <2> SUFFICES ASSUME NEW k \in Steps, d[k].status \in Entered
               PROVE  Linked(d, k)
    BY DEF CommitsLinked
  <2>1. Linked(c, k)
    BY QuietFacts DEF ChainOK, CommitsLinked
  <2>2. k = 1 \/ k - 1 \in Steps
    BY ChainAssumption DEF Steps
  <2> QED
    BY <2>1, <2>2, QuietFacts DEF Linked
<1>3. OneOwner(d)
  <2>1. CASE d = c \/ d = CancelActiveJobs(c)
    BY <2>1 DEF ChainOK, OneOwner, CancelActiveJobs, Chains, Jobs
  <2>2. CASE \E k \in Steps, n \in Nodes : Claimable(c, k, n) /\ d = SetRunning(c, k, n)
    BY <2>2 DEF ChainOK, OneOwner, Claimable, SetRunning, Chains, Jobs
  <2>3. CASE \E k \in Steps, b \in BOOLEAN : c[k].status = "Running" /\ d = Requeued(c, k, b)
    BY <2>3 DEF ChainOK, OneOwner, Requeued, Chains, Jobs
  <2> QED
    BY <2>1, <2>2, <2>3 DEF QuietStep
<1> QED
  BY <1>1, <1>2, <1>3 DEF ChainOK

\* What an accepted completion of step k does to each job.
LEMMA CompleteFacts ==
  ASSUME NEW c \in Chains, ChainOK(c), NEW k \in Steps, NEW s \in Outcomes, NEW sha \in Shas,
         Completable(c, k, s, sha), NEW i \in Steps
  PROVE  LET d == CompleteStep(c, k, s, sha)
         IN  /\ d[i].node = c[i].node
             /\ i < k => d[i] = c[i]
             /\ i = k => /\ d[i].status = s /\ d[i].shaIn = c[i].shaIn
                         /\ sha # NoSha => d[i].shaOut = sha
             /\ i > k => /\ d[i].shaOut = c[i].shaOut
                         /\ d[i].status \in {c[i].status, "Cancelled", "Queued"}
                         /\ d[i].status = "Queued" =>
                              i = k + 1 /\ s = "Success" /\ sha # NoSha /\ d[i].shaIn = sha
                         /\ c[i].status \in Outcomes => d[i].status = c[i].status
             /\ c[i].status \notin Entered \/ i <= k
<1> DEFINE u == UpdateJobCompletion(c, k, s, sha)
           d == CompleteStep(c, k, s, sha)
<1>1. c[i].status \notin Entered \/ i <= k
  BY DEF ChainOK, InOrder, Completable, Steps
<1>2. /\ u[i].node = c[i].node
      /\ i # k => u[i].status = c[i].status /\ u[i].shaOut = c[i].shaOut
      /\ i < k => u[i] = c[i]
      /\ i = k => /\ u[i].status = s /\ u[i].shaIn = c[i].shaIn
                  /\ sha # NoSha => u[i].shaOut = sha
      /\ i = k + 1 /\ sha # NoSha => u[i].shaIn = sha
  BY DEF UpdateJobCompletion, Chains, Jobs, Steps
<1>u. u \in Chains
  BY ZenonT(30), ChainAssumption DEF UpdateJobCompletion, Chains, Jobs, JobStatuses, Outcomes, Shas, Steps
<1>3. CASE s = "Success"
  <2>1. d = PromoteNext(u, k)
    BY <1>3 DEF CompleteStep
  <2> HIDE DEF u
  <2>2. i # k + 1 => d[i] = u[i]
    BY <2>1 DEF PromoteNext
  <2>3. i = k + 1 => /\ d[i].node = u[i].node
                     /\ d[i].shaIn = u[i].shaIn /\ d[i].shaOut = u[i].shaOut
                     /\ d[i].status \in {u[i].status, "Queued"}
                     /\ u[i].status \in Outcomes => d[i].status = u[i].status
    BY <1>u, <2>1 DEF PromoteNext, Outcomes, Chains, Jobs
  <2>4. i > k => c[i].status # "Queued"
    BY <1>1 DEF Steps, Entered
  <2>5. i = k + 1 => sha # NoSha
    BY <1>3, ChainAssumption DEF Completable, Steps
  <2> QED
    BY <1>1, <1>2, <1>3, <2>2, <2>3, <2>4, <2>5 DEF Steps
<1>4. CASE s # "Success"
  <2>1. d = cancelRemainingJobs(u, k)
    BY <1>4 DEF CompleteStep
  <2> HIDE DEF u
  <2>2. i <= k => d[i] = u[i]
    BY <2>1 DEF cancelRemainingJobs, Steps
  <2>3. i > k => /\ d[i].node = u[i].node
                 /\ d[i].shaIn = u[i].shaIn /\ d[i].shaOut = u[i].shaOut
                 /\ d[i].status \in {u[i].status, "Cancelled"}
                 /\ u[i].status \in Outcomes => d[i].status = u[i].status
    BY <1>u, <2>1 DEF cancelRemainingJobs, Outcomes, Chains, Jobs
  <2>4. i > k => c[i].status # "Queued"
    BY <1>1 DEF Steps, Entered
  <2> QED
    BY <1>1, <1>2, <1>4, <2>2, <2>3, <2>4 DEF Steps
<1> QED
  BY <1>3, <1>4

\* An accepted completion keeps the chain well linked.
LEMMA CompleteOK ==
  ASSUME NEW c \in Chains, ChainOK(c), NEW k \in Steps, NEW s \in Outcomes, NEW sha \in Shas,
         Completable(c, k, s, sha)
  PROVE  ChainOK(CompleteStep(c, k, s, sha))
<1> DEFINE d == CompleteStep(c, k, s, sha)
<1> HIDE DEF d
<1>1. InOrder(d)
  <2> SUFFICES ASSUME NEW i \in Steps, NEW j \in Steps, i < j, d[j].status \in Entered
               PROVE  d[i].status = "Success"
    BY DEF InOrder
  <2>1. CASE j <= k
    <3>1. i < k /\ d[i] = c[i]
      BY <2>1, CompleteFacts DEF d, Steps
    <3> QED
      BY <3>1 DEF Completable
  <2>2. CASE j > k
    <3>1. c[j].status \notin Entered
      BY <2>2, CompleteFacts DEF Steps
    <3>2. d[j].status = "Queued"
      BY <2>2, <3>1, CompleteFacts DEF d, Entered
    <3>3. j = k + 1 /\ s = "Success"
      BY <2>2, <3>2, CompleteFacts DEF d
    <3>4. CASE i = k
      BY <3>3, <3>4, CompleteFacts DEF d
    <3>5. CASE i < k
      <4>1. d[i] = c[i]
        BY <3>5, CompleteFacts DEF d
      <4> QED
        BY <3>5, <4>1 DEF Completable
    <3> QED
      BY <3>3, <3>4, <3>5 DEF Steps
  <2> QED
    BY <2>1, <2>2 DEF Steps
<1>2. OneOwner(d)
  BY CompleteFacts DEF d, ChainOK, OneOwner
<1>3. CommitsLinked(d)
  <2> SUFFICES ASSUME NEW j \in Steps, d[j].status \in Entered
               PROVE  Linked(d, j)
    BY DEF CommitsLinked
  <2>1. j = 1 \/ j - 1 \in Steps
    BY ChainAssumption DEF Steps
  <2>2. CASE j < k
    <3>1. d[j] = c[j] /\ (j # 1 => d[j - 1] = c[j - 1])
      BY <2>1, <2>2, CompleteFacts DEF d, Steps
    <3>2. Linked(c, j)
      BY <2>2, <3>1 DEF ChainOK, CommitsLinked
    <3> QED
      BY <3>1, <3>2 DEF Linked
  <2>3. CASE j = k
    <3>1. d[j].shaIn = c[j].shaIn /\ (j # 1 => d[j - 1] = c[j - 1])
      BY <2>1, <2>3, CompleteFacts DEF d, Steps
    <3> QED
      BY <2>3, <3>1 DEF Completable, Linked
  <2>4. CASE j > k
    <3>1. c[j].status \notin Entered
      BY <2>4, CompleteFacts DEF Steps
    <3>2. d[j].status = "Queued"
      BY <2>4, <3>1, CompleteFacts DEF d, Entered
    <3>3. j = k + 1 /\ sha # NoSha /\ d[j].shaIn = sha
      BY <2>4, <3>2, CompleteFacts DEF d
    <3>4. d[k].shaOut = sha
      BY <3>3, CompleteFacts DEF d
    <3>5. j # 1 /\ j - 1 = k
      BY <3>3 DEF Steps
    <3> QED
      BY <3>3, <3>4, <3>5 DEF Linked
  <2> QED
    BY <2>2, <2>3, <2>4 DEF Steps
<1> QED
  BY <1>1, <1>2, <1>3 DEF ChainOK, d

\* A resume keeps the chain well linked.
LEMMA ResumeOK ==
  ASSUME NEW c \in Chains, ChainOK(c), NEW k \in Steps, failedJobSuffix(c, k)
  PROVE  ChainOK(resumeFailedJobs(c, k))
<1> DEFINE d == resumeFailedJobs(c, k)
<1>1. \A i \in Steps :
        /\ d[i].node = c[i].node
        /\ i < k => d[i] = c[i] /\ c[i].status = "Success"
        /\ i = k => d[i].status = "Queued" /\ d[i].shaIn = c[i].shaIn
        /\ i > k => d[i].status = "Created"
  BY DEF resumeFailedJobs, failedJobSuffix, Chains, Jobs, Steps
<1> HIDE DEF d
<1>2. \A i \in Steps : d[i].status \in Entered => i <= k
  BY <1>1 DEF Entered, Steps
<1>3. InOrder(d)
  BY <1>1, <1>2 DEF InOrder, Steps
<1>4. OneOwner(d)
  BY <1>1 DEF OneOwner, ChainOK
<1>5. CommitsLinked(d)
  <2> SUFFICES ASSUME NEW j \in Steps, d[j].status \in Entered
               PROVE  Linked(d, j)
    BY DEF CommitsLinked
  <2>1. j = 1 \/ (j - 1 \in Steps /\ j - 1 < k)
    BY <1>2, ChainAssumption DEF Steps
  <2>2. d[j].shaIn = c[j].shaIn /\ (j # 1 => d[j - 1] = c[j - 1])
    BY <1>1, <1>2, <2>1 DEF Steps
  <2>3. c[j].status \in Entered
    BY <1>1, <1>2 DEF Entered, failedJobSuffix, Steps
  <2>4. Linked(c, j)
    BY <2>3 DEF ChainOK, CommitsLinked
  <2> QED
    BY <2>2, <2>4 DEF Linked
<1> QED
  BY <1>3, <1>4, <1>5 DEF ChainOK, d

\* Everything that happens to a chain keeps it a well-linked chain.
LEMMA ChainStepOK ==
  ASSUME NEW c \in Chains, ChainOK(c), NEW d, ChainStep(c, d)
  PROVE  ChainOK(d)
BY QuietOK, PlannedOK, CompleteOK, ResumeOK DEF ChainStep

\* A successful job stays successful and keeps its output commit.
LEMMA SuccessKept ==
  ASSUME NEW c \in Chains, ChainOK(c), NEW d, ChainStep(c, d),
         NEW i \in Steps, c[i].status = "Success"
  PROVE  d[i].status = "Success" /\ d[i].shaOut = c[i].shaOut
<1>1. CASE QuietStep(c, d)
  BY <1>1, QuietFacts DEF Outcomes
<1>2. CASE c = NoChain
  BY <1>2 DEF NoChain, NoJob
<1>3. ASSUME NEW k \in Steps, NEW s \in Outcomes, NEW sha \in Shas,
             Completable(c, k, s, sha), d = CompleteStep(c, k, s, sha)
      PROVE  d[i].status = "Success" /\ d[i].shaOut = c[i].shaOut
  <2>1. i < k
    BY <1>3, CompleteFacts DEF Completable, Entered, Steps
  <2> QED
    BY <1>3, <2>1, CompleteFacts
<1>4. ASSUME NEW k \in Steps, failedJobSuffix(c, k), d = resumeFailedJobs(c, k)
      PROVE  d[i].status = "Success" /\ d[i].shaOut = c[i].shaOut
  <2>1. i < k
    <3>1. i # k /\ i \notin (k + 1)..N
      BY <1>4 DEF failedJobSuffix
    <3> QED
      BY <3>1, ChainAssumption DEF Steps
  <2>2. resumeFailedJobs(c, k)[i] = c[i]
    BY <2>1 DEF resumeFailedJobs, Steps
  <2> QED
    BY <1>4, <2>2
<1> QED
  BY <1>1, <1>2, <1>3, <1>4 DEF ChainStep

\* A completion that was accepted stays applicable under steps outside the lock.
LEMMA CompletableStable ==
  ASSUME NEW c \in Chains, NEW d, QuietStep(c, d), NEW k \in Steps, NEW s \in Outcomes,
         NEW sha \in Shas, Completable(c, k, s, sha)
  PROVE  Completable(d, k, s, sha)
<1>1. d[k].status \in {"Queued", "Running", "Cancelled"}
  BY QuietFacts DEF Completable, Outcomes
<1>2. \A i \in Steps : i < k => d[i].status = "Success"
  BY QuietFacts DEF Completable, Outcomes
<1>3. k = 1 \/ k - 1 \in Steps
  BY ChainAssumption DEF Steps
<1>4. Linked(d, k)
  BY <1>3, QuietFacts DEF Completable, Linked
<1> QED
  BY <1>1, <1>2, <1>4 DEF Completable

\* Bulk cancellation settles an inserted chain and leaves a missing one alone.
LEMMA CancelSettles ==
  ASSUME NEW c \in Chains
  PROVE  /\ (\A k \in Steps : c[k].status # "None") => AllTerminal(CancelActiveJobs(c))
         /\ CancelActiveJobs(NoChain) = NoChain
BY DEF CancelActiveJobs, AllTerminal, Chains, Jobs, JobStatuses, Active, Outcomes, NoChain, NoJob

\* A settled chain stays settled until it is resumed.
LEMMA SettledKept ==
  ASSUME NEW c \in Chains, ChainOK(c), AllTerminal(c), NEW d, ChainStep(c, d)
  PROVE  AllTerminal(d) \/ \E k \in Steps : failedJobSuffix(c, k) /\ d = resumeFailedJobs(c, k)
<1>1. CASE QuietStep(c, d)
  BY <1>1, QuietFacts DEF AllTerminal
<1>2. CASE c = NoChain
  BY Zenon, <1>2, ChainAssumption DEF NoChain, NoJob, AllTerminal, Outcomes, Steps
<1>3. ASSUME NEW k \in Steps, NEW s \in Outcomes, NEW sha \in Shas,
             Completable(c, k, s, sha), d = CompleteStep(c, k, s, sha)
      PROVE  AllTerminal(d)
  BY <1>3, CompleteFacts DEF AllTerminal, Steps
<1> QED
  BY <1>1, <1>2, <1>3 DEF ChainStep

\* The jobs of an inserted chain stay.
LEMMA InsertedKept ==
  ASSUME NEW c \in Chains, ChainOK(c), NEW d, ChainStep(c, d),
         \A k \in Steps : c[k].status # "None"
  PROVE  \A k \in Steps : d[k].status # "None"
<1>1. CASE QuietStep(c, d)
  BY <1>1, QuietFacts
<1>2. CASE c = NoChain
  BY Zenon, <1>2, ChainAssumption DEF NoChain, NoJob, Steps
<1>3. ASSUME NEW k \in Steps, NEW s \in Outcomes, NEW sha \in Shas,
             Completable(c, k, s, sha), d = CompleteStep(c, k, s, sha), NEW i \in Steps
      PROVE  d[i].status # "None"
  BY <1>3, CompleteFacts DEF Steps, Outcomes
<1>4. ASSUME NEW k \in Steps, failedJobSuffix(c, k), d = resumeFailedJobs(c, k), NEW i \in Steps
      PROVE  d[i].status # "None"
  BY Zenon, <1>4 DEF resumeFailedJobs, Steps, Chains, Jobs
<1> QED
  BY <1>1, <1>2, <1>3, <1>4 DEF ChainStep
=============================================================================
