------------------------------ MODULE RunFollow ------------------------------
(***************************************************************************)
(* `run --follow`: a poll of the run's status is authoritative; for every  *)
(* job it shows as running, a goroutine follows the job's log stream for a *)
(* preview.  Trackers are registered by job, goroutines end on their own,  *)
(* and the end of a goroutine removes the tracker of its job, whichever    *)
(* goroutine that belongs to by then.                                      *)
(***************************************************************************)
EXTENDS Integers, FiniteSets

CONSTANTS FollowJobs,     \* jobs of the followed run
          PollRetries,    \* failed polls in a row that are forgiven; -1: all
          MaxTrackers     \* bound on goroutines started per job

ASSUME FollowAssumption == PollRetries \in Int /\ MaxTrackers \in Nat

VARIABLES status,         \* of the jobs, on the server
          runOver,        \* the run has ended
          trackers,       \* job -> registered goroutine, 0: none
          cancelled,      \* goroutines whose context was cancelled
          going,          \* goroutines that have not removed their tracker yet
          started,        \* goroutines started per job
          previews,       \* jobs with preview lines
          failures,       \* consecutive failed polls
          result          \* "", "state" or "error": what the coordinator sent

followVars == <<status, runOver, trackers, cancelled, going, started, previews, failures, result>>

FollowInit ==
  /\ status = [j \in FollowJobs |-> "Created"] /\ runOver = FALSE
  /\ trackers = [j \in FollowJobs |-> 0]
  /\ cancelled = {} /\ going = {} /\ started = [j \in FollowJobs |-> 0]
  /\ previews = {} /\ failures = 0 /\ result = ""

\* The server: jobs run, end, and run again when the run is retried; the jobs
\* a run never came to end with it.
JobMoves(j) ==
  /\ ~runOver
  /\ status' = [status EXCEPT ![j] = IF @ = "Running" THEN "Ended" ELSE "Running"]
  /\ UNCHANGED <<runOver, trackers, cancelled, going, started, previews, failures, result>>
RunEnds ==
  /\ ~runOver /\ \A j \in FollowJobs : status[j] # "Running"
  /\ runOver' = TRUE
  /\ status' = [j \in FollowJobs |-> "Ended"]
  /\ UNCHANGED <<trackers, cancelled, going, started, previews, failures, result>>

-----------------------------------------------------------------------------
Stop(js) == {<<j, trackers[j]>> : j \in {k \in js : trackers[k] # 0}}
Start(js) == {j \in js : trackers[j] = 0 /\ started[j] < MaxTrackers}

\* Mutant: a running job gets a new goroutine with every poll.
reconcileAlwaysStarts(shown) ==
  LET starts == {j \in FollowJobs : shown[j] = "Running" /\ started[j] < MaxTrackers}
      stops  == {j \in FollowJobs : shown[j] # "Running"}
  IN  /\ started' = [j \in FollowJobs |-> started[j] + IF j \in starts THEN 1 ELSE 0]
      /\ trackers' = [j \in FollowJobs |-> IF j \in starts THEN started'[j]
                                           ELSE IF j \in stops THEN 0 ELSE trackers[j]]
      /\ going' = going \cup {<<j, started'[j]>> : j \in starts}
      /\ cancelled' = cancelled \cup Stop(stops)
      /\ previews' = previews \ stops

\* Running jobs get a goroutine unless one is registered; the trackers and the
\* previews of the others are removed.
reconcileTrackers(shown) ==
  LET starts == Start({j \in FollowJobs : shown[j] = "Running"})
      stops  == {j \in FollowJobs : shown[j] # "Running"}
  IN  /\ started' = [j \in FollowJobs |-> started[j] + IF j \in starts THEN 1 ELSE 0]
      /\ trackers' = [j \in FollowJobs |-> IF j \in starts THEN started'[j]
                                           ELSE IF j \in stops THEN 0 ELSE trackers[j]]
      /\ going' = going \cup {<<j, started'[j]>> : j \in starts}
      /\ cancelled' = cancelled \cup Stop(stops)
      /\ previews' = previews \ stops

\* The state of a run that is over; no state while one of its jobs is not.
DeriveRunStateFromReport(shown, over) ==
  IF over /\ \A j \in FollowJobs : shown[j] \notin {"Created", "Running"} THEN "state" ELSE ""

\* A poll that succeeds; it ends the command once the run is over.
FetchOK ==
  /\ result = ""
  /\ failures' = 0
  /\ reconcileTrackers(status)
  /\ result' = DeriveRunStateFromReport(status, runOver)
  /\ UNCHANGED <<status, runOver>>

\* A poll that fails is forgiven, or ends the command and stops all trackers.
FetchFails ==
  /\ result = ""
  /\ IF PollRetries >= 0 /\ failures >= PollRetries
     THEN /\ result' = "error" /\ UNCHANGED failures
          /\ cancelled' = cancelled \cup Stop(FollowJobs)
          /\ trackers' = [j \in FollowJobs |-> 0]
     ELSE /\ failures' = failures + (IF PollRetries >= 0 THEN 1 ELSE 0)
          /\ UNCHANGED <<result, cancelled, trackers>>
  /\ UNCHANGED <<status, runOver, going, started, previews>>

\* The user quits: the coordinator stops all trackers behind it.
CancelFollow ==
  /\ result = "" /\ result' = "error"
  /\ cancelled' = cancelled \cup Stop(FollowJobs)
  /\ trackers' = [j \in FollowJobs |-> 0]
  /\ UNCHANGED <<status, runOver, going, started, previews, failures>>

\* A log line reaches the preview, even if the tracker was just stopped.
appendPreview(g) ==
  /\ g \in going /\ result = ""
  /\ previews' = previews \cup {g[1]}
  /\ UNCHANGED <<status, runOver, trackers, cancelled, going, started, failures, result>>

\* The goroutine ends: cancelled, a done frame, or an error of the stream.  It
\* stops the tracker its job has now.
TrackerEnds(g) ==
  /\ g \in going
  /\ going' = going \ {g}
  /\ trackers' = [trackers EXCEPT ![g[1]] = 0]
  /\ cancelled' = cancelled \cup Stop({g[1]})
  /\ UNCHANGED <<status, runOver, started, previews, failures, result>>

FollowNext ==
  \/ \E j \in FollowJobs : JobMoves(j)
  \/ RunEnds \/ FetchOK \/ FetchFails \/ CancelFollow
  \/ \E g \in going : appendPreview(g) \/ TrackerEnds(g)

\* The ticker polls; a goroutine whose context was cancelled ends.
FollowFairness ==
  /\ WF_followVars(FetchOK \/ FetchFails)
  /\ \A j \in FollowJobs, n \in 1..MaxTrackers :
       WF_followVars(<<j, n>> \in cancelled /\ TrackerEnds(<<j, n>>))

FollowSpec == FollowInit /\ [][FollowNext]_followVars /\ FollowFairness

-----------------------------------------------------------------------------
(* Properties                                                              *)

\* A registered tracker is the job's only goroutine that still follows the
\* stream: all others of the job are cancelled or gone.
OneStreamPerJob ==
  \A g \in going : g \notin cancelled => trackers[g[1]] = g[2]

\* The command ends once the run is over or the server does not answer any
\* more, and only with a state if the run is over.
FollowEnds ==
  /\ (PollRetries >= 0 /\ (runOver \/ [](failures > 0))) ~> (result # "")
  /\ [](result = "state" => runOver)

\* When the command is over, every goroutine it started ends.
NoTrackerLeft == (result # "") ~> (going = {})
=============================================================================
