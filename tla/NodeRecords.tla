----------------------------- MODULE NodeRecords -----------------------------
(***************************************************************************)
(* What the server keeps about a node and several callers change at once:  *)
(* the drain flag with its revision, changed by operators and by the       *)
(* host's maintenance commands, and the daemon log lines, appended by      *)
(* uploads that each trim the table when they are done.                    *)
(***************************************************************************)
EXTENDS Naturals, Sequences, FiniteSets

CONSTANTS Maintainers,   \* maintenance commands of the host (external)
          MaxDecisions,  \* drains and undrains by an operator
          MaxRevision,   \* no maintenance command starts past this revision
          Uploads,       \* daemon log requests: request -> its lines
          KeepCount      \* nodeDaemonLogKeepCount

ASSUME RecordsAssumption ==
  /\ MaxDecisions \in Nat /\ MaxRevision \in Nat /\ KeepCount \in Nat
  /\ \A u \in DOMAIN Uploads : \A i \in 1..Len(Uploads[u]) :
       Uploads[u][i] \in {"line", "blank", "huge"}

VARIABLES
  drained, revision,   \* nodes.drained, nodes.drain_revision
  wish,                \* the operators' last decision: "none", "drain" or "undrain"
  decisions,
  mnt,                 \* maintainer -> [pc, rev]: the revision it holds
  logs,                \* node_daemon_logs: the ids of the rows kept
  lastID,              \* ids given out
  up                   \* request -> [pc, next]: the line it inserts next

recVars == <<drained, revision, wish, decisions, mnt, logs, lastID, up>>

RecordsInit ==
  /\ drained = FALSE /\ revision = 0 /\ wish = "none" /\ decisions = 0
  /\ mnt = [m \in Maintainers |-> [pc |-> "idle", rev |-> 0]]
  /\ logs = {} /\ lastID = 0
  /\ up = [u \in DOMAIN Uploads |-> [pc |-> "insert", next |-> 1]]

logVars == <<logs, lastID, up>>
drainVars == <<drained, revision, wish, decisions, mnt>>

(* -------------------------------- drain -------------------------------- *)

\* Mutant: setting the state the node is already in is skipped.
UpdateNodeDrainedOnce(drain, expected) ==
  /\ expected = {} \/ (expected = {revision} /\ drained # drain)
  /\ drained' = drain
  /\ revision' = IF drained # drain THEN revision + 1 ELSE revision

\* UpdateNodeDrained: unconditional, or only on the revision the caller saw
\* and only as a change; every update advances the revision.
UpdateNodeDrained(drain, expected) ==
  /\ expected = {} \/ (expected = {revision} /\ drained # drain)
  /\ drained' = drain
  /\ revision' = revision + 1

\* setNodeDrainHandler without expected_revision: an operator's decision.
setNodeDrain(drain) ==
  /\ decisions < MaxDecisions
  /\ decisions' = decisions + 1
  /\ UpdateNodeDrained(drain, {})
  /\ wish' = IF drain THEN "drain" ELSE "undrain"
  /\ UNCHANGED <<mnt, logVars>>

\* A maintenance command looks at the node; a node that is drained already
\* is worked on without owning the drain.
MaintainerReads(m) ==
  /\ mnt[m].pc = "idle" /\ revision < MaxRevision
  /\ mnt' = [mnt EXCEPT ![m] = [pc |-> IF drained THEN "guest" ELSE "drain", rev |-> revision]]
  /\ UNCHANGED <<drained, revision, wish, decisions, logVars>>

\* It drains the node on the revision it saw: 204 with the new revision, or 409.
MaintainerDrains(m) ==
  /\ mnt[m].pc = "drain"
  /\ \/ /\ UpdateNodeDrained(TRUE, {mnt[m].rev})
        /\ mnt' = [mnt EXCEPT ![m] = [pc |-> "owner", rev |-> revision']]
     \/ /\ ~(mnt[m].rev = revision /\ ~drained)
        /\ mnt' = [mnt EXCEPT ![m].pc = "idle"]
        /\ UNCHANGED <<drained, revision>>
  /\ UNCHANGED <<wish, decisions, logVars>>

\* The drain was made but its answer lost, or the work failed: the command
\* ends and leaves the node drained.
MaintainerGivesUp(m) ==
  /\ mnt[m].pc \in {"owner", "guest"}
  /\ mnt' = [mnt EXCEPT ![m].pc = "idle"]
  /\ UNCHANGED <<drained, revision, wish, decisions, logVars>>

\* It restores admission on the revision its drain returned, or meets 409.
MaintainerRestores(m) ==
  /\ mnt[m].pc = "owner"
  /\ mnt' = [mnt EXCEPT ![m].pc = "idle"]
  /\ \/ UpdateNodeDrained(FALSE, {mnt[m].rev})
     \/ /\ ~(mnt[m].rev = revision /\ drained)
        /\ UNCHANGED <<drained, revision>>
  /\ UNCHANGED <<wish, decisions, logVars>>

(* ----------------------------- daemon logs ----------------------------- *)

\* createNodeDaemonLogsHandler inserts the lines one by one; a blank line is
\* skipped, and one that is too long ends the request, its predecessors kept.
CreateNodeDaemonLog(u) ==
  /\ up[u].pc = "insert" /\ up[u].next <= Len(Uploads[u])
  /\ LET kind == Uploads[u][up[u].next]
     IN  /\ logs' = IF kind = "line" THEN logs \cup {lastID + 1} ELSE logs
         /\ lastID' = IF kind = "line" THEN lastID + 1 ELSE lastID
         /\ up' = [up EXCEPT ![u] = IF kind = "huge" THEN [pc |-> "refused", next |-> @.next]
                                    ELSE [pc |-> "insert", next |-> @.next + 1]]
  /\ UNCHANGED drainVars

\* TrimNodeDaemonLogs: all but the newest KeepCount rows go; a failed trim is
\* only logged.
TrimNodeDaemonLogs(u) ==
  /\ up[u].pc = "insert" /\ up[u].next > Len(Uploads[u])
  /\ \/ logs' = {i \in logs : Cardinality({j \in logs : j > i}) < KeepCount}
     \/ UNCHANGED logs
  /\ up' = [up EXCEPT ![u].pc = "done"]
  /\ UNCHANGED <<drainVars, lastID>>

DrainNext ==
  \/ \E drain \in BOOLEAN : setNodeDrain(drain)
  \/ \E m \in Maintainers : MaintainerReads(m)
  \/ \E m \in Maintainers : MaintainerDrains(m)
  \/ \E m \in Maintainers : MaintainerGivesUp(m)
  \/ \E m \in Maintainers : MaintainerRestores(m)

DaemonLogNext ==
  \/ \E u \in DOMAIN Uploads : CreateNodeDaemonLog(u)
  \/ \E u \in DOMAIN Uploads : TrimNodeDaemonLogs(u)

RecordsNext == DrainNext \/ DaemonLogNext

RecordsSpec == RecordsInit /\ [][RecordsNext]_recVars

(* ------------------------------ properties ----------------------------- *)

\* A maintenance command never lets work back onto a node an operator has
\* drained since ("Conditional maintenance releases cannot override a later
\* operator decision"): while the operators' last word is drain, the node
\* stays drained, however the commands and the operator interleave.
OperatorDrainKept ==
  wish = "drain" => drained

\* Whatever order the uploads insert and trim in, the rows kept are the
\* newest ones: no line is dropped while an older one stays.
NewestLogsKept ==
  \A i \in logs : \A j \in i..lastID : j \in logs

\* The records of a node keep what counts most: the operators' last decision and
\* the newest lines.
RecordsKept ==
  /\ OperatorDrainKept
  /\ NewestLogsKept
=============================================================================
