---------------------------- MODULE GitLabTokens ----------------------------
(***************************************************************************)
(* Ephemeral GitLab tokens: the server keeps a token in memory under its   *)
(* hash, with the runs that use it, and each run's row carries the hash as *)
(* a marker.  Launches and restarts register tokens before their           *)
(* transaction, cancels and the end of a wave release them after theirs.   *)
(* One wave is modelled.                                                   *)
(***************************************************************************)
EXTENDS Naturals, FiniteSets

CONSTANTS TokenRuns,    \* the runs of the wave
          Hashes,       \* hashes of tokens callers send
          TokenCallers, \* concurrent requests
          MaxRestarts,  \* restart requests
          MaxReboots    \* restarts of the server process

ASSUME TokensAssumption == MaxRestarts \in Nat /\ MaxReboots \in Nat

VARIABLES
  rows,     \* run -> [status, marker, attempt]: its row; marker "" is none
  ended,    \* the wave: "none", "Started", "Finished" or "Cancelled"
  entries,  \* hash -> runs that hold it; an entry without runs is deleted
  runHash,  \* run -> hash it holds, or ""
  asks,     \* caller -> the handler it is in
  restarts, reboots

tokVars == <<rows, ended, entries, runHash, asks, restarts, reboots>>

NoAsk == [pc |-> "idle"]
Settled == {"Success", "Fail", "Cancelled"}

(* ------------------------------ the registry ---------------------------- *)

\* Register: a run that held another hash gives it up.
Register(h, rs) ==
  /\ entries' = [k \in Hashes |-> IF k = h THEN entries[k] \cup rs ELSE entries[k] \ rs]
  /\ runHash' = [r \in TokenRuns |-> IF r \in rs THEN h ELSE runHash[r]]

\* ReleaseRuns and releaseRunLocked.
ReleaseRuns(rs) ==
  /\ entries' = [k \in Hashes |-> entries[k] \ {r \in rs : runHash[r] = k}]
  /\ runHash' = [r \in TokenRuns |-> IF r \in rs THEN "" ELSE runHash[r]]

RegistryUnchanged == UNCHANGED <<entries, runHash>>

\* Token, as authForMetadata looks it up for a snapshot of the run.
authForMetadata(r) == rows[r].marker = "" \/ entries[rows[r].marker] # {}

(* ------------------------------- handlers ------------------------------- *)

Ask(c, x) == asks' = [asks EXCEPT ![c] = x]
Free(c) == asks[c].pc = "idle"

\* A launch with or without a token, up to its transaction.
LaunchRegisters(c, h) ==
  /\ Free(c) /\ ended = "none" /\ ~\E k \in TokenCallers : asks[k].pc = "launch"
  /\ IF h = "" THEN RegistryUnchanged ELSE Register(h, TokenRuns)
  /\ Ask(c, [pc |-> "launch", hash |-> h])
  /\ UNCHANGED <<rows, ended, restarts, reboots>>

LaunchCommits(c) ==
  /\ asks[c].pc = "launch"
  /\ ended' = "Started"
  /\ rows' = [r \in TokenRuns |-> [status |-> "Running", marker |-> asks[c].hash, attempt |-> 1]]
  /\ Ask(c, NoAsk)
  /\ RegistryUnchanged /\ UNCHANGED <<restarts, reboots>>

\* CreateWaveWithRuns failed: the token is given back.
LaunchRefused(c) ==
  /\ asks[c].pc = "launch"
  /\ IF asks[c].hash = "" THEN RegistryUnchanged ELSE ReleaseRuns(TokenRuns)
  /\ Ask(c, NoAsk)
  /\ UNCHANGED <<rows, ended, restarts, reboots>>

\* A completion settles a run; the caller then reconciles the wave.
RunEnds(c, r, s) ==
  /\ Free(c) /\ rows[r].status = "Running"
  /\ rows' = [rows EXCEPT ![r].status = s]
  /\ Ask(c, [pc |-> "reconcile"])
  /\ RegistryUnchanged /\ UNCHANGED <<ended, restarts, reboots>>

\* reconcileWave: only the caller that finishes the wave releases its tokens.
reconcileWave(c) ==
  /\ asks[c].pc = "reconcile"
  /\ IF ended = "Started" /\ \A r \in TokenRuns : rows[r].status \in Settled
     THEN ended' = "Finished" /\ Ask(c, [pc |-> "releaseWave"])
     ELSE UNCHANGED ended /\ Ask(c, NoAsk)
  /\ RegistryUnchanged /\ UNCHANGED <<rows, restarts, reboots>>

\* ReleaseWave.
ReleaseWave(c) ==
  /\ asks[c].pc = "releaseWave"
  /\ ReleaseRuns(TokenRuns)
  /\ Ask(c, NoAsk)
  /\ UNCHANGED <<rows, ended, restarts, reboots>>

\* cancelRunHandlerV1: a run that is settled already releases its token too.
cancelRun(c, r) ==
  /\ Free(c) /\ ended # "none"
  /\ rows' = IF rows[r].status = "Running" THEN [rows EXCEPT ![r].status = "Cancelled"] ELSE rows
  /\ Ask(c, [pc |-> "release", run |-> r])
  /\ RegistryUnchanged /\ UNCHANGED <<ended, restarts, reboots>>

\* Mutant: cancelling one run releases the tokens of its wave.
CancelReleasesWave(c) ==
  /\ asks[c].pc = "release"
  /\ ReleaseRuns(TokenRuns)
  /\ Ask(c, NoAsk)
  /\ UNCHANGED <<rows, ended, restarts, reboots>>

CancelReleases(c) ==
  /\ asks[c].pc = "release"
  /\ ReleaseRuns({asks[c].run})
  /\ Ask(c, NoAsk)
  /\ UNCHANGED <<rows, ended, restarts, reboots>>

\* cancelWaveHandler: CancelWave keeps the outcome of a wave that has one and
\* cancels the runs still active; the tokens are released after it.
cancelWave(c) ==
  /\ Free(c) /\ ended # "none"
  /\ ended' = IF ended = "Started" THEN "Cancelled" ELSE ended
  /\ rows' = [r \in TokenRuns |-> IF rows[r].status = "Running"
                                  THEN [rows[r] EXCEPT !.status = "Cancelled"] ELSE rows[r]]
  /\ Ask(c, [pc |-> "releaseWave"])
  /\ RegistryUnchanged /\ UNCHANGED <<restarts, reboots>>

\* restartRunHandler up to its transaction: the run is read, the token (if one
\* is sent) registered for it, whatever the run's status.
RestartRegisters(c, r, h, fromFailed) ==
  /\ Free(c) /\ ended # "none" /\ restarts < MaxRestarts
  /\ restarts' = restarts + 1
  /\ IF h = "" THEN RegistryUnchanged ELSE Register(h, {r})
  /\ Ask(c, [pc |-> "restart", run |-> r, hash |-> h, attempt |-> rows[r].attempt,
             fromFailed |-> fromFailed])
  /\ UNCHANGED <<rows, ended, reboots>>

\* RestartRun commits: a new attempt starts from empty stats, a retry of the
\* failed step keeps the stats it has and lays the new marker over them.
RestartCommits(c) ==
  /\ asks[c].pc = "restart"
  /\ LET x == asks[c]
         row == rows[x.run]
     IN /\ ended # "Cancelled" /\ row.attempt = x.attempt
        /\ row.status \in IF x.fromFailed THEN {"Fail", "Cancelled"} ELSE Settled
        /\ ended' = "Started"
        /\ rows' = [rows EXCEPT ![x.run] =
             [status |-> "Running",
              marker |-> IF x.fromFailed /\ x.hash = "" THEN row.marker ELSE x.hash,
              attempt |-> IF x.fromFailed THEN row.attempt ELSE row.attempt + 1]]
  /\ Ask(c, NoAsk)
  /\ RegistryUnchanged /\ UNCHANGED <<restarts, reboots>>

\* RestartRun refuses: the run is active, its attempt or wave moved on, or the
\* transaction failed.  The token sent with the request is released.
RestartRefused(c) ==
  /\ asks[c].pc = "restart"
  /\ IF asks[c].hash = "" THEN RegistryUnchanged ELSE ReleaseRuns({asks[c].run})
  /\ Ask(c, NoAsk)
  /\ UNCHANGED <<rows, ended, restarts, reboots>>

\* A handler after its transaction gives up: the caller went away.
AskGivesUp(c) ==
  /\ asks[c].pc \in {"reconcile", "releaseWave"}
  /\ Ask(c, NoAsk)
  /\ RegistryUnchanged /\ UNCHANGED <<rows, ended, restarts, reboots>>

\* The server process restarts: NewRegistry is empty.
Reboot ==
  /\ reboots < MaxReboots
  /\ reboots' = reboots + 1
  /\ entries' = [h \in Hashes |-> {}] /\ runHash' = [r \in TokenRuns |-> ""]
  /\ asks' = [c \in TokenCallers |-> NoAsk]
  /\ UNCHANGED <<rows, ended, restarts>>

(* ----------------------------- specification ---------------------------- *)

TokensInit ==
  /\ rows = [r \in TokenRuns |-> [status |-> "none", marker |-> "", attempt |-> 0]]
  /\ ended = "none"
  /\ entries = [h \in Hashes |-> {}] /\ runHash = [r \in TokenRuns |-> ""]
  /\ asks = [c \in TokenCallers |-> NoAsk]
  /\ restarts = 0 /\ reboots = 0

TokensNext ==
  \/ \E c \in TokenCallers :
       \/ \E h \in Hashes \cup {""} : LaunchRegisters(c, h)
       \/ LaunchCommits(c) \/ LaunchRefused(c)
       \/ \E r \in TokenRuns : \/ \E s \in {"Success", "Fail"} : RunEnds(c, r, s)
                               \/ cancelRun(c, r)
                               \/ \E h \in Hashes \cup {""}, f \in BOOLEAN :
                                    RestartRegisters(c, r, h, f)
       \/ reconcileWave(c) \/ ReleaseWave(c) \/ CancelReleases(c) \/ cancelWave(c)
       \/ RestartCommits(c) \/ RestartRefused(c) \/ AskGivesUp(c)
  \/ Reboot

TokensSpec == TokensInit /\ [][TokensNext]_tokVars

(* ------------------------------ properties ------------------------------ *)

\* Through every sequence of registrations and releases the registry's two
\* indexes agree: a run holds exactly the hash it is listed under.
IndexesAgree ==
  \A r \in TokenRuns, h \in Hashes : r \in entries[h] <=> runHash[r] = h

\* A launch that fails leaves no token behind: tokens are held for runs that
\* exist, or that a launch under way is about to create.
NothingForUnlaunched ==
  (ended = "none" /\ \A c \in TokenCallers : asks[c].pc # "launch")
    => \A h \in Hashes : entries[h] = {}

\* "keeps the token in memory while the run or wave is active", as long as
\* nobody asks for a restart and the process lives: ending or cancelling one
\* run never takes the token the others share.
KeptWithoutRestart ==
  (restarts = 0 /\ reboots = 0)
    => \A r \in TokenRuns : rows[r].status = "Running" => authForMetadata(r)

\* Tokens are held for the runs that need them, and for no others.
TokensFollowRuns ==
  /\ IndexesAgree
  /\ NothingForUnlaunched
  /\ KeptWithoutRestart
=============================================================================
