----------------------------- MODULE MigRegistry -----------------------------
(***************************************************************************)
(* The registry of mig projects and the launches made from it: migs, their *)
(* spec pointers, their repository memberships, and the runs a launch      *)
(* plans.  Every handler is a sequence of separate database statements, so *)
(* handlers of several callers interleave between any two of them.         *)
(*                                                                         *)
(* A repository is its normalised URL.  A run is the row that matters here:*)
(* where it came from, the chain it was planned with, and whether it is    *)
(* active; RunLifecycle models what happens to it.                         *)
(***************************************************************************)
EXTENDS Naturals, Sequences, FiniteSets
LOCAL INSTANCE SequencesExt

CONSTANTS MigIDs,    \* ids NewMigID hands out, in order: 1..n
          Urls,      \* normalised repository URLs
          Bodies,    \* spec contents: [steps, gate]
          Imports,   \* CSV files: sequences of URLs and "bad" lines
          Callers,   \* concurrent requests
          MaxCalls,  \* requests made
          PageSize,  \* pageLimit of scanRunPages (200 in the code)
          MaxRuns    \* runs launched

ASSUME RegistryAssumption ==
  /\ MaxCalls \in Nat /\ MaxRuns \in Nat /\ PageSize \in Nat \ {0}
  /\ \A b \in Bodies : b.steps \in Nat /\ b.gate \in BOOLEAN

VARIABLES
  migs,     \* mig -> [state, name, spec, archived]
  specs,    \* the specs table, append only: [body, named]
  members,  \* mig_repos: [id, mig, url, ref]
  runs,     \* runs in creation order: [mig, spec, url, ref, plan, status]
  calls,    \* caller -> the handler it is in
  begun     \* requests made so far

regVars == <<migs, specs, members, runs, calls, begun>>

NoCall == [pc |-> "idle"]
NoMig == [state |-> "free", name |-> "", spec |-> 0, archived |-> FALSE]
\* "Success" stands for Cancelled as well: nothing here tells them apart.
RunStates == {"Running", "Success", "Fail"}

(* ------------------------------- planning ------------------------------- *)

\* planJobsFromSpec: one job per step (a spec without steps still gets one),
\* between the two gates unless the build gate is disabled.
planJobsFromSpec(body) ==
  (IF body.gate THEN <<"pre_gate">> ELSE <<>>)
  \o [i \in 1..(IF body.steps > 1 THEN body.steps ELSE 1) |-> "mig"]
  \o (IF body.gate THEN <<"post_gate">> ELSE <<>>)

RunActive(r) == runs[r].status = "Running"
RepoBusy(url) == \E r \in 1..Len(runs) : runs[r].url = url /\ RunActive(r)
MigRuns(m) == {r \in 1..Len(runs) : runs[r].mig = m}
Live(m) == migs[m].state = "live"
Member(m, url) == \E x \in members : x.mig = m /\ x.url = url

(* ----------------------------- request steps ---------------------------- *)

\* A request that got past its first reads goes on as r.
Begin(c, r) ==
  /\ calls[c].pc = "idle" /\ begun < MaxCalls
  /\ begun' = begun + 1
  /\ calls' = [calls EXCEPT ![c] = r]

Goon(c, r) == calls' = [calls EXCEPT ![c] = r] /\ UNCHANGED begun
Return(c) == Goon(c, NoCall)
CallAt(c, pc) == calls[c].pc = pc

\* Any statement can fail, and the client can go away: the handler returns
\* and what it wrote so far stays.
HandlerGivesUp(c) ==
  /\ calls[c].pc # "idle"
  /\ Return(c)
  /\ UNCHANGED <<migs, specs, members, runs>>

NextMig == CHOOSE m \in MigIDs : migs[m].state = "free"
                                 /\ \A k \in MigIDs : migs[k].state = "free" => m <= k
MigLeft == \E m \in MigIDs : migs[m].state = "free"

\* createMigHandler: the row first, its spec (when one was sent) later.
createMig(c, name, withSpec, body) ==
  /\ MigLeft
  /\ ~\E m \in MigIDs : Live(m) /\ migs[m].name = name
  /\ migs' = [migs EXCEPT ![NextMig] = [NoMig EXCEPT !.state = "live", !.name = name]]
  /\ Begin(c, IF withSpec THEN [pc |-> "spec", mig |-> NextMig, body |-> body] ELSE NoCall)
  /\ UNCHANGED <<specs, members, runs>>

\* setMigSpecHandler.
setMigSpec(c, m, body) ==
  /\ Live(m) /\ ~migs[m].archived
  /\ Begin(c, [pc |-> "spec", mig |-> m, body |-> body])
  /\ UNCHANGED <<migs, specs, members, runs>>

CreateSpec(c) ==
  /\ CallAt(c, "spec")
  /\ specs' = Append(specs, [body |-> calls[c].body, named |-> FALSE])
  /\ Goon(c, [pc |-> "point", mig |-> calls[c].mig, spec |-> Len(specs')])
  /\ UNCHANGED <<migs, members, runs>>

\* UpdateMigSpec: by id alone; a mig deleted meanwhile has no row to update.
UpdateMigSpec(c) ==
  /\ CallAt(c, "point")
  /\ migs' = IF Live(calls[c].mig)
             THEN [migs EXCEPT ![calls[c].mig].spec = calls[c].spec] ELSE migs
  /\ Return(c)
  /\ UNCHANGED <<specs, members, runs>>

(* ----------------------------- memberships ------------------------------ *)

\* addMigRepoHandler.
addMigRepo(c, m, url) ==
  /\ Live(m) /\ ~migs[m].archived
  /\ Begin(c, [pc |-> "addRepo", mig |-> m, url |-> url, n |-> begun])
  /\ UNCHANGED <<migs, specs, members, runs>>

\* CreateMigRepo: refused for a member (unique) and for a mig that is gone.
CreateMigRepo(c) ==
  /\ CallAt(c, "addRepo")
  /\ members' = IF Live(calls[c].mig) /\ ~Member(calls[c].mig, calls[c].url)
                THEN members \cup {[id |-> <<calls[c].n, 0>>, mig |-> calls[c].mig,
                                    url |-> calls[c].url, ref |-> "main"]}
                ELSE members
  /\ Return(c)
  /\ UNCHANGED <<migs, specs, runs>>

\* bulkUpsertMigReposHandler: line after line, each on its own.
bulkUpsertMigRepos(c, m, lines) ==
  /\ Live(m) /\ ~migs[m].archived
  /\ Begin(c, [pc |-> "import", mig |-> m, lines |-> lines, n |-> begun])
  /\ UNCHANGED <<migs, specs, members, runs>>

\* UpsertMigRepo for the next line: a bad line, or one that fails because the
\* mig is gone, is counted and the import goes on.
UpsertMigRepo(c) ==
  /\ CallAt(c, "import")
  /\ LET x == calls[c]
         url == Head(x.lines)
         old == {k \in members : k.mig = x.mig /\ k.url = url}
     IN /\ members' = IF url = "bad" \/ ~Live(x.mig) THEN members
                      ELSE IF old = {}
                      THEN members \cup {[id |-> <<x.n, Len(x.lines)>>, mig |-> x.mig,
                                          url |-> url, ref |-> "dev"]}
                      ELSE (members \ old) \cup {[k EXCEPT !.ref = "dev"] : k \in old}
        /\ Goon(c, IF Len(x.lines) = 1 THEN NoCall ELSE [x EXCEPT !.lines = Tail(x.lines)])
  /\ UNCHANGED <<migs, specs, runs>>

\* deleteMigRepoHandler, up to GetMigRepo.
deleteMigRepo(c, row) ==
  /\ Live(row.mig)
  /\ Begin(c, [pc |-> "history", row |-> row])
  /\ UNCHANGED <<migs, specs, members, runs>>

\* HasMigRepoHistory: runs of the repository in any mig.
HasMigRepoHistory(c) ==
  /\ CallAt(c, "history")
  /\ Goon(c, IF \E r \in 1..Len(runs) : runs[r].url = calls[c].row.url
             THEN NoCall ELSE [calls[c] EXCEPT !.pc = "deleteRepo"])
  /\ UNCHANGED <<migs, specs, members, runs>>

\* Mutant: the history check is trusted instead of the foreign key.
DeleteMigRepoTrusting(c) ==
  /\ CallAt(c, "deleteRepo")
  /\ members' = {x \in members : x.id # calls[c].row.id}
  /\ Return(c)
  /\ UNCHANGED <<migs, specs, runs>>

\* DeleteMigRepo: the runs' foreign key restricts the delete.
DeleteMigRepo(c) ==
  /\ CallAt(c, "deleteRepo")
  /\ members' = {x \in members :
                   x.id # calls[c].row.id
                   \/ \E r \in MigRuns(x.mig) : runs[r].url = x.url}
  /\ Return(c)
  /\ UNCHANGED <<migs, specs, runs>>

(* ------------------------ archive, unarchive, delete -------------------- *)

\* archiveMigHandler and deleteMigHandler read the mig, then look through the
\* runs.  "watch" remembers, for the property alone, the runs that were in
\* the way when the handler began and still are.
InTheWay(op, m) == {r \in MigRuns(m) : op = "archive" => RunActive(r)}

archiveMig(c, m) ==
  /\ Live(m) /\ ~migs[m].archived
  /\ Begin(c, [pc |-> "scan", op |-> "archive", mig |-> m, offset |-> 0,
               watch |-> InTheWay("archive", m)])
  /\ UNCHANGED <<migs, specs, members, runs>>

deleteMig(c, m) ==
  /\ Live(m)
  /\ Begin(c, [pc |-> "scan", op |-> "delete", mig |-> m, offset |-> 0,
               watch |-> InTheWay("delete", m)])
  /\ UNCHANGED <<migs, specs, members, runs>>

\* ListRuns: newest first, one page at an offset.
Page(offset) == {r \in 1..Len(runs) : Len(runs) - r \in offset..(offset + PageSize - 1)}

\* scanRunPages: page by page until one is empty (go on) or holds a run in
\* the way (409).
scanRunPages(c) ==
  /\ CallAt(c, "scan")
  /\ LET x == calls[c]
     IN Goon(c, IF Page(x.offset) = {} THEN [x EXCEPT !.pc = x.op]
                ELSE IF Page(x.offset) \cap InTheWay(x.op, x.mig) # {} THEN NoCall
                ELSE [x EXCEPT !.offset = x.offset + PageSize])
  /\ UNCHANGED <<migs, specs, members, runs>>

ArchiveMig(c) ==
  /\ CallAt(c, "archive")
  /\ migs' = IF Live(calls[c].mig)
             THEN [migs EXCEPT ![calls[c].mig].archived = TRUE] ELSE migs
  /\ Return(c)
  /\ UNCHANGED <<specs, members, runs>>

\* DeleteMig: refused by the foreign keys of waves and runs, else it takes the
\* memberships with it.
DeleteMig(c) ==
  /\ CallAt(c, "delete")
  /\ LET m == calls[c].mig
     IN IF MigRuns(m) # {} THEN UNCHANGED <<migs, members>>
        ELSE /\ migs' = [migs EXCEPT ![m] = [NoMig EXCEPT !.state = "gone"]]
             /\ members' = {x \in members : x.mig # m}
  /\ Return(c)
  /\ UNCHANGED <<specs, runs>>

\* unarchiveMigHandler.
unarchiveMig(c, m) ==
  /\ Live(m) /\ migs[m].archived
  /\ Begin(c, [pc |-> "unarchive", mig |-> m])
  /\ UNCHANGED <<migs, specs, members, runs>>

UnarchiveMig(c) ==
  /\ CallAt(c, "unarchive")
  /\ migs' = IF Live(calls[c].mig)
             THEN [migs EXCEPT ![calls[c].mig].archived = FALSE] ELSE migs
  /\ Return(c)
  /\ UNCHANGED <<specs, members, runs>>

(* -------------------------------- launches ------------------------------ *)

\* createMigRunHandler up to the job plan: the spec id and the chain planned
\* from it are what the handler goes on with.
createMigRun(c, m, mode) ==
  /\ Live(m) /\ ~migs[m].archived /\ migs[m].spec # 0
  /\ Begin(c, [pc |-> "select", mig |-> m, mode |-> mode, spec |-> migs[m].spec,
               plan |-> planJobsFromSpec(specs[migs[m].spec].body)])
  /\ UNCHANGED <<migs, specs, members, runs>>

\* ListFailedRepoIDsByMig: the repository's newest settled run in the mig failed.
LastFailed(m, url) ==
  LET settled == {r \in MigRuns(m) : runs[r].url = url /\ ~RunActive(r)}
  IN settled # {} /\ \E r \in settled : runs[r].status = "Fail" /\ \A k \in settled : k <= r

\* selectReposForRun: "all", "failed", or the URLs the caller names.
selectReposForRun(c) ==
  /\ CallAt(c, "select")
  /\ LET x == calls[c]
         rows == {k \in members : k.mig = x.mig
                    /\ CASE x.mode = "all" -> TRUE
                         [] x.mode = "failed" -> LastFailed(x.mig, k.url)
                         [] OTHER -> k.url = x.mode}
     IN Goon(c, IF rows = {} THEN NoCall
                ELSE [pc |-> "launch", mig |-> x.mig, spec |-> x.spec, plan |-> x.plan,
                      rows |-> rows])
  /\ UNCHANGED <<migs, specs, members, runs>>

\* The rows insertRun writes for the selected repositories.
Launched(x, spec) ==
  [i \in 1..Cardinality(x.rows) |->
     [mig |-> x.mig, spec |-> spec, url |-> SetToSeq(x.rows)[i].url,
      ref |-> SetToSeq(x.rows)[i].ref, plan |-> x.plan, status |-> "Running"]]

\* CreateWaveWithRuns, one transaction: every selected repository gets its run,
\* or, when one is busy or the membership the rows refer to is gone, none does.
LaunchWave(c) ==
  /\ CallAt(c, "launch")
  /\ LET x == calls[c]
     IN \/ /\ Live(x.mig) /\ \A k \in x.rows : Member(x.mig, k.url) /\ ~RepoBusy(k.url)
           /\ Len(runs) + Cardinality(x.rows) <= MaxRuns
           /\ runs' = runs \o Launched(x, x.spec)
        \/ /\ ~(Live(x.mig) /\ \A k \in x.rows : Member(x.mig, k.url) /\ ~RepoBusy(k.url))
           /\ UNCHANGED runs
  /\ Return(c)
  /\ UNCHANGED <<migs, specs, members>>

\* createSingleRepoRunHandler, everything before it writes: the chain is
\* planned from the submitted or compiled spec.
createSingleRepoRun(c, url, body, named) ==
  /\ Begin(c, [pc |-> IF named THEN "lookup" ELSE "persist", url |-> url, body |-> body,
               named |-> named, plan |-> planJobsFromSpec(body), n |-> begun])
  /\ UNCHANGED <<migs, specs, members, runs>>

\* GetGitSpecSnapshot: the oldest row with this name and content, if any.
GetGitSpecSnapshot(c) ==
  /\ CallAt(c, "lookup")
  /\ LET x == calls[c]
         same == {i \in 1..Len(specs) : specs[i] = [body |-> x.body, named |-> TRUE]}
     IN Goon(c, IF same = {} THEN [x EXCEPT !.pc = "persist"]
                ELSE [pc |-> "submitMig", url |-> x.url, plan |-> x.plan, n |-> x.n,
                      spec |-> CHOOSE i \in same : \A k \in same : i <= k])
  /\ UNCHANGED <<migs, specs, members, runs>>

\* persistRunSubmissionSpec: CreateSpec or CreateGitSpecSnapshot.
persistRunSubmissionSpec(c) ==
  /\ CallAt(c, "persist")
  /\ LET x == calls[c]
     IN /\ specs' = Append(specs, [body |-> x.body, named |-> x.named])
        /\ Goon(c, [pc |-> "submitMig", url |-> x.url, plan |-> x.plan, n |-> x.n,
                    spec |-> Len(specs')])
  /\ UNCHANGED <<migs, members, runs>>

\* CreateMig for the submission: named after its own id, so always new.
SubmitMig(c) ==
  /\ CallAt(c, "submitMig") /\ MigLeft
  /\ LET x == calls[c]
     IN /\ migs' = [migs EXCEPT ![NextMig] = [state |-> "live", name |-> "own", spec |-> x.spec,
                                              archived |-> FALSE]]
        /\ Goon(c, [pc |-> "submitRepo", url |-> x.url, plan |-> x.plan, n |-> x.n,
                    spec |-> x.spec, mig |-> NextMig])
  /\ UNCHANGED <<specs, members, runs>>

\* CreateMigRepo for the submission; the mig may have been deleted meanwhile,
\* or the repository added to it by hand.
SubmitRepo(c) ==
  /\ CallAt(c, "submitRepo")
  /\ LET x == calls[c]
         row == [id |-> <<x.n, 0>>, mig |-> x.mig, url |-> x.url, ref |-> "main"]
     IN IF Live(x.mig) /\ ~Member(x.mig, x.url)
        THEN /\ members' = members \cup {row}
             /\ Goon(c, [pc |-> "launch", mig |-> x.mig, spec |-> x.spec, plan |-> x.plan,
                         rows |-> {row}])
        ELSE UNCHANGED members /\ Return(c)
  /\ UNCHANGED <<migs, specs, runs>>

(* ---------------------- what the run lifecycle does --------------------- *)

\* A run settles; an archive or delete under way no longer finds it active.
RunSettles(r, s) ==
  /\ RunActive(r)
  /\ runs' = [runs EXCEPT ![r].status = s]
  /\ calls' = [c \in Callers |->
                IF calls[c].pc \in {"scan", "archive"} /\ calls[c].op = "archive"
                THEN [calls[c] EXCEPT !.watch = @ \ {r}] ELSE calls[c]]
  /\ UNCHANGED <<migs, specs, members, begun>>

\* restartRunHandler and RestartRun: the chain is planned again from the run's
\* spec; neither looks at the mig.
RunRestarts(r) ==
  /\ ~RunActive(r) /\ ~RepoBusy(runs[r].url) /\ begun < MaxCalls
  /\ begun' = begun + 1
  /\ runs' = [runs EXCEPT ![r].status = "Running",
                          ![r].plan = planJobsFromSpec(specs[runs[r].spec].body)]
  /\ UNCHANGED <<migs, specs, members, calls>>

(* ----------------------------- specification ---------------------------- *)

\* A registry in use: the project "n" has a spec and some repositories, and
\* was launched on them or not.
RegistryInit ==
  /\ \E b \in Bodies : specs = <<[body |-> b, named |-> FALSE]>>
  /\ migs = [m \in MigIDs |-> IF m = 1 THEN [state |-> "live", name |-> "n", spec |-> 1,
                                             archived |-> FALSE] ELSE NoMig]
  /\ \E us \in SUBSET Urls :
       members = {[id |-> <<0, u>>, mig |-> 1, url |-> u, ref |-> "main"] : u \in us}
  /\ LET x == [mig |-> 1, rows |-> members, plan |-> planJobsFromSpec(specs[1].body)]
     IN \/ runs = <<>>
        \/ \E st \in [1..Cardinality(members) -> {"Running", "Fail"}] :
             runs = [i \in DOMAIN st |-> [Launched(x, 1)[i] EXCEPT !.status = st[i]]]
  /\ calls = [c \in Callers |-> NoCall]
  /\ begun = 1

Arrives(c) ==
  \/ \E name \in {"n", "o"}, w \in BOOLEAN, b \in Bodies : createMig(c, name, w, b)
  \/ \E m \in MigIDs : \/ \E b \in Bodies : setMigSpec(c, m, b)
                       \/ \E u \in Urls : addMigRepo(c, m, u)
                       \/ \E l \in Imports : bulkUpsertMigRepos(c, m, l)
                       \/ archiveMig(c, m) \/ unarchiveMig(c, m) \/ deleteMig(c, m)
                       \/ \E mode \in {"all", "failed"} \cup Urls : createMigRun(c, m, mode)
  \/ \E row \in members : deleteMigRepo(c, row)
  \/ \E u \in Urls, b \in Bodies, named \in BOOLEAN : createSingleRepoRun(c, u, b, named)

Proceeds(c) ==
  \/ CreateSpec(c) \/ UpdateMigSpec(c) \/ CreateMigRepo(c) \/ UpsertMigRepo(c)
  \/ HasMigRepoHistory(c) \/ DeleteMigRepo(c) \/ scanRunPages(c) \/ ArchiveMig(c)
  \/ DeleteMig(c) \/ UnarchiveMig(c) \/ selectReposForRun(c) \/ LaunchWave(c)
  \/ GetGitSpecSnapshot(c) \/ persistRunSubmissionSpec(c) \/ SubmitMig(c) \/ SubmitRepo(c)

RegistryNext ==
  \/ \E c \in Callers : Arrives(c) \/ Proceeds(c) \/ HandlerGivesUp(c)
  \/ \E r \in 1..Len(runs) : \/ \E s \in RunStates \ {"Running"} : RunSettles(r, s)
                             \/ RunRestarts(r)

RegistrySpec == RegistryInit /\ [][RegistryNext]_regVars

(* ------------------------------ properties ------------------------------ *)

\* The rows are well formed (migs, specs, mig_repos and runs of the schema).
RegistryTypeOK ==
  /\ migs \in [MigIDs -> [state : {"free", "live", "gone"}, name : {"", "n", "o", "own"},
                          spec : 0..Len(specs), archived : BOOLEAN]]
  /\ \A i \in 1..Len(specs) : specs[i] \in [body : Bodies, named : BOOLEAN]
  /\ \A r \in 1..Len(runs) : runs[r].status \in RunStates /\ runs[r].spec \in 1..Len(specs)

\* Whatever happens to the mig's spec pointer while a launch is between its
\* statements, the chain a run got is the one its own spec plans.
PlanMatchesSpec ==
  \A r \in 1..Len(runs) : runs[r].plan = planJobsFromSpec(specs[runs[r].spec].body)

\* No interleaving of launches with deletes leaves a run without its mig and
\* membership, or a membership without its mig.
ReferencesHold ==
  /\ \A x \in members : Live(x.mig)
  /\ \A r \in 1..Len(runs) : Live(runs[r].mig) /\ Member(runs[r].mig, runs[r].url)

\* An archive goes through only if no run of the mig was active from the
\* moment the handler began: new runs push older ones down the pages, but
\* the scan misses none of those that were there.
ArchiveSeesOldRuns ==
  \A c \in Callers : CallAt(c, "archive") => calls[c].watch = {}

\* The rows of migs, specs, memberships and runs fit together, whatever requests
\* interleave statement by statement.
RegistryConsistent ==
  /\ RegistryTypeOK
  /\ PlanMatchesSpec
  /\ ReferencesHold
  /\ ArchiveSeesOldRuns
=============================================================================
