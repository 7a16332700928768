------------------------------ MODULE RunBlobs ------------------------------
(***************************************************************************)
(* Patches and spec bundles: a metadata row in the database and its bytes  *)
(* in the object store.  An upload inserts the row, puts the object and    *)
(* deletes the row again when the put fails; these are three calls, and    *)
(* listings, downloads and the retention task run between them.  Readers   *)
(* are "ploy run apply" (one accumulated patch) and "ploy mig pull" (the   *)
(* patches one by one).  Artifact bundles are uploaded the way diffs are.  *)
(***************************************************************************)
EXTENDS Naturals, Sequences, FiniteSets

CONSTANTS ChainJobs,   \* the jobs of the run's attempt, in chain order
          Archivers,   \* the jobs that upload an artifact bundle
          Contents,    \* contents of spec bundles; a content is its CID
          Uploaders,   \* concurrent upload requests
          MaxUploads,  \* rows ever inserted
          MaxSweeps,   \* runs of the retention task
          MaxFaults    \* failed or unanswered puts, failed deletes, crashes

ASSUME BlobsAssumption ==
  ChainJobs \in Seq(STRING) \ {<<>>} /\ {MaxUploads, MaxSweeps, MaxFaults} \subseteq Nat

VARIABLES
  metadata,  \* rows: [id, kind, of]; ids are given in the order of created_at
  objects,   \* ids of the rows whose object is in the store
  inserted,  \* rows inserted so far
  uploads,   \* uploader -> the handler it is in
  answered,  \* ids answered with 201, and with 200 for an existing bundle
  purged,    \* ids the retention task deleted
  sweeps, faults,
  reader     \* the command reading the run's patches

blobVars == <<metadata, objects, inserted, uploads, answered, purged, sweeps, faults, reader>>

NoUpload == [pc |-> "idle"]
NoReader == [pc |-> "idle", cmd |-> "apply", i |-> 0, list |-> <<>>, want |-> <<>>,
             got |-> <<>>, floor |-> {}]
JobSet == {ChainJobs[i] : i \in 1..Len(ChainJobs)}

Newest(rs) == CHOOSE r \in rs : \A s \in rs : s.id <= r.id
UploadAt(u, pc) == uploads[u].pc = pc
Moves(u, x) == uploads' = [uploads EXCEPT ![u] = x]
Fault == faults < MaxFaults /\ faults' = faults + 1

(* -------------------------------- uploads ------------------------------- *)

\* persistBlob's insert: the row is visible before its object is stored.
insertRow(u, kind, of) ==
  /\ inserted < MaxUploads
  /\ inserted' = inserted + 1
  /\ metadata' = metadata \cup {[id |-> inserted + 1, kind |-> kind, of |-> of]}
  /\ Moves(u, [pc |-> "put", id |-> inserted + 1, kind |-> kind, of |-> of])
  /\ UNCHANGED <<objects, answered, purged, sweeps, faults, reader>>

\* createJobDiffHandler, after its checks; CreateDiff.
createJobDiff(u, j) == UploadAt(u, "idle") /\ insertRow(u, "diff", j)

\* createJobArtifactHandler, after its checks; CreateArtifactBundle.
createJobArtifact(u, j) == UploadAt(u, "idle") /\ insertRow(u, "artifact", j)

\* GetSpecBundleByCID for content c: the newest row, whatever became of its
\* object, is the answer; without one the caller goes on as `next`.
answerExisting(u, c, next) ==
  LET same == {r \in metadata : r.kind = "spec" /\ r.of = c}
  IN  IF same # {}
      THEN /\ answered' = [answered EXCEPT !.existing = @ \cup {Newest(same).id}]
           /\ Moves(u, NoUpload)
      ELSE Moves(u, [pc |-> next, of |-> c]) /\ UNCHANGED answered

\* httpBundleStore.Ensure of the CLI: a probe, and an upload unless it finds one.
probeSpecBundle(u, c) ==
  /\ UploadAt(u, "idle")
  /\ answerExisting(u, c, "upload")
  /\ UNCHANGED <<metadata, objects, inserted, purged, sweeps, faults, reader>>

\* The lookup of ensureSpecBundle, for an upload or for a spec the server compiles.
ensureSpecBundle(u, c) ==
  /\ UploadAt(u, "idle") \/ (UploadAt(u, "upload") /\ uploads[u].of = c)
  /\ answerExisting(u, c, "insert")
  /\ UNCHANGED <<metadata, objects, inserted, purged, sweeps, faults, reader>>

CreateSpecBundle(u) == UploadAt(u, "insert") /\ insertRow(u, "spec", uploads[u].of)

\* blobstore.Put, and the 201.
PutBlob(u) ==
  /\ UploadAt(u, "put")
  /\ objects' = objects \cup {uploads[u].id}
  /\ answered' = [answered EXCEPT !.created = @ \cup {uploads[u].id}]
  /\ Moves(u, NoUpload)
  /\ UNCHANGED <<metadata, inserted, purged, sweeps, faults, reader>>

\* Put returned an error; the object may have been stored all the same.
PutFails(u) ==
  /\ UploadAt(u, "put") /\ Fault
  /\ objects' \in {objects, objects \cup {uploads[u].id}}
  /\ Moves(u, [uploads[u] EXCEPT !.pc = "rollback"])
  /\ UNCHANGED <<metadata, inserted, answered, purged, sweeps, reader>>

\* Mutant: the rollback deletes what was stored for the job or the content.
RollbackByOwner(u) ==
  /\ UploadAt(u, "rollback")
  /\ metadata' = {r \in metadata : r.kind # uploads[u].kind \/ r.of # uploads[u].of}
  /\ Moves(u, NoUpload)
  /\ UNCHANGED <<objects, inserted, answered, purged, sweeps, faults, reader>>

\* The rollback deletes the row by its id; the answer is 500.
Rollback(u) ==
  /\ UploadAt(u, "rollback")
  /\ metadata' = {r \in metadata : r.id # uploads[u].id}
  /\ Moves(u, NoUpload)
  /\ UNCHANGED <<objects, inserted, answered, purged, sweeps, faults, reader>>

\* The rollback fails, or the server stops with the upload under way: the row
\* stays without an object.
RollbackFails(u) ==
  /\ uploads[u].pc \in {"put", "rollback"} /\ Fault
  /\ Moves(u, NoUpload)
  /\ UNCHANGED <<metadata, objects, inserted, answered, purged, sweeps, reader>>

\* Worker.Run of the retention task: rows created before the cutoff are
\* deleted, objects are not; spec bundles are kept.
DeleteExpired(cutoff) ==
  /\ sweeps < MaxSweeps
  /\ sweeps' = sweeps + 1
  /\ LET old == {r \in metadata : r.kind # "spec" /\ r.id < cutoff}
     IN metadata' = metadata \ old /\ purged' = purged \cup {r.id : r \in old}
  /\ UNCHANGED <<objects, inserted, uploads, answered, faults, reader>>

(* -------------------------------- readers ------------------------------- *)

DiffsOf(j) == {r \in metadata : r.kind = "diff" /\ r.of = j}
Reads(x) == reader' = x /\ UNCHANGED <<metadata, objects, inserted, uploads, answered,
                                        purged, sweeps, faults>>

\* A command asks for the list first.  floor is a record of what had been
\* answered with 201 by then.
StartReader(cmd) ==
  /\ reader.pc = "idle"
  /\ Reads([NoReader EXCEPT !.pc = "list", !.cmd = cmd, !.i = 1,
                            !.floor = {r.id : r \in {d \in metadata : d.kind = "diff"}}
                                      \cap answered.created])

\* Both commands first check the local worktree, which no upload changes.
runApply == StartReader("apply")
HandleMigPull == StartReader("pull")

\* GetLatestDiffByJob for one job of listEffectiveRunDiffs.
GetLatestDiffByJob(j, list) ==
  IF DiffsOf(j) = {} THEN list ELSE Append(list, Newest(DiffsOf(j)))

\* listEffectiveRunDiffs: one query per job, in chain order.
listEffectiveRunDiffs(pc, next) ==
  /\ reader.pc = pc
  /\ LET found == GetLatestDiffByJob(ChainJobs[reader.i], reader.list)
     IN IF reader.i < Len(ChainJobs)
        THEN Reads([reader EXCEPT !.i = @ + 1, !.list = found])
        ELSE Reads([reader EXCEPT !.pc = next, !.i = 1, !.list = found])

\* The list is answered; "apply" asks for the patch accumulated up to the last
\* diff, "pull" for each in turn.  Each request lists again.
ListAnswered ==
  /\ reader.pc = "listed"
  /\ Reads([reader EXCEPT !.pc = IF reader.list = <<>> THEN "done" ELSE "relist",
                          !.want = reader.list, !.list = <<>>])

Wanted == IF reader.cmd = "apply" THEN reader.want[Len(reader.want)] ELSE reader.want[Len(reader.got) + 1]

\* The diff asked for is looked up among the effective ones.
FindDiff ==
  /\ reader.pc = "find"
  /\ IF \E i \in 1..Len(reader.list) : reader.list[i] = Wanted
     THEN LET t == CHOOSE i \in 1..Len(reader.list) : reader.list[i] = Wanted
          IN Reads([reader EXCEPT !.pc = "fetch",
                                  !.list = IF reader.cmd = "apply" THEN SubSeq(reader.list, 1, t)
                                           ELSE <<Wanted>>])
     ELSE Reads([NoReader EXCEPT !.pc = "failed"])

\* The blobs of the accumulated patch one after the other, or the blob of one
\* diff (openBlobForHTTP); a missing one fails the request.
FetchBlob ==
  /\ reader.pc = "fetch"
  /\ IF Head(reader.list).id \notin objects
     THEN Reads([NoReader EXCEPT !.pc = "failed"])
     ELSE LET got == Append(reader.got, Head(reader.list))
              rest == Tail(reader.list)
              ends == rest = <<>> /\ (reader.cmd = "apply" \/ Len(got) = Len(reader.want))
          IN Reads([reader EXCEPT !.got = got, !.list = rest,
                      !.want = IF ends THEN <<>> ELSE @,
                      !.pc = IF ends THEN "done" ELSE IF rest = <<>> THEN "relist" ELSE "fetch"])

(* ---------------------------- specification ----------------------------- *)

\* The first job of the chain has uploaded its patch.
BlobsInit ==
  /\ metadata = {[id |-> 1, kind |-> "diff", of |-> ChainJobs[1]]}
  /\ objects = {1} /\ inserted = 1
  /\ uploads = [u \in Uploaders |-> NoUpload]
  /\ answered = [created |-> {1}, existing |-> {}]
  /\ purged = {} /\ sweeps = 0 /\ faults = 0
  /\ reader = NoReader

UploadNext ==
  \E u \in Uploaders :
    \/ \E j \in JobSet : createJobDiff(u, j)
    \/ \E j \in Archivers : createJobArtifact(u, j)
    \/ \E c \in Contents : probeSpecBundle(u, c) \/ ensureSpecBundle(u, c)
    \/ CreateSpecBundle(u)
    \/ PutBlob(u)
    \/ PutFails(u)
    \/ Rollback(u)
    \/ RollbackFails(u)

ReaderNext ==
  \/ runApply \/ HandleMigPull
  \/ listEffectiveRunDiffs("list", "listed")
  \/ ListAnswered
  \/ listEffectiveRunDiffs("relist", "find")
  \/ FindDiff
  \/ FetchBlob

BlobsNext ==
  \/ UploadNext
  \/ ReaderNext
  \/ \E cutoff \in 2..(inserted + 1) : DeleteExpired(cutoff)

BlobsSpec == BlobsInit /\ [][BlobsNext]_blobVars

(* ------------------------------ properties ------------------------------ *)

\* An upload answered 201 has its object in the store, and its row is there
\* until the retention task deletes it, whatever other uploads of the same job
\* or content fail and roll back meanwhile (persistBlob).
CreatedIsStored ==
  \A id \in answered.created :
    /\ id \in objects
    /\ id \in purged \/ \E r \in metadata : r.id = id

\* Position of a job in the chain.
ChainPosition(j) == CHOOSE i \in 1..Len(ChainJobs) : ChainJobs[i] = j

\* A command that ends well has patches of different jobs in chain order, and
\* for no job a patch older than one answered with 201 before the command
\* began, unless retention deleted that one: uploads that land while the
\* command lists twice and fetches blob by blob never mix in a stale patch
\* (listEffectiveRunDiffs, downloadAccumulatedRunDiff, downloadAndApplyDiffs).
PatchesInChainOrder ==
  reader.pc = "done" =>
    \A i \in 1..Len(reader.got) :
      /\ \A k \in 1..(i - 1) : ChainPosition(reader.got[k].of) < ChainPosition(reader.got[i].of)
      /\ \A r \in metadata :
           (r.kind = "diff" /\ r.of = reader.got[i].of /\ r.id \in reader.floor)
             => r.id <= reader.got[i].id

\* A bundle id answered with 200 for content already known keeps its row, and
\* its object is stored or on its way, as long as no put or rollback failed:
\* neither retention nor another upload of the content takes it from the specs
\* that name it (ensureSpecBundle; a failed put of the first upload does).
ExistingBundleKept ==
  faults = 0 =>
    \A id \in answered.existing :
      /\ \E r \in metadata : r.id = id
      /\ id \in objects \/ \E u \in Uploaders : UploadAt(u, "put") /\ uploads[u].id = id

\* What was answered is stored, and what is read together belongs together.
BlobsConsistent ==
  /\ CreatedIsStored
  /\ PatchesInChainOrder
  /\ ExistingBundleKept
=============================================================================
