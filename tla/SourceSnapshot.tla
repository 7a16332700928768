--------------------------- MODULE SourceSnapshot ---------------------------
(***************************************************************************)
(* How a node obtains the source of a run.  The node asks the server for a  *)
(* snapshot, the server materialises the run's pinned commit through a      *)
(* clone cache on disk that all requests share without a lock, streams the  *)
(* checkout as an archive, and the node unpacks it into the run's           *)
(* workspace.  All requests here are for the same repository and commit, so *)
(* that they meet at one cache entry.                                       *)
(*                                                                          *)
(* A directory is what its checks and its readers tell apart: whether it    *)
(* exists, whether its .git names the commit as HEAD, and how much of the   *)
(* work tree is there.  Copies and RemoveAll are two steps each: other      *)
(* requests run in between.                                                 *)
(***************************************************************************)
EXTENDS Naturals

CONSTANTS
  Hydrations,           \* runs whose node asks for the same commit
  MaxHydrationCancels,  \* bound on requests whose context ends early
  MaxHydrationFaults,   \* bound on git, disk and read failures
  MaxHydrationCrashes,  \* bound on crashes of a node while it unpacks
  MaxPublished          \* bound on entries ever published in the cache

ASSUME SnapshotAssumption ==
  {MaxHydrationCancels, MaxHydrationFaults, MaxHydrationCrashes, MaxPublished} \subseteq Nat

VARIABLES
  entry,        \* the cache path of the commit, and which clone it holds
  published,    \* clones renamed into the cache so far
  hydration,    \* per run: the request, its private clone, the archive, the workspace
  hydrationFaults

snapshotVars == <<entry, published, hydration, hydrationFaults>>

-----------------------------------------------------------------------------
Absent == [there |-> FALSE, git |-> FALSE, files |-> "none"]
Whole  == [there |-> TRUE, git |-> TRUE, files |-> "all"]
Dirs   == [there : BOOLEAN, git : BOOLEAN, files : {"none", "some", "all"}]

Unhydrated ==
  [at |-> "ask", over |-> FALSE, torn |-> FALSE, removes |-> 0, then |-> "", unread |-> FALSE,
   dest |-> Absent, archive |-> "none", workspace |-> Absent, crashed |-> FALSE]

SnapshotInit ==
  /\ \E d \in {Absent, Whole} : entry = [dir |-> d, clone |-> 0]
  /\ published = 0
  /\ hydration = [h \in Hydrations |-> Unhydrated]
  /\ hydrationFaults = [cancels |-> 0, faults |-> 0, crashes |-> 0]

Stands(h, p) == hydration[h].at = p
Turns(h, p) == hydration' = [hydration EXCEPT ![h].at = p]
CacheSame == UNCHANGED <<entry, published>>
FaultsSame == UNCHANGED hydrationFaults

HydrationFault ==
  /\ hydrationFaults.faults < MaxHydrationFaults
  /\ hydrationFaults' = [hydrationFaults EXCEPT !.faults = @ + 1]

\* git under the request's context: a command of a request that is over fails.
validateCachedClone(h, d) == d.git /\ ~hydration[h].over

\* A change of the cache entry while requests copy it tears their copies.
Tear(hs) == [g \in Hydrations |-> [hs[g] EXCEPT !.torn = @ \/ hs[g].at = "copying"]]

-----------------------------------------------------------------------------
(* The node asks; the server answers.                                       *)

\* hasGitDir: a workspace with a .git is reused as it is, and its HEAD is
\* not looked at again.  Otherwise what is there is removed and the snapshot
\* is downloaded.
prepareStickyWorkspace(h) ==
  /\ Stands(h, "ask")
  /\ \/ /\ hydration[h].workspace.git
        /\ Turns(h, "ready")
     \/ /\ ~hydration[h].workspace.git
        /\ hydration' = [hydration EXCEPT ![h] = [Unhydrated EXCEPT !.at = "request",
                                                                    !.crashed = hydration[h].crashed]]
  /\ CacheSame /\ FaultsSame

\* Unknown run, node without current work, no pinned commit or no token: the
\* request is refused before the fetch; otherwise Fetch looks at the cache.
getRunSnapshotHandler(h) ==
  /\ Stands(h, "request")
  /\ \/ Turns(h, "refused") /\ HydrationFault
     \/ Turns(h, IF entry.dir.there THEN "validate" ELSE "clone") /\ FaultsSame
  /\ CacheSame

\* The job is cancelled or the connection breaks: the request's context ends.
CancelHydration(h) ==
  /\ hydrationFaults.cancels < MaxHydrationCancels
  /\ ~hydration[h].over
  /\ hydration[h].at \notin {"ask", "unpack", "ready", "refused", "failed"}
  /\ hydration' = [hydration EXCEPT ![h].over = TRUE]
  /\ hydrationFaults' = [hydrationFaults EXCEPT !.cancels = @ + 1]
  /\ CacheSame

-----------------------------------------------------------------------------
(* Fetch through the cache.                                                 *)

\* An entry that does not validate is copied all the same and judged after.
ValidateEntry(h) ==
  /\ Stands(h, "validate")
  /\ Turns(h, IF validateCachedClone(h, entry.dir) THEN "sanitize" ELSE "copy")
  /\ CacheSame /\ FaultsSame

\* git remote set-url in the entry; when it fails the entry is removed.
SanitizeEntry(h) ==
  /\ Stands(h, "sanitize")
  /\ \/ ~hydration[h].over /\ Turns(h, "copy") /\ FaultsSame
     \/ /\ hydration[h].over \/ hydrationFaults.faults < MaxHydrationFaults
        /\ hydration' = [hydration EXCEPT ![h].at = "remove", ![h].then = "copy"]
        /\ IF hydration[h].over THEN FaultsSame ELSE HydrationFault
  /\ CacheSame

CopyFails(h) == [hydration EXCEPT ![h].at = "remove", ![h].then = "clone"]

copyGitClone(h) ==
  /\ Stands(h, "copy")
  /\ hydration' = IF entry.dir.git
                  THEN [hydration EXCEPT ![h].at = "copying",
                                         ![h].torn = entry.dir.files # "all",
                                         ![h].dest = [there |-> TRUE, git |-> TRUE, files |-> "none"]]
                  ELSE CopyFails(h)
  /\ CacheSame /\ FaultsSame

\* The copy of an entry that changed under it fails on what vanished between
\* listing and reading, or ends without the files that were gone already.
CopyEnds(h) ==
  /\ Stands(h, "copying")
  /\ \/ /\ ~hydration[h].torn
        /\ hydration' = [hydration EXCEPT ![h].at = "judge", ![h].dest = Whole]
        /\ FaultsSame
     \/ /\ hydration[h].torn
        /\ hydration' = [hydration EXCEPT ![h].at = "judge", ![h].dest.files = "some"]
        /\ FaultsSame
     \/ /\ hydration' = [CopyFails(h) EXCEPT ![h].dest.files = "some"]
        /\ IF hydration[h].torn THEN FaultsSame ELSE HydrationFault
  /\ CacheSame

\* The copy validates: it is the snapshot, once its origin is rewritten, which
\* may fail the request.  Otherwise it is removed, and the entry with it.
JudgeCopy(h) ==
  /\ Stands(h, "judge")
  /\ \/ /\ hydration' = IF validateCachedClone(h, hydration[h].dest)
                        THEN [hydration EXCEPT ![h].at = "verify"]
                        ELSE [CopyFails(h) EXCEPT ![h].dest = Absent]
        /\ FaultsSame
     \/ /\ hydration[h].dest.git
        /\ Turns(h, "error")
        /\ IF hydration[h].over THEN FaultsSame ELSE HydrationFault
  /\ CacheSame

\* os.RemoveAll of the cache path: what it finds there when it starts, piece
\* by piece, and at last the directory.
RemoveBegins(h) ==
  /\ Stands(h, "remove")
  /\ IF entry.dir.there
     THEN /\ \E left \in {[entry.dir EXCEPT !.git = FALSE],
                          [entry.dir EXCEPT !.files = "some"],
                          [entry.dir EXCEPT !.files = "none"]} :
               entry' = [entry EXCEPT !.dir = left]
          /\ hydration' = [Tear(hydration) EXCEPT ![h].at = "removing", ![h].removes = entry.clone]
     ELSE /\ Turns(h, hydration[h].then)
          /\ UNCHANGED entry
  /\ UNCHANGED published /\ FaultsSame

\* Another clone was renamed into place meanwhile: its directory is not empty
\* and the removal is an error of the fetch.
RemoveEnds(h) ==
  LET mine == entry.clone = hydration[h].removes
      next == IF entry.dir.there /\ ~mine
              THEN IF hydration[h].then = "tmp" THEN "verify" ELSE "error"
              ELSE hydration[h].then
  IN /\ Stands(h, "removing")
     /\ entry' = IF mine THEN [entry EXCEPT !.dir = Absent] ELSE entry
     /\ hydration' = [(IF mine THEN Tear(hydration) ELSE hydration) EXCEPT ![h].at = next]
     /\ UNCHANGED published /\ FaultsSame

\* git refuses to clone into a directory that is not empty.
cloneAndCheckout(h) ==
  /\ Stands(h, "clone")
  /\ \/ /\ ~hydration[h].over /\ ~hydration[h].dest.there
        /\ hydration' = [hydration EXCEPT ![h].at = "populate", ![h].dest = Whole]
        /\ FaultsSame
     \/ /\ Turns(h, "error")
        /\ IF hydration[h].over \/ hydration[h].dest.there THEN FaultsSame ELSE HydrationFault
  /\ CacheSame

-----------------------------------------------------------------------------
(* A fresh clone is copied beside the entry and renamed into its place; any *)
(* failure on the way leaves the fetch a success.                           *)

\* Mutant: the clone is copied to the cache path itself.
publishInPlace(h) ==
  /\ Stands(h, "rename")
  /\ published < MaxPublished
  /\ published' = published + 1
  /\ \/ entry' = [dir |-> [Whole EXCEPT !.files = "some"], clone |-> published']
        /\ UNCHANGED hydration
     \/ entry' = [dir |-> Whole, clone |-> published'] /\ Turns(h, "verify")
  /\ FaultsSame

populateCachedClone(h) ==
  /\ Stands(h, "populate")
  /\ hydration' = CASE hydration[h].over -> [hydration EXCEPT ![h].at = "verify"]
                    [] ~entry.dir.there -> [hydration EXCEPT ![h].at = "tmp"]
                    [] validateCachedClone(h, entry.dir) -> [hydration EXCEPT ![h].at = "verify"]
                    [] OTHER -> [hydration EXCEPT ![h].at = "remove", ![h].then = "tmp"]
  /\ CacheSame /\ FaultsSame

\* The temporary copy is this request's own; it has to validate.
CopyToTmp(h) ==
  /\ Stands(h, "tmp")
  /\ \/ ~hydration[h].over /\ Turns(h, "rename") /\ FaultsSame
     \/ Turns(h, "verify") /\ IF hydration[h].over THEN FaultsSame ELSE HydrationFault
  /\ CacheSame

publishClone(h) ==
  /\ Stands(h, "rename")
  /\ \/ /\ ~entry.dir.there
        /\ published < MaxPublished
        /\ published' = published + 1
        /\ entry' = [dir |-> Whole, clone |-> published']
     \/ entry.dir.there /\ CacheSame
  /\ Turns(h, "verify")
  /\ FaultsSame

-----------------------------------------------------------------------------
(* The archive and the workspace.                                           *)

verifyHEAD(h) ==
  /\ Stands(h, "verify")
  /\ \/ Turns(h, IF validateCachedClone(h, hydration[h].dest) THEN "stream" ELSE "error") /\ FaultsSame
     \/ Turns(h, "error") /\ HydrationFault
  /\ CacheSame

\* The status line is sent with the first byte.  A file that cannot be opened
\* ends the walk, and the deferred closes end the archive well formed; a read
\* that fails inside a file, or a lost connection, cuts it.
writeDirectoryTarGz(h) ==
  /\ Stands(h, "stream")
  /\ \/ /\ ~hydration[h].over
        /\ hydration' = [hydration EXCEPT ![h].at = "unpack", ![h].archive = hydration[h].dest.files]
        /\ FaultsSame
     \/ /\ ~hydration[h].over
        /\ hydration' = [hydration EXCEPT ![h].at = "unpack", ![h].archive = "some", ![h].unread = TRUE]
        /\ HydrationFault
     \/ /\ hydration' = [hydration EXCEPT ![h].at = "unpack", ![h].archive = "cut"]
        /\ IF hydration[h].over THEN FaultsSame ELSE HydrationFault
  /\ CacheSame

\* The deferred RemoveAll of the private clone; the node sees the status.
RequestFails(h) ==
  /\ Stands(h, "error")
  /\ Turns(h, "failed")
  /\ CacheSame /\ FaultsSame

\* .git comes first in the walk.
UnpackBegins(h) ==
  /\ Stands(h, "unpack") /\ ~hydration[h].workspace.there
  /\ \E g \in BOOLEAN :
       hydration' = [hydration EXCEPT ![h].workspace = [there |-> TRUE, git |-> g, files |-> "none"]]
  /\ CacheSame /\ FaultsSame

\* A cut archive is an error and the workspace is removed; otherwise HEAD is
\* compared with the commit the job names.
unpackTarGz(h) ==
  /\ Stands(h, "unpack") /\ hydration[h].workspace.there
  /\ hydration' = IF hydration[h].archive = "cut"
                  THEN [hydration EXCEPT ![h].at = "failed", ![h].workspace = Absent]
                  ELSE [hydration EXCEPT ![h].at = "ready",
                                         ![h].workspace = [there |-> TRUE, git |-> TRUE,
                                                           files |-> hydration[h].archive]]
  /\ CacheSame /\ FaultsSame

\* The node dies while it unpacks; the next job of the run starts over.
NodeDies(h) ==
  /\ hydrationFaults.crashes < MaxHydrationCrashes
  /\ Stands(h, "unpack")
  /\ hydration' = [hydration EXCEPT ![h].at = "ask", ![h].crashed = TRUE]
  /\ hydrationFaults' = [hydrationFaults EXCEPT !.crashes = @ + 1]
  /\ CacheSame

-----------------------------------------------------------------------------
\* The fetch of a request, step by step.
Fetch(h) ==
  \/ ValidateEntry(h) \/ SanitizeEntry(h) \/ copyGitClone(h) \/ CopyEnds(h) \/ JudgeCopy(h)
  \/ RemoveBegins(h) \/ RemoveEnds(h) \/ cloneAndCheckout(h)
  \/ populateCachedClone(h) \/ CopyToTmp(h) \/ publishClone(h)

SnapshotStep(h) ==
  \/ prepareStickyWorkspace(h) \/ getRunSnapshotHandler(h) \/ Fetch(h)
  \/ verifyHEAD(h) \/ writeDirectoryTarGz(h) \/ RequestFails(h)
  \/ UnpackBegins(h) \/ unpackTarGz(h)

SnapshotNext == \E h \in Hydrations : SnapshotStep(h) \/ CancelHydration(h) \/ NodeDies(h)

SnapshotSpec == SnapshotInit /\ [][SnapshotNext]_snapshotVars

-----------------------------------------------------------------------------
\* Clones are published in the cache by rename only, so whatever stands at
\* the cache path is the whole commit unless some request is removing it:
\* no reader ever meets an entry that is still being written.
EntryWhole ==
  entry.dir.there =>
    \/ entry.dir = Whole
    \/ \E h \in Hydrations : Stands(h, "removing") /\ hydration[h].removes = entry.clone

\* The workspace a job starts in is the whole pinned commit, except after the
\* two things the HEAD checks cannot see (a cache entry removed while it was
\* copied, a file the server could not open while it streamed) and after a
\* crash of the node while it unpacked.
HydratedWhole ==
  \A h \in Hydrations :
    Stands(h, "ready") =>
      \/ hydration[h].workspace = Whole
      \/ hydration[h].torn \/ hydration[h].unread \/ hydration[h].crashed

\* Nobody works on a part of a commit.
SnapshotsWhole ==
  /\ EntryWhole
  /\ HydratedWhole
=============================================================================
