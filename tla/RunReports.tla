----------------------------- MODULE RunReports -----------------------------
(***************************************************************************)
(* What is computed for the reader of a run: the order in which its jobs,   *)
(* artifacts and diffs are listed, rebuilt from the successor links by two  *)
(* functions written apart, and the packages that appeared, disappeared or  *)
(* changed between the gates before and after the migration.                *)
(*                                                                          *)
(* Job ids, package names and versions are numbers, so that they have the   *)
(* order the sorts use; 0 is the blank name, version or successor.  A       *)
(* package name is written with its case, which normalisation drops.        *)
(***************************************************************************)
EXTENDS Naturals, Sequences, FiniteSets
LOCAL INSTANCE SequencesExt

CONSTANT Reports   \* sequence of sets of [jobs, next, pre, post]

VARIABLES report, listed

reportVars == <<report, listed>>

-----------------------------------------------------------------------------
(* The order of a run's jobs.                                               *)

Sorted(S) == SetToSortSeq(S, <)

RECURSIVE Walk(_, _, _, _)

\* Jobs of the listing that no other job of the listing names as successor.
heads(jobs, next) ==
  {j \in Range(jobs) : ~\E i \in Range(jobs) : next[i] = j}

\* Mutant: the heads are walked in the order of the listing.
headsAsListed(jobs, next) == SelectSeq(jobs, LAMBDA j : j \in heads(jobs, next))

sortedHeads(jobs, next) == Sorted(heads(jobs, next))

\* walkChain: follow the links until a job that is visited or not listed.
Walk(j, jobs, next, out) ==
  IF j \in Range(out) \/ j \notin Range(jobs) THEN out
  ELSE Walk(next[j], jobs, next, Append(out, j))

WalkAll(starts, jobs, next, out) ==
  FoldLeft(LAMBDA acc, j : Walk(j, jobs, next, acc), out, starts)

\* jobchain.Order: heads first; what is left (cycles) is walked from its
\* smallest ids.
Order(jobs, next) ==
  LET out == WalkAll(sortedHeads(jobs, next), jobs, next, << >>)
  IN IF Len(jobs) <= 1 THEN jobs
     ELSE WalkAll(Sorted(Range(jobs) \ Range(out)), jobs, next, out)

\* deriveJobOrderByChain: the same walk, but what is left is listed by id.
deriveJobOrderByChain(jobs, next) ==
  LET walked == WalkAll(sortedHeads(jobs, next), jobs, next, << >>)
      out == walked \o Sorted(Range(jobs) \ Range(walked))
  IN [j \in Range(jobs) |-> CHOOSE i \in DOMAIN out : out[i] = j]

\* The artifacts and the diffs of a run are listed by that number.
ByChainOrder(jobs, next) ==
  LET place == deriveJobOrderByChain(jobs, next)
  IN SetToSortSeq(Range(jobs), LAMBDA i, j : place[i] < place[j])

-----------------------------------------------------------------------------
(* Packages.                                                                *)

\* normalizeLib, normalizeVer: the case of a name goes, blanks are dropped.
Normalized(packages) ==
  {[lib |-> p.name.id, ver |-> p.ver] : p \in {q \in Range(packages) : q.name.id # 0 /\ q.ver # 0}}

\* The node reads the gate's report; a document of neither format has no
\* packages, and a gate without a report saves nothing.
ExtractPackages(doc) ==
  IF doc.format \in {"spdx", "cyclonedx"} THEN Normalized(doc.packages) ELSE {}

\* The rows of the job are deleted and the packages of the upload inserted.
persistJobSBOMPackages(rows, job, packages) ==
  {r \in rows : r.job # job} \cup {[job |-> job, lib |-> p.lib, ver |-> p.ver] : p \in packages}

persistGateSBOM(rows, job, doc) ==
  IF doc.format = "missing" THEN rows ELSE persistJobSBOMPackages(rows, job, ExtractPackages(doc))

listRunSBOMPackages(rows, job) ==
  {[lib |-> r.lib, ver |-> r.ver] : r \in {q \in rows : q.job = job}}

VersionsOf(packages, lib) == {p.ver : p \in {q \in packages : q.lib = lib}}

Removed(lib, v) == [lib |-> lib, pre |-> v, post |-> 0, change |-> "removed"]
Added(lib, v)   == [lib |-> lib, pre |-> 0, post |-> v, change |-> "added"]
Changed(lib, v, w) == [lib |-> lib, pre |-> v, post |-> w, change |-> "changed"]

\* The greatest version only one side has is paired with the other side's.
DiffOf(lib, preOnly, postOnly) ==
  LET n == Len(preOnly)  m == Len(postOnly)
  IN IF n > 0 /\ m > 0
     THEN [i \in 1..(n - 1) |-> Removed(lib, preOnly[i])]
            \o << Changed(lib, preOnly[n], postOnly[m]) >>
            \o [i \in 1..(m - 1) |-> Added(lib, postOnly[i])]
     ELSE [i \in 1..n |-> Removed(lib, preOnly[i])] \o [i \in 1..m |-> Added(lib, postOnly[i])]

diffSBOMPackages(pre, post) ==
  FoldLeft(LAMBDA out, lib :
             out \o DiffOf(lib, Sorted(VersionsOf(pre, lib) \ VersionsOf(post, lib)),
                                Sorted(VersionsOf(post, lib) \ VersionsOf(pre, lib))),
           << >>, Sorted({p.lib : p \in pre \cup post}))

-----------------------------------------------------------------------------
Unlisted == [order |-> << >>, byChain |-> << >>, diff |-> << >>]

ReportsInit ==
  /\ \E i \in DOMAIN Reports : report \in Reports[i]
  /\ listed = Unlisted

\* The gates save their packages, and the lists are asked for.
ListReports ==
  LET rows == persistGateSBOM(persistGateSBOM({}, "pre", report.pre), "post", report.post)
  IN /\ listed = Unlisted
     /\ listed' = [order |-> Order(report.jobs, report.next),
                   byChain |-> ByChainOrder(report.jobs, report.next),
                   diff |-> diffSBOMPackages(listRunSBOMPackages(rows, "pre"),
                                             listRunSBOMPackages(rows, "post"))]
     /\ UNCHANGED report

ReportsNext == ListReports

ReportsSpec == ReportsInit /\ [][ReportsNext]_reportVars

-----------------------------------------------------------------------------
Done == listed # Unlisted

RECURSIVE Behind(_, _, _)
Behind(j, left, next) == IF j \in left THEN {j} \cup Behind(next[j], left \ {j}, next) ELSE {}

\* The chains a run can have: no job follows two others, and none follows itself.
IsChains(jobs, next) ==
  /\ \A i, j \in Range(jobs) : (next[i] = next[j] /\ next[i] \in Range(jobs)) => i = j
  /\ UNION {Behind(h, Range(jobs), next) : h \in heads(jobs, next)} = Range(jobs)

\* Whatever order the rows come in and whatever their links are, cycles and
\* dangling links included, the jobs are listed once each and in the same
\* order: "a deterministic order even for malformed/disconnected chains".
OrderIgnoresListing ==
  Done => /\ Range(listed.order) = Range(report.jobs)
          /\ Len(listed.order) = Len(report.jobs)
          /\ listed.order = Order(Sorted(Range(report.jobs)), report.next)

\* For the chains a run can have, a job's successor comes directly after it
\* in the list of jobs and in the lists of artifacts and diffs, which are
\* ordered by another function: the lists of one run never disagree.
ListsFollowChain ==
  (Done /\ IsChains(report.jobs, report.next)) =>
    /\ listed.byChain = listed.order
    /\ \A i \in DOMAIN listed.byChain :
         LET n == report.next[listed.byChain[i]]
         IN n \in Range(report.jobs) => i < Len(listed.byChain) /\ listed.byChain[i + 1] = n

Pairs(diff, side) == {<<e.lib, e[side]>> : e \in {d \in Range(diff) : d[side] # 0}}
PairsOf(doc) == {<<p.lib, p.ver>> : p \in ExtractPackages(doc)}

\* The package diff is exact: its removals are the packages only the gate
\* before the migration saw, its additions those only the gate after it saw,
\* a changed package counting as both, and nothing is reported twice.
DiffIsExact ==
  Done => /\ Pairs(listed.diff, "pre") = PairsOf(report.pre) \ PairsOf(report.post)
          /\ Pairs(listed.diff, "post") = PairsOf(report.post) \ PairsOf(report.pre)
          /\ Len(SelectSeq(listed.diff, LAMBDA e : e.pre # 0)) = Cardinality(Pairs(listed.diff, "pre"))
          /\ Len(SelectSeq(listed.diff, LAMBDA e : e.post # 0)) = Cardinality(Pairs(listed.diff, "post"))

\* The lists and the package diff of a run are functions of its rows alone.
ReportsSound ==
  /\ OrderIgnoresListing
  /\ ListsFollowChain
  /\ DiffIsExact
=============================================================================
