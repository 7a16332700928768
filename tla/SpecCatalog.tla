---------------------------- MODULE SpecCatalog ----------------------------
(***************************************************************************)
(* The named-spec catalog of the server (speccatalog/catalog.go, git.go,      *)
(* discovery.go, selector.go).  A request refreshes every configured Git       *)
(* repository, one goroutine each; callers that meet a refresh of the same      *)
(* repository share it.  A submission then resolves its selector and compiles   *)
(* from the checkout, which a read lock keeps from being refreshed.             *)
(*                                                                         *)
(* Commits of a repository are 1, 2, ..; TrackedRefs[r][c] says whether commit c     *)
(* tracks a spec of the name the submissions select.                            *)
(***************************************************************************)
EXTENDS Naturals, FiniteSets, Sequences

CONSTANTS CatalogRepos, Requests, TrackedRefs, MaxCancels, MaxGitFaults

ASSUME CatalogAssumption ==
  /\ IsFiniteSet(CatalogRepos) /\ IsFiniteSet(Requests)
  /\ \A r \in CatalogRepos : TrackedRefs[r] \in Seq(BOOLEAN) /\ TrackedRefs[r] # <<>>
  /\ MaxCancels \in Nat /\ MaxGitFaults \in Nat

NoOne == "no one"
Torn == 1000   \* the files of a checkout that was interrupted

VARIABLES
  remote,     \* the default branch of each repository
  checkout,   \* its cached checkout: [head, files, fetched], head 0 when there is none
  inFlight,   \* repository.inFlight: the request that leads the refresh
  writer,     \* checkoutMu: its writer, and (readers) the requests that hold it for reading
  readers,
  fetch,      \* the goroutine of each request and repository; began: the remote at the start
  request,    \* [pc, kind, repo, sha, answer]
  gone,       \* requests whose context is cancelled
  gitFaults   \* git commands that may still fail

catalogVars ==
  <<remote, checkout, inFlight, writer, readers, fetch, request, gone, gitFaults>>

NotFetching == [pc |-> "idle", call |-> NoOne, ok |-> TRUE, sha |-> 0, began |-> 0]
Unasked == [pc |-> "idle", kind |-> "list", repo |-> NoOne, sha |-> 0, answer |-> ""]

CatalogInit ==
  /\ remote = [r \in CatalogRepos |-> 1]
  /\ checkout = [r \in CatalogRepos |-> [head |-> 0, files |-> 0, fetched |-> 0]]
  /\ inFlight = [r \in CatalogRepos |-> NoOne]
  /\ writer = [r \in CatalogRepos |-> NoOne]
  /\ readers = [r \in CatalogRepos |-> {}]
  /\ fetch = [q \in Requests |-> [r \in CatalogRepos |-> NotFetching]]
  /\ request = [q \in Requests |-> Unasked]
  /\ gone = {}
  /\ gitFaults = MaxGitFaults

\* someone pushes to a repository
Push(r) == /\ remote[r] < Len(TrackedRefs[r])
           /\ remote' = [remote EXCEPT ![r] = @ + 1]
           /\ UNCHANGED <<checkout, inFlight, writer, readers, fetch, request, gone, gitFaults>>

\* a client goes away, and the server cancels its request
CancelRequest(q) ==
  /\ request[q].pc \notin {"idle", "done"} /\ q \notin gone /\ Cardinality(gone) < MaxCancels
  /\ gone' = gone \cup {q}
  /\ UNCHANGED <<remote, checkout, inFlight, writer, readers, fetch, request, gitFaults>>

-----------------------------------------------------------------------------
(* List: a goroutine per repository *)

Listing(q) == [r \in CatalogRepos |-> [NotFetching EXCEPT !.pc = "refresh"]]
List(q, kind) ==
  /\ request[q].pc = "idle"
  /\ request' = [request EXCEPT ![q] = [@ EXCEPT !.pc = "listing", !.kind = kind]]
  /\ fetch' = [fetch EXCEPT ![q] = Listing(q)]
  /\ UNCHANGED <<remote, checkout, inFlight, writer, readers, gone, gitFaults>>

Advances(q, r, pc) == fetch' = [fetch EXCEPT ![q][r].pc = pc]
AtStep(q, r, pc) == fetch[q][r].pc = pc

\* refresh: join the refresh in flight or lead one
JoinOrLead(q, r) ==
  /\ AtStep(q, r, "refresh")
  /\ IF inFlight[r] # NoOne
     THEN /\ fetch' = [fetch EXCEPT ![q][r] = [@ EXCEPT !.pc = "waiting", !.call = inFlight[r],
                                                        !.began = fetch[inFlight[r]][r].began]]
          /\ UNCHANGED inFlight
     ELSE /\ fetch' = [fetch EXCEPT ![q][r] = [@ EXCEPT !.pc = "lock", !.began = remote[r]]]
          /\ inFlight' = [inFlight EXCEPT ![r] = q]
  /\ UNCHANGED <<remote, checkout, writer, readers, request, gone, gitFaults>>

\* a waiting caller leaves when its own context ends
LeaveCall(q, r) ==
  /\ AtStep(q, r, "waiting") /\ q \in gone
  /\ fetch' = [fetch EXCEPT ![q][r] = [@ EXCEPT !.pc = "returned", !.ok = FALSE]]
  /\ UNCHANGED <<remote, checkout, inFlight, writer, readers, request, gone, gitFaults>>

\* checkoutMu.Lock: a writer that waits keeps new readers out
AskLock(q, r) == /\ AtStep(q, r, "lock") /\ Advances(q, r, "locking")
                 /\ UNCHANGED <<remote, checkout, inFlight, writer, readers, request, gone, gitFaults>>
Lock(q, r) ==
  /\ AtStep(q, r, "locking") /\ writer[r] = NoOne /\ readers[r] = {}
  /\ writer' = [writer EXCEPT ![r] = q]
  /\ Advances(q, r, "fetch")
  /\ UNCHANGED <<remote, checkout, inFlight, readers, request, gone, gitFaults>>

\* refreshNow, over its git commands; each fails for a request that is gone
GitFails(q) == \/ q \in gone /\ UNCHANGED gitFaults
               \/ gitFaults > 0 /\ gitFaults' = gitFaults - 1
Fails(q, r) == fetch' = [fetch EXCEPT ![q][r] = [@ EXCEPT !.pc = "unlock", !.ok = FALSE]]

GitFetch(q, r) ==
  /\ AtStep(q, r, "fetch") /\ q \notin gone
  /\ IF checkout[r].head = 0
     THEN /\ checkout' = [checkout EXCEPT ![r] = [head |-> remote[r], files |-> remote[r], fetched |-> remote[r]]]
          /\ Advances(q, r, "scan")
     ELSE /\ checkout' = [checkout EXCEPT ![r].fetched = remote[r]]
          /\ Advances(q, r, "checkout")
  /\ UNCHANGED <<remote, inFlight, writer, readers, request, gone, gitFaults>>

GitCheckout(q, r) ==
  /\ AtStep(q, r, "checkout") /\ q \notin gone
  /\ checkout' = [checkout EXCEPT ![r] = [@ EXCEPT !.head = checkout[r].fetched, !.files = checkout[r].fetched]]
  /\ Advances(q, r, "scan")
  /\ UNCHANGED <<remote, inFlight, writer, readers, request, gone, gitFaults>>

\* git is killed while it writes the files, before it moves HEAD
KilledCheckout(q, r) ==
  /\ AtStep(q, r, "checkout") /\ q \in gone /\ checkout[r].fetched # checkout[r].head
  /\ checkout' = [checkout EXCEPT ![r].files = Torn]
  /\ Fails(q, r)
  /\ UNCHANGED <<remote, inFlight, writer, readers, request, gone, gitFaults>>

\* scan lists what HEAD tracks
Scan(q, r) ==
  /\ AtStep(q, r, "scan") /\ q \notin gone
  /\ fetch' = [fetch EXCEPT ![q][r] = [@ EXCEPT !.pc = "unlock", !.sha = checkout[r].head]]
  /\ UNCHANGED <<remote, checkout, inFlight, writer, readers, request, gone, gitFaults>>

GitCommandFails(q, r) ==
  /\ AtStep(q, r, "fetch") \/ AtStep(q, r, "checkout") \/ AtStep(q, r, "scan")
  /\ GitFails(q)
  /\ Fails(q, r)
  /\ UNCHANGED <<remote, checkout, inFlight, writer, readers, request, gone>>

Unlock(q, r) ==
  /\ AtStep(q, r, "unlock")
  /\ writer' = [writer EXCEPT ![r] = NoOne]
  /\ Advances(q, r, "publish")
  /\ UNCHANGED <<remote, checkout, inFlight, readers, request, gone, gitFaults>>

Shared(q, r, p) == fetch[p][r].pc = "waiting" /\ fetch[p][r].call = q
Outcome(q, r) == [fetch[q][r] EXCEPT !.pc = "returned"]

\* Mutant: a refresh that fails forgets those who wait for it
PublishSuccess(q, r) ==
  /\ AtStep(q, r, "publish")
  /\ inFlight' = [inFlight EXCEPT ![r] = NoOne]
  /\ fetch' = [p \in Requests |-> [fetch[p] EXCEPT ![r] =
                 IF p = q \/ (Shared(q, r, p) /\ fetch[q][r].ok) THEN Outcome(q, r) ELSE @]]
  /\ UNCHANGED <<remote, checkout, writer, readers, request, gone, gitFaults>>

\* the leader publishes the outcome of its call to all who share it
PublishRefresh(q, r) ==
  /\ AtStep(q, r, "publish")
  /\ inFlight' = [inFlight EXCEPT ![r] = NoOne]
  /\ fetch' = [p \in Requests |-> [fetch[p] EXCEPT ![r] =
                 IF p = q \/ Shared(q, r, p) THEN Outcome(q, r) ELSE @]]
  /\ UNCHANGED <<remote, checkout, writer, readers, request, gone, gitFaults>>

-----------------------------------------------------------------------------
(* The request *)

Listed(q) == request[q].pc = "listing" /\ \A r \in CatalogRepos : AtStep(q, r, "returned")
AnswerRequest(q, a) == request' = [request EXCEPT ![q] = [@ EXCEPT !.pc = "done", !.answer = a]]
Matches(q) == {r \in CatalogRepos : TrackedRefs[r][fetch[q][r].sha]}

\* List returns; resolveEntries wants exactly one match
ResolveEntries(q) ==
  /\ Listed(q)
  /\ IF \E r \in CatalogRepos : ~fetch[q][r].ok THEN AnswerRequest(q, "503")
     ELSE IF request[q].kind = "list" THEN AnswerRequest(q, "200")
     ELSE IF Matches(q) = {} THEN AnswerRequest(q, "404")
     ELSE IF Cardinality(Matches(q)) > 1 THEN AnswerRequest(q, "409")
     ELSE LET r == CHOOSE s \in CatalogRepos : s \in Matches(q)
          IN  request' = [request EXCEPT ![q] = [@ EXCEPT !.pc = "rlock", !.repo = r, !.sha = fetch[q][r].sha]]
  /\ UNCHANGED <<remote, checkout, inFlight, writer, readers, fetch, gone, gitFaults>>

Readable(r) == writer[r] = NoOne /\ \A q \in Requests : ~AtStep(q, r, "locking")

\* Mutant: the lock is let go before the checkout is used.
VerifyUnheld(q) ==
  LET r == request[q].repo
  IN  /\ request[q].pc = "rlock" /\ Readable(r)
      /\ \/ GitFails(q) /\ AnswerRequest(q, "503") /\ UNCHANGED fetch
         \/ /\ q \notin gone /\ UNCHANGED gitFaults
            /\ IF checkout[r].head = request[q].sha
               THEN request' = [request EXCEPT ![q].pc = "using"] /\ UNCHANGED fetch
               ELSE /\ request' = [request EXCEPT ![q].pc = "listing"]
                    /\ fetch' = [fetch EXCEPT ![q] = Listing(q)]
      /\ UNCHANGED <<remote, checkout, inFlight, writer, readers, gone>>

\* RLock, and git rev-parse HEAD under it
Verify(q) ==
  LET r == request[q].repo
  IN  /\ request[q].pc = "rlock" /\ Readable(r)
      /\ \/ GitFails(q) /\ AnswerRequest(q, "503") /\ UNCHANGED <<readers, fetch>>
         \/ /\ q \notin gone /\ UNCHANGED gitFaults
            /\ IF checkout[r].head = request[q].sha
               THEN /\ request' = [request EXCEPT ![q].pc = "using"]
                    /\ readers' = [readers EXCEPT ![r] = @ \cup {q}]
                    /\ UNCHANGED fetch
               ELSE /\ request' = [request EXCEPT ![q].pc = "listing"]
                    /\ fetch' = [fetch EXCEPT ![q] = Listing(q)]
                    /\ UNCHANGED readers
      /\ UNCHANGED <<remote, checkout, inFlight, writer, gone>>

\* the callback returns, and the read lock with it
Used(q) ==
  /\ request[q].pc = "using"
  /\ AnswerRequest(q, "200")
  /\ readers' = [readers EXCEPT ![request[q].repo] = @ \ {q}]
  /\ UNCHANGED <<remote, checkout, inFlight, writer, fetch, gone, gitFaults>>

-----------------------------------------------------------------------------
Step(q, r) == \/ JoinOrLead(q, r) \/ LeaveCall(q, r) \/ AskLock(q, r) \/ Lock(q, r)
              \/ GitFetch(q, r) \/ GitCheckout(q, r) \/ KilledCheckout(q, r)
              \/ Scan(q, r) \/ GitCommandFails(q, r) \/ Unlock(q, r) \/ PublishRefresh(q, r)
Proceed(q) == ResolveEntries(q) \/ Verify(q) \/ Used(q)
CatalogNext ==
  \/ \E r \in CatalogRepos : Push(r)
  \/ \E q \in Requests : CancelRequest(q) \/ Proceed(q) \/ \E kind \in {"list", "use"} : List(q, kind)
  \/ \E q \in Requests, r \in CatalogRepos : Step(q, r)

\* goroutines run, git commands end, and callbacks return
CatalogFairness ==
  /\ \A q \in Requests : WF_catalogVars(Proceed(q))
  /\ \A q \in Requests, r \in CatalogRepos : WF_catalogVars(Step(q, r))
CatalogSpec == CatalogInit /\ [][CatalogNext]_catalogVars /\ CatalogFairness

-----------------------------------------------------------------------------
(* Properties *)

\* While a submission compiles from a checkout no refresh moves it to another commit: its
\* files are those of the commit that was resolved, or those an interrupted git left.
ResolvedCommitStays ==
  \A q \in Requests : request[q].pc = "using" =>
    checkout[request[q].repo].files \in {request[q].sha, Torn}

\* What a list shows was the default branch after the refresh it shares began: a fetch
\* that fails is reported, and never hidden by the cached checkout.
ListsFetchedCommit ==
  \A q \in Requests, r \in CatalogRepos :
    (AtStep(q, r, "returned") /\ fetch[q][r].ok) => fetch[q][r].sha >= fetch[q][r].began

\* Every request is answered: no caller waits for a refresh that is over, and readers
\* and refreshes of a checkout let each other pass.
RequestsAnswered ==
  \A q \in Requests : request[q].pc # "idle" ~> request[q].pc = "done"

\* Whoever shares a checkout sees one commit, and none older than asked for.
CheckoutsConsistent ==
  /\ ResolvedCommitStays
  /\ ListsFetchedCommit
=============================================================================
