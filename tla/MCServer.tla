------------------------------ MODULE MCServer ------------------------------
(***************************************************************************)
(* The server's processes and streams, and the clients that read them, for *)
(* TLC: the log hub, the upload of log chunks, the reader of stored and    *)
(* live lines, the stream client, the follower of a run, the ployd process *)
(* and the refresh of the spec catalog.  They share no state: `focus` names*)
(* the one that moves in a behaviour, so the states are those of the       *)
(* components one by one.                                                  *)
(***************************************************************************)
EXTENDS EventHub, LogUpload, LogBackfill, StreamClient, RunFollow, ServerProcess, SpecCatalog, TLC

VARIABLE focus

\* Two lines of the first execution and none of the second; one of each.
FewLines == 0 :> 2 @@ 1 :> 0
OneLineEach == 0 :> 1 @@ 1 :> 1

\* Three stored chunks of different lines.
DistinctTexts == << <<"a">>, <<"b", "c">>, <<"d">> >>

\* Two commits of a repository, both with the wanted spec.
BothTracked == [r \in CatalogRepos |-> <<TRUE, TRUE>>]

serverVars == <<hubVars, uploadVars, backfillVars, clientVars, followVars, procVars,
                catalogVars, focus>>

ServerInit ==
  /\ focus \in {"hub", "upload", "backfill", "client", "follow", "ployd", "catalog"}
  /\ HubInit /\ UploadInit /\ BackfillInit /\ ClientInit /\ FollowInit /\ ProcessInit /\ CatalogInit
  /\ focus # "ployd" => environ = [stale |-> "", missing |-> ""] /\ cert.left = Validity

ServerNext ==
  /\ UNCHANGED focus
  /\ \/ /\ focus = "hub" /\ HubNext
        /\ UNCHANGED <<uploadVars, backfillVars, clientVars, followVars, procVars, catalogVars>>
     \/ /\ focus = "upload" /\ UploadNext
        /\ UNCHANGED <<hubVars, backfillVars, clientVars, followVars, procVars, catalogVars>>
     \/ /\ focus = "backfill" /\ BackfillNext
        /\ UNCHANGED <<hubVars, uploadVars, clientVars, followVars, procVars, catalogVars>>
     \/ /\ focus = "client" /\ ClientNext
        /\ UNCHANGED <<hubVars, uploadVars, backfillVars, followVars, procVars, catalogVars>>
     \/ /\ focus = "follow" /\ FollowNext
        /\ UNCHANGED <<hubVars, uploadVars, backfillVars, clientVars, procVars, catalogVars>>
     \/ /\ focus = "ployd" /\ ProcessNext
        /\ UNCHANGED <<hubVars, uploadVars, backfillVars, clientVars, followVars, catalogVars>>
     \/ /\ focus = "catalog" /\ CatalogNext
        /\ UNCHANGED <<hubVars, uploadVars, backfillVars, clientVars, followVars, procVars>>

\* The fairness of the component in focus.
ServerFairness ==
  /\ \A p \in Publishers : WF_hubVars(focus = "hub" /\ Publish(p))
  /\ \A c \in Clients : WF_hubVars(focus = "hub" /\ Serve(c))
  /\ \A e \in 0..LogRetries : WF_uploadVars(focus = "upload" /\ UploadSteps(e))
  /\ WF_uploadVars(focus = "upload" /\ RequestSteps)
  /\ WF_backfillVars(focus = "backfill" /\ ServeLogs)
  /\ WF_clientVars(focus = "client" /\ (ConnectFails \/ Reconnect))
  /\ WF_clientVars(focus = "client" /\ ~reachable /\ ConnectionEnds)
  /\ WF_followVars(focus = "follow" /\ (FetchOK \/ FetchFails))
  /\ \A j \in FollowJobs, n \in 1..MaxTrackers :
       WF_followVars(focus = "follow" /\ <<j, n>> \in cancelled /\ TrackerEnds(<<j, n>>))
  /\ WF_procVars(focus = "ployd" /\ MainSteps)
  /\ WF_procVars(focus = "ployd" /\ TimeIsUp)
  /\ WF_procVars(focus = "ployd" /\ RequestEnds)
  /\ \A t \in TaskNames : WF_procVars(focus = "ployd" /\ (RunReturns(t) \/ CycleTimerFires(t)))
  /\ WF_procVars(focus = "ployd" /\ \E fails \in BOOLEAN : RenewReturns(fails))
  /\ \A q \in Requests : WF_catalogVars(focus = "catalog" /\ Proceed(q))
  /\ \A q \in Requests, r \in CatalogRepos : WF_catalogVars(focus = "catalog" /\ Step(q, r))

ServerSpec == ServerInit /\ [][ServerNext]_serverVars /\ ServerFairness

\* What was begun comes to an end: readers of an ended stream, the closing of a
\* log streamer, a log reader, a client without a server, a follower and its
\* goroutines, a process that got its signal, a request to the catalog.
ServerProgress ==
  /\ ReadersLetGo /\ StreamerCloses /\ ReaderEnds /\ GivesUpEventually
  /\ FollowEnds /\ NoTrackerLeft /\ SignalEndsProcess /\ RequestsAnswered
=============================================================================
