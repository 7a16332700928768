------------------------------- MODULE MCData -------------------------------
(***************************************************************************)
(* What the server stores and computes, for TLC: the records of migs, nodes,*)
(* tokens, blobs and global variables, the source snapshots, and the pure  *)
(* parts (stack detection, gate plan, spec compilation, job manifest, run  *)
(* reports).  They share no state: `focus` names the one that moves in a   *)
(* behaviour, so the states are those of the components one by one.        *)
(***************************************************************************)
EXTENDS MigRegistry, NodeRecords, GitLabTokens, RunBlobs, GlobalEnv, SourceSnapshot,
        MCGatePlan, MCSpecSources, MCJobManifest, MCRunReports

VARIABLE focus

\* A spec with one step and a gate, one with two steps and none.
TwoBodies == {[steps |-> 1, gate |-> TRUE], [steps |-> 2, gate |-> FALSE]}
OneImport == {<<"u2", "bad", "u1">>}

\* Requests with a blank line and with a line above the limit.
ThreeUploads == "a" :> <<"line", "blank", "line">> @@ "b" :> <<"line", "huge">> @@ "c" :> <<"line">>
TwoJobs == <<"j1", "j2">>

\* The mig has no repository, or both; its spec has a gate.
RegistryStart == RegistryInit /\ specs[1].body.gate /\ Cardinality(members) # 1

\* Where a component has many initial states, one stands for them while
\* another component moves.
RegistryRest == RegistryInit /\ members = {} /\ runs = <<>> /\ specs[1].body.gate
EnvRest == EnvInit /\ envRows = [t \in Targets |-> Unset]
SnapshotRest == SnapshotInit /\ entry.dir = Absent
DetectRest == workspace = EmptyWorkspace /\ detected = Nothing /\ toolOnly = Nothing
GateRest ==
  /\ gateSpec = (CHOOSE s \in GateSpecs : ValidateGate(s)) /\ source = EmptyWorkspace
  /\ gates = 0 /\ verdict = NoVerdict /\ reported = NoStack /\ persisted = "" /\ migImage = ""
SourcesRest ==
  /\ tree = (CHOOSE t \in Bare : TRUE)
  /\ compiled = Rejected("not compiled") /\ checked = Rejected("not compiled") /\ loaded = Rejected("not compiled")
ManifestRest ==
  /\ submission = Base
  /\ canonical = Waiting /\ claimed = Waiting /\ parsed = Waiting /\ created = Waiting
ReportsRest == report = (CHOOSE r \in JobGraphs(1) : TRUE) /\ listed = Unlisted

dataVars == <<regVars, recVars, tokVars, blobVars, envVars, snapshotVars, gateVars, sourceVars,
              manifestVars, reportVars, detectVars, focus>>

DataInit ==
  /\ focus \in {"registry", "drains", "daemonLogs", "tokens", "blobs", "env", "snapshot", "gate",
                "sources", "manifest", "reports", "detect"}
  /\ RecordsInit /\ TokensInit /\ BlobsInit
  /\ IF focus = "registry" THEN RegistryStart ELSE RegistryRest
  /\ IF focus = "env" THEN EnvInit ELSE EnvRest
  /\ IF focus = "snapshot" THEN SnapshotInit ELSE SnapshotRest
  /\ IF focus = "gate" THEN GateInit ELSE GateRest
  /\ IF focus = "sources" THEN SourcesInit ELSE SourcesRest
  /\ IF focus = "manifest" THEN ManifestInit ELSE ManifestRest
  /\ IF focus = "reports" THEN ReportsInit ELSE ReportsRest
  /\ IF focus = "detect" THEN DetectInit ELSE DetectRest

DataNext ==
  /\ UNCHANGED focus
  /\ \/ /\ focus = "registry" /\ RegistryNext
        /\ UNCHANGED <<recVars, tokVars, blobVars, envVars, snapshotVars, gateVars, sourceVars,
                       manifestVars, reportVars, detectVars>>
     \/ /\ focus = "drains" /\ DrainNext
        /\ UNCHANGED <<regVars, tokVars, blobVars, envVars, snapshotVars, gateVars, sourceVars,
                       manifestVars, reportVars, detectVars>>
     \/ /\ focus = "daemonLogs" /\ DaemonLogNext
        /\ UNCHANGED <<regVars, tokVars, blobVars, envVars, snapshotVars, gateVars, sourceVars,
                       manifestVars, reportVars, detectVars>>
     \/ /\ focus = "tokens" /\ TokensNext
        /\ UNCHANGED <<regVars, recVars, blobVars, envVars, snapshotVars, gateVars, sourceVars,
                       manifestVars, reportVars, detectVars>>
     \/ /\ focus = "blobs" /\ BlobsNext
        /\ UNCHANGED <<regVars, recVars, tokVars, envVars, snapshotVars, gateVars, sourceVars,
                       manifestVars, reportVars, detectVars>>
     \/ /\ focus = "env" /\ EnvNext
        /\ UNCHANGED <<regVars, recVars, tokVars, blobVars, snapshotVars, gateVars, sourceVars,
                       manifestVars, reportVars, detectVars>>
     \/ /\ focus = "snapshot" /\ SnapshotNext
        /\ UNCHANGED <<regVars, recVars, tokVars, blobVars, envVars, gateVars, sourceVars,
                       manifestVars, reportVars, detectVars>>
     \/ /\ focus = "gate" /\ GateNext
        /\ UNCHANGED <<regVars, recVars, tokVars, blobVars, envVars, snapshotVars, sourceVars,
                       manifestVars, reportVars, detectVars>>
     \/ /\ focus = "sources" /\ SourcesNext
        /\ UNCHANGED <<regVars, recVars, tokVars, blobVars, envVars, snapshotVars, gateVars,
                       manifestVars, reportVars, detectVars>>
     \/ /\ focus = "manifest" /\ ManifestNext
        /\ UNCHANGED <<regVars, recVars, tokVars, blobVars, envVars, snapshotVars, gateVars,
                       sourceVars, reportVars, detectVars>>
     \/ /\ focus = "reports" /\ ReportsNext
        /\ UNCHANGED <<regVars, recVars, tokVars, blobVars, envVars, snapshotVars, gateVars,
                       sourceVars, manifestVars, detectVars>>
     \/ /\ focus = "detect" /\ DetectNext
        /\ UNCHANGED <<regVars, recVars, tokVars, blobVars, envVars, snapshotVars, gateVars,
                       sourceVars, manifestVars, reportVars>>

DataSpec == DataInit /\ [][DataNext]_dataVars
=============================================================================
