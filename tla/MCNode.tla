------------------------------- MODULE MCNode -------------------------------
(***************************************************************************)
(* The processes of a node, for TLC: the workspace of a run, the agent with*)
(* its claim loop, executions and sweeps, the enrolment of a host and the  *)
(* heartbeat.  They share no state: `focus` names the one that moves in a  *)
(* behaviour, so the states are those of the components one by one.        *)
(***************************************************************************)
EXTENDS RunWorkspace, NodeAgent, NodeEnrollment, NodeHeartbeat

VARIABLE focus

\* A code-change step and the gate behind it; two such steps between gates.
MigAndGate == <<"mig", "gate">>
TwoMigs == <<"gate", "mig", "mig", "gate">>

nodeVars == <<wsVars, agentVars, enrollVars, beatVars, focus>>

NodeInit ==
  /\ focus \in {"workspace", "agent", "enrol", "beat"}
  /\ WorkspaceInit /\ AgentInit /\ EnrollInit /\ BeatInit

NodeNext ==
  /\ UNCHANGED focus
  /\ \/ /\ focus = "workspace" /\ WorkspaceNext
        /\ UNCHANGED <<agentVars, enrollVars, beatVars>>
     \/ /\ focus = "agent" /\ AgentNext
        /\ UNCHANGED <<wsVars, enrollVars, beatVars>>
     \/ /\ focus = "enrol" /\ EnrollNext
        /\ UNCHANGED <<wsVars, agentVars, beatVars>>
     \/ /\ focus = "beat" /\ BeatNext
        /\ UNCHANGED <<wsVars, agentVars, enrollVars>>

\* The fairness of the component in focus.
NodeFairness ==
  /\ WF_wsVars(focus = "workspace" /\ NodeSteps)
  /\ WF_wsVars(focus = "workspace" /\ ContainerExits)
  /\ \A g \in Goroutines : WF_agentVars(focus = "agent" /\ ExecSteps(g))
  /\ \A j \in AgentJobs : WF_agentVars(focus = "agent" /\ ContainerEnds(j))
  /\ WF_agentVars(focus = "agent" /\ SweepSteps)
  /\ WF_enrollVars(focus = "enrol" /\ AgentSteps)
  /\ WF_enrollVars(focus = "enrol" /\ CLISteps)
  /\ WF_enrollVars(focus = "enrol" /\ HandlerSteps)
  /\ WF_beatVars(focus = "beat" /\ BeatSteps)
  /\ WF_beatVars(focus = "beat" /\ RecoveryCycle)
  /\ WF_beatVars(focus = "beat" /\ Tick)

NodeSpec == NodeInit /\ [][NodeNext]_nodeVars /\ NodeFairness

\* Whatever fails, the node comes back to work: its run's goroutine, its slots,
\* its enrolment and its heartbeat.
NodeProgress == NodeComesBack /\ SlotsComeBack /\ HostComesUp /\ HeartbeatResumes
=============================================================================
