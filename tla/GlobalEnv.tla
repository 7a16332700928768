------------------------------ MODULE GlobalEnv ------------------------------
(***************************************************************************)
(* One global environment variable: its rows in config_env, one per        *)
(* target, the server's ConfigHolder, which claims read, and the server's  *)
(* own process environment.  `ploy config env set` sends one PUT per       *)
(* target; a PUT and a DELETE write the row, then the holder, then the     *)
(* process environment, and nothing holds two requests apart.              *)
(***************************************************************************)
EXTENDS Naturals, Sequences, FiniteSets

CONSTANTS Operators,   \* people who run ploy config env
          EnvValues,   \* values of the variable
          MaxCommands, \* commands they start
          MaxEnvFaults \* restarts, failed loads and store errors

ASSUME EnvAssumption == MaxCommands \in Nat /\ MaxEnvFaults \in Nat

Unset == "unset"
TargetOrder == <<"gates", "nodes", "server", "steps">>
Targets == {TargetOrder[i] : i \in 1..4}

VARIABLES
  envRows,     \* target -> value in config_env
  holder,   \* target -> value in ConfigHolder.globalEnv
  process,  \* value in the process environment; "unit" is the one it came with
  command,  \* operator -> [pc, todo, all, value]; all: its targets while it runs alone
  commands, \* commands started
  envFaults,
  mixed,    \* targets whose row and holder may differ: requests overlapped, or
            \* the outcome of a write is not known, or the load failed
  told      \* what the last command that ran alone reported as done

envVars == <<envRows, holder, process, command, commands, envFaults, mixed, told>>

NoCommand == [pc |-> "idle", todo |-> <<>>, all |-> {}, value |-> Unset]
NoReport == [targets |-> {}, value |-> Unset]

Busy(o) == command[o].pc # "idle"
Current(o) == Head(command[o].todo)
InFlight(t) == {o \in Operators : Busy(o) /\ Current(o) = t}
Alone(o) == \A p \in Operators \ {o} : ~Busy(p)

(* -------------------------------- the CLI -------------------------------- *)

\* expandOnSelectors: a sorted list of targets without repetition.
expandOnSelectors(on) ==
  CASE on = "all" -> TargetOrder
    [] on = "jobs" -> <<"gates", "steps">>
    [] OTHER -> <<on>>

\* A request on a target where another one is in progress.
Overlaps(t) == IF InFlight(t) # {} THEN {t} ELSE {}

Starts(o, todo, value) ==
  /\ ~Busy(o) /\ commands < MaxCommands
  /\ commands' = commands + 1
  /\ command' = [p \in Operators |->
       IF p # o THEN [command[p] EXCEPT !.all = {}]
       ELSE [pc |-> "send", todo |-> todo, value |-> value,
             all |-> IF Alone(o) THEN {todo[i] : i \in DOMAIN todo} ELSE {}]]
  /\ mixed' = mixed \cup Overlaps(Head(todo))
  /\ told' = NoReport
  /\ UNCHANGED <<envRows, holder, process, envFaults>>

runConfigEnvSet(o, on, v) == Starts(o, expandOnSelectors(on), v)

\* runConfigEnvUnset and the head of deleteGlobalEnvHandler: without --from
\* the only target of the key in the holder is meant, none is done already and
\* several are refused.
runConfigEnvUnset(o, from) ==
  IF from # "" THEN Starts(o, <<from>>, Unset)
  ELSE LET held == {t \in Targets : holder[t] # Unset} IN
       /\ Cardinality(held) = 1
       /\ \E t \in held : Starts(o, <<t>>, Unset)

\* A request was answered: the next target's, or the command is done.
Answered(o) ==
  LET c == command[o] rest == Tail(c.todo) IN
  IF rest # <<>>
  THEN /\ command' = [command EXCEPT ![o].pc = "send", ![o].todo = rest]
       /\ mixed' = mixed \cup Overlaps(Head(rest))
       /\ UNCHANGED told
  ELSE /\ command' = [command EXCEPT ![o] = NoCommand]
       /\ told' = IF Alone(o) /\ c.all # {} /\ c.all \cap mixed = {}
                  THEN [targets |-> c.all, value |-> c.value] ELSE NoReport
       /\ UNCHANGED mixed

\* The command ends with the error of one of its requests.
GivesUp(o) == command' = [command EXCEPT ![o] = NoCommand]

(* ------------------------------ the handlers ----------------------------- *)

\* UpsertGlobalEnv or DeleteGlobalEnv commits.
WriteRow(o) ==
  /\ command[o].pc = "send"
  /\ envRows' = [envRows EXCEPT ![Current(o)] = command[o].value]
  /\ command' = [command EXCEPT ![o].pc = "stored"]
  /\ UNCHANGED <<holder, process, commands, envFaults, mixed, told>>

\* Mutant: the command goes on with the next target after an error.
WriteFailsGoesOn(o, committed) ==
  /\ command[o].pc = "send" /\ envFaults < MaxEnvFaults /\ ~committed
  /\ envFaults' = envFaults + 1
  /\ Answered(o)
  /\ UNCHANGED <<envRows, holder, process, commands>>

\* The store returns an error, with the write committed or not: the handler
\* answers 500 and leaves the holder alone, the command stops at this target.
WriteFails(o, committed) ==
  /\ command[o].pc = "send" /\ envFaults < MaxEnvFaults
  /\ envFaults' = envFaults + 1
  /\ envRows' = IF committed THEN [envRows EXCEPT ![Current(o)] = command[o].value] ELSE envRows
  /\ mixed' = IF committed THEN mixed \cup {Current(o)} ELSE mixed
  /\ GivesUp(o)
  /\ UNCHANGED <<holder, process, commands, told>>

\* SetGlobalEnvVar and DeleteGlobalEnvVar, under the holder's lock.
WriteHolder(o) ==
  /\ command[o].pc = "stored"
  /\ holder' = [holder EXCEPT ![Current(o)] = command[o].value]
  /\ IF Current(o) = "server"
     THEN command' = [command EXCEPT ![o].pc = "held"] /\ UNCHANGED <<mixed, told>>
     ELSE Answered(o)
  /\ UNCHANGED <<envRows, process, commands, envFaults>>

\* os.Setenv and os.Unsetenv for the target "server".
Setenv(o) ==
  /\ command[o].pc = "held"
  /\ process' = command[o].value
  /\ Answered(o)
  /\ UNCHANGED <<envRows, holder, commands, envFaults>>

(* ------------------------------- the start ------------------------------- *)

\* applyServerTargetEnv over the environment the unit gives the process.
ServerEnv(env) == IF env["server"] # Unset THEN env["server"] ELSE "unit"

\* The server is started again; the commands in progress get an error.  A load
\* that fails leaves the map empty and the server runs on.
RestartServer(loads) ==
  /\ envFaults < MaxEnvFaults /\ envFaults' = envFaults + 1
  /\ holder' = IF loads THEN envRows ELSE [t \in Targets |-> Unset]
  /\ process' = IF loads THEN ServerEnv(envRows) ELSE "unit"
  /\ mixed' = IF loads THEN {} ELSE Targets
  /\ command' = [o \in Operators |-> NoCommand]
  /\ told' = IF loads /\ \A o \in Operators : ~Busy(o) THEN told ELSE NoReport
  /\ UNCHANGED <<envRows, commands>>

(* ----------------------------- specification ----------------------------- *)

EnvInit ==
  /\ envRows \in [Targets -> {Unset}] \cup [Targets -> {CHOOSE v \in EnvValues : TRUE}]
  /\ holder = envRows /\ process = ServerEnv(envRows)
  /\ command = [o \in Operators |-> NoCommand]
  /\ commands = 0 /\ envFaults = 0 /\ mixed = {} /\ told = NoReport

EnvNext ==
  \/ \E o \in Operators :
       \/ \E v \in EnvValues, on \in {"all", "jobs", "server"} : runConfigEnvSet(o, on, v)
       \/ \E from \in {"", "server", "steps"} : runConfigEnvUnset(o, from)
       \/ WriteRow(o) \/ WriteHolder(o) \/ Setenv(o)
       \/ \E committed \in BOOLEAN : WriteFails(o, committed)
  \/ \E loads \in BOOLEAN : RestartServer(loads)

EnvSpec == EnvInit /\ [][EnvNext]_envVars

(* ------------------------------- properties ------------------------------ *)

\* A target nobody is writing has the same value in the store, in the map that
\* claims read and, for the server, in the process, unless two requests on it
\* overlapped, a write had an unknown outcome or the load at the start failed
\* (putGlobalEnvHandler, deleteGlobalEnvHandler, NewConfigHolder).
HolderFollowsStore ==
  \A t \in Targets \ mixed : InFlight(t) = {} =>
    /\ holder[t] = envRows[t]
    /\ t = "server" => process \in (IF envRows[t] = Unset THEN {"unit", Unset} ELSE {envRows[t]})

\* A command that ran alone and reported success took effect on every target
\* it names, and still has it until the next command, over a restart of the
\* server too (runConfigEnvSet, runConfigEnvUnset).
ReportedIsEverywhere ==
  \A t \in told.targets : envRows[t] = told.value /\ holder[t] = told.value

\* Store, memory and process agree on a variable, with what was reported.
EnvConsistent ==
  /\ HolderFollowsStore
  /\ ReportedIsEverywhere
=============================================================================
