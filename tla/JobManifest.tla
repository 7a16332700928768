---------------------------- MODULE JobManifest ----------------------------
(***************************************************************************)
(* From a submitted spec to the container of a job: the environment and the  *)
(* file records of the spec are completed where it is compiled (compiler.go,   *)
(* overrides.go, cli/config/overlay.go), again when a node claims the job       *)
(* (claim_spec_mutator_hydra.go), and again on the node (manifest.go,            *)
(* resource_materialization.go, container_spec.go, job_mounts.go).               *)
(*                                                                         *)
(* An environment is a function from names to values; a value is the name of    *)
(* the place it was set, or "$V", a placeholder for the variable V of the        *)
(* compiling process.  A file record is [hash, text, dst, ro, authored]: `text`   *)
(* is the destination as it is written, `dst` the path it denotes, a sequence of   *)
(* components (<<>> is the root of the container); a record not authored was       *)
(* stored before.  A stack phase is "none", "off" or the stack it expects.          *)
(***************************************************************************)
EXTENDS Naturals, Sequences, FiniteSets
LOCAL INSTANCE SequencesExt

CONSTANT Submissions   \* a sequence of sets of inputs

VARIABLES submission, canonical, claimed, parsed, created
manifestVars == <<submission, canonical, claimed, parsed, created>>

NoEnv == [k \in {} |-> ""]
\* MergeEnv: entries of `over` on top of those of `base`
MergeEnv(base, over) ==
  [k \in DOMAIN base \cup DOMAIN over |-> IF k \in DOMAIN over THEN over[k] ELSE base[k]]
Fails == [ok |-> FALSE]

-----------------------------------------------------------------------------
(* Compilation *)

\* resolveEnvsInPlace/expandSpecEnvValue: an unset placeholder refuses the spec
Unresolved(env, process) == \E k \in DOMAIN env : env[k] = "$V" /\ "V" \notin DOMAIN process
Expand(env, process) == [k \in DOMAIN env |-> IF env[k] = "$V" THEN process["V"] ELSE env[k]]
preprocessMigsSpec(spec, process) ==
  IF Unresolved(spec.envs, process) \/ \E i \in DOMAIN spec.steps : Unresolved(spec.steps[i].envs, process)
  THEN Fails
  ELSE [spec EXCEPT !.envs = Expand(@, process),
                    !.steps = [i \in DOMAIN @ |-> [@[i] EXCEPT !.envs = Expand(@, process)]]]

\* applyStepEnvOverridesInPlace: `--env:<step>`; the step must exist, its name be unique
applyStepEnvOverrides(spec, overrides) ==
  LET named == {i \in DOMAIN spec.steps : spec.steps[i].name # ""}
      Env(step) == IF step.name \in DOMAIN overrides THEN MergeEnv(step.envs, overrides[step.name])
                   ELSE step.envs
  IN  IF ~spec.ok THEN spec
      ELSE IF DOMAIN overrides = {} THEN spec
      ELSE IF \/ \E i, j \in named : i # j /\ spec.steps[i].name = spec.steps[j].name
              \/ ~(DOMAIN overrides \subseteq {spec.steps[i].name : i \in named})
      THEN Fails
      ELSE [spec EXCEPT !.steps = [i \in DOMAIN @ |-> [@[i] EXCEPT !.envs = Env(spec.steps[i])]]]

\* the overlay's records whose key (a field of theirs) no earlier record has
mergeBy(key, own, overlay) ==
  LET Taken(done, e) == \E i \in DOMAIN done : done[i][key] = e[key]
  IN  FoldLeft(LAMBDA done, e : IF Taken(done, e) THEN done ELSE Append(done, e), own, overlay)

\* applyConfigOverlay: the caller's config.yaml, into the spec and into every step
applyConfigOverlay(spec, local) ==
  IF ~spec.ok THEN spec
  ELSE [spec EXCEPT !.envs = MergeEnv(local.envs, @),
                    !.steps = [i \in DOMAIN @ |->
                      [@[i] EXCEPT !.envs = MergeEnv(local.envs, @),
                                   !.in = mergeBy("text", @, local.in)]]]

\* ValidateHydraEntries of each step: no destination twice
ValidSpec(spec) ==
  /\ spec.steps # <<>>
  /\ \A i \in DOMAIN spec.steps : \A f \in {"in", "home"} : \A j, k \in DOMAIN spec.steps[i][f] :
       spec.steps[i][f][j].dst = spec.steps[i][f][k].dst => j = k
ParseMigSpec(spec) == IF spec.ok THEN IF ValidSpec(spec) THEN spec ELSE Fails ELSE spec

\* compileHydraRecordsInPlace: an authored record is bundled and named by its hash
CompileRecords(spec) ==
  LET authored == {r \in UNION {Range(spec.steps[i].in) \cup Range(spec.steps[i].home) : i \in DOMAIN spec.steps} :
                     r.authored}
  IN  IF spec.ok THEN [spec EXCEPT !.bundles = @ \cup {r.hash : r \in authored}] ELSE spec

\* a local spec is compiled by the client, and overridden once it is compiled
CompileLocal(s) ==
  ParseMigSpec(applyStepEnvOverrides(
    ParseMigSpec(CompileRecords(applyConfigOverlay(preprocessMigsSpec(s.spec, s.process), s.local))),
    s.overrides))

\* a named spec is compiled by the server, its steps overridden before placeholders
CompileNamed(s) ==
  LET overridden == applyStepEnvOverrides(s.spec, s.overrides)
  IN  ParseMigSpec(CompileRecords(
        IF overridden.ok THEN preprocessMigsSpec(overridden, s.process) ELSE overridden))

-----------------------------------------------------------------------------
(* The claim *)

MatchesJobType(target, jobType) ==
  \/ target = "gates" /\ jobType \in {"pre_gate", "post_gate"}
  \/ target = "steps" /\ jobType = "mig"

\* assembleHydraOverlay: nodes-target variables, the job's own over them
assembleEnvs(global, jobType) ==
  LET Of(P(_)) == [k \in {g.key : g \in {h \in global : P(h.target)}} |->
                     (CHOOSE g \in global : g.key = k /\ P(g.target)).value]
  IN  MergeEnv(Of(LAMBDA t : t = "nodes"), Of(LAMBDA t : MatchesJobType(t, jobType)))

\* Mutant: the overlay's records are appended as they are
mergeRecordsAll(own, overlay) == own \o overlay
mergeRecordsByDst(own, overlay) == mergeBy("dst", own, overlay)

\* findDuplicateDsts: the server's configuration names one destination twice
findDuplicateDsts(entries) ==
  {entries[i].dst : i \in {j \in DOMAIN entries :
                              \E k \in DOMAIN entries : k # j /\ entries[k].dst = entries[j].dst}}

\* applyBundleMapMutator: the server's bundles for the hashes the spec has none for
applyBundleMap(spec, bundles) == [spec EXCEPT !.bundles = @ \cup bundles]

\* mutateClaimSpec: records of the server's configuration only for mig jobs
mutateClaimSpec(spec, s) ==
  LET In(own) == IF s.jobType = "mig" THEN mergeRecordsByDst(own, s.overlay) ELSE own
      overlaid == [spec EXCEPT !.envs = MergeEnv(assembleEnvs(s.global, s.jobType), @),
                               !.steps = [i \in DOMAIN @ |-> [@[i] EXCEPT !.in = In(@)]]]
  IN  IF ~spec.ok \/ findDuplicateDsts(s.overlay) # {} THEN Fails
      ELSE applyBundleMap(overlaid, s.bundles)

-----------------------------------------------------------------------------
(* The node *)

\* validateAndDeriveStackGateChaining: a step starts from what its predecessor leaves
deriveChaining(steps) ==
  LET In(i) == IF i > 1 /\ steps[i - 1].outbound \notin {"none", "off"} /\ steps[i].inbound = "none"
               THEN steps[i - 1].outbound ELSE steps[i].inbound
  IN  IF \E i \in 2 .. Len(steps) : /\ steps[i].inbound \notin {"none", "off"}
                                    /\ steps[i - 1].outbound \notin {"none", "off", steps[i].inbound}
      THEN Fails
      ELSE [ok |-> TRUE, steps |-> [i \in DOMAIN steps |-> [steps[i] EXCEPT !.inbound = In(i)]]]

\* parseSpec of the node: a spec that is not valid, or whose stacks disagree, is refused
parseSpec(spec) ==
  LET chained == deriveChaining(spec.steps)
  IN  IF ~ValidSpec(spec) \/ ~chained.ok THEN Fails ELSE [spec EXCEPT !.steps = chained.steps]

\* injectStackTupleEnv: the stack, when one was detected or is expected
injectStackTupleEnv(stack) ==
  IF stack = "" THEN NoEnv ELSE [k \in {"PLOY_STACK_TOOL"} |-> stack]
\* injectNodeOwned*Env and PLOY_JOB_ID, on top of it
NodeOwned(s) == MergeEnv(injectStackTupleEnv(s.stack), [k \in {"PLOY_JOB_ID"} |-> "node"])

\* buildMigManifest and buildGateManifest: a gate sees the step of a one-step spec
buildManifest(spec, s) ==
  LET index == IF s.jobType = "mig" THEN s.index ELSE IF Len(spec.steps) = 1 THEN 1 ELSE 0
      noStep == [envs |-> NoEnv, in |-> <<>>, home |-> <<>>]
      step == IF index \in DOMAIN spec.steps THEN spec.steps[index] ELSE noStep
  IN  IF ~spec.ok \/ (s.jobType = "mig" /\ index \notin DOMAIN spec.steps) THEN Fails
      ELSE [ok |-> TRUE, in |-> step.in, home |-> step.home, bundles |-> spec.bundles,
            env |-> MergeEnv(MergeEnv(spec.envs, step.envs), NodeOwned(s))]
Socket == <<"var", "run", "docker.sock">>

\* materializeHydraResources: every hash needs its bundle
Materialized(m) == {m.in[i].hash : i \in DOMAIN m.in} \cup {m.home[i].hash : i \in DOMAIN m.home}
                     \subseteq m.bundles

CommonMounts(home) ==
  <<[target |-> <<"workspace">>, ro |-> FALSE], [target |-> <<"in">>, ro |-> TRUE],
    [target |-> <<"out">>, ro |-> FALSE], [target |-> <<"tmp">>, ro |-> FALSE],
    [target |-> <<"ploy", "cache", "job">>, ro |-> FALSE], [target |-> home, ro |-> FALSE],
    [target |-> <<"share">>, ro |-> FALSE], [target |-> <<"run-share">>, ro |-> FALSE],
    [target |-> <<"ploy", "cache", "node">>, ro |-> TRUE],
    [target |-> <<"ploy", "config", "common">>, ro |-> TRUE],
    [target |-> <<"ploy", "config", "job">>, ro |-> TRUE]>>

NodeOwnedTarget(t) ==
  IsPrefix(<<"ploy", "cache", "node">>, t) \/ IsPrefix(<<"ploy", "config">>, t)
\* mountOverlap compares strings: nothing is below the root "/"
Below(parent, child) == parent # <<>> /\ Len(parent) < Len(child) /\ IsPrefix(parent, child)

validateContainerMounts(mounts, nested) ==
  /\ \A i, j \in DOMAIN mounts : mounts[i].target = mounts[j].target => i = j
  /\ \A i \in DOMAIN mounts : NodeOwnedTarget(mounts[i].target) => mounts[i].ro
  /\ \A i, j \in DOMAIN mounts : Below(mounts[i].target, mounts[j].target) =>
       <<mounts[i].target, mounts[j].target>> \in nested

\* resolveJobHome: a HOME that is not absolute and clean is refused
resolveJobHome(env, homes) ==
  IF "HOME" \notin DOMAIN env THEN <<"root">> ELSE homes[env["HOME"]]

buildContainerSpec(m, s) ==
  LET home == IF m.ok THEN resolveJobHome(m.env, s.homes) ELSE <<"relative">>
      readOnly == SelectSeq(m.home, LAMBDA e : e.ro)
      entryMounts == [i \in DOMAIN readOnly |-> [target |-> home \o readOnly[i].dst, ro |-> TRUE]]
      nested == {<<home, entryMounts[i].target>> : i \in DOMAIN entryMounts}
      socket == IF s.socket THEN <<[target |-> Socket, ro |-> FALSE]>> ELSE <<>>
      mounts == CommonMounts(home) \o entryMounts \o socket
  IN  IF ~m.ok \/ ~Materialized(m) \/ home = <<"relative">> THEN Fails
      ELSE IF ~validateContainerMounts(mounts, nested) THEN Fails
      ELSE [ok |-> TRUE, mounts |-> mounts, home |-> home,
            env |-> MergeEnv(m.env, [k \in {"PLOY_JOB_TYPE"} |-> "reserved"])]

-----------------------------------------------------------------------------
Waiting == [ok |-> FALSE, at |-> "waiting"]
ManifestInit ==
  /\ \E i \in DOMAIN Submissions : submission \in Submissions[i]
  /\ canonical = Waiting /\ claimed = Waiting /\ parsed = Waiting /\ created = Waiting
Submit == /\ canonical = Waiting
          /\ canonical' = IF submission.named THEN CompileNamed(submission) ELSE CompileLocal(submission)
          /\ UNCHANGED <<submission, claimed, parsed, created>>
ClaimJob == /\ canonical.ok /\ claimed = Waiting
            /\ claimed' = mutateClaimSpec(canonical, submission)
            /\ UNCHANGED <<submission, canonical, parsed, created>>
ParseClaim == /\ claimed.ok /\ parsed = Waiting
              /\ parsed' = parseSpec(claimed)
              /\ UNCHANGED <<submission, canonical, claimed, created>>
CreateContainer ==
  /\ parsed.ok /\ created = Waiting
  /\ created' = buildContainerSpec(buildManifest(parsed, submission), submission)
  /\ UNCHANGED <<submission, canonical, claimed, parsed>>
ManifestNext == Submit \/ ClaimJob \/ ParseClaim \/ CreateContainer
ManifestSpec == ManifestInit /\ [][ManifestNext]_manifestVars

-----------------------------------------------------------------------------
(* Properties *)

\* the step whose variables the job sees, 0 when it sees none
StepOfJob == IF submission.jobType = "mig" THEN submission.index
             ELSE IF Len(submission.spec.steps) = 1 THEN 1 ELSE 0
Source(env) == IF Unresolved(env, submission.process) THEN env ELSE Expand(env, submission.process)
StepEnv == IF StepOfJob = 0 THEN NoEnv ELSE submission.spec.steps[StepOfJob].envs
StepName == IF StepOfJob = 0 THEN "" ELSE submission.spec.steps[StepOfJob].name
Flags == IF StepName = "" \/ StepName \notin DOMAIN submission.overrides THEN NoEnv
         ELSE IF submission.named THEN Source(submission.overrides[StepName])
         ELSE submission.overrides[StepName]
LocalEnv == IF submission.named THEN NoEnv ELSE submission.local.envs
GlobalOf(targets) ==
  [k \in {g.key : g \in {h \in submission.global : h.target \in targets}} |->
     (CHOOSE g \in submission.global : g.key = k /\ g.target \in targets).value]
JobTarget == IF submission.jobType = "mig" THEN "steps" ELSE "gates"
\* the places a variable is set, from the one that counts most
Places == <<[k \in {"PLOY_JOB_TYPE"} |-> "reserved"], [k \in {"PLOY_JOB_ID"} |-> "node"],
            IF submission.stack = "" THEN NoEnv ELSE [k \in {"PLOY_STACK_TOOL"} |-> submission.stack],
            Flags, IF StepOfJob = 0 THEN NoEnv ELSE Source(StepEnv),
            IF StepOfJob = 0 THEN NoEnv ELSE LocalEnv,
            Source(submission.spec.envs), LocalEnv, GlobalOf({JobTarget}), GlobalOf({"nodes"})>>
Setting(k) == {i \in DOMAIN Places : k \in DOMAIN Places[i]}
First(k) == CHOOSE i \in Setting(k) : \A j \in Setting(k) : i <= j

\* A variable of a job's container has the value of the place that counts most: what the
\* node owns, then `--env:<step>`, the step, config.yaml (which is merged into the steps, so
\* a job that has a step sees it before the top level of the spec, and another job after
\* it), the server's variables for the job and those for nodes.
EnvPrecedence ==
  created.ok =>
    /\ DOMAIN created.env = UNION {DOMAIN Places[i] : i \in DOMAIN Places}
    /\ \A k \in DOMAIN created.env : created.env[k] = Places[First(k)][k]

\* The overrides of a named submission replace a placeholder nobody can resolve: it is
\* refused for a placeholder only when one is left that is not replaced and not set.
OverrideReplacesPlaceholder ==
  LET s == submission
      Given(step) == IF step.name \in DOMAIN s.overrides THEN s.overrides[step.name] ELSE NoEnv
      Left(step) == {k \in DOMAIN step.envs : step.envs[k] = "$V" /\ k \notin DOMAIN Given(step)}
      Open(step) == Left(step) # {} \/ \E k \in DOMAIN Given(step) : Given(step)[k] = "$V"
      waits == "V" \notin DOMAIN s.process /\
                 \/ \E k \in DOMAIN s.spec.envs : s.spec.envs[k] = "$V"
                 \/ \E i \in DOMAIN s.spec.steps : Open(s.spec.steps[i])
      named == {i \in DOMAIN s.spec.steps : s.spec.steps[i].name # ""}
      names == {s.spec.steps[i].name : i \in named}
      addressed == DOMAIN s.overrides \subseteq names /\ Cardinality(names) = Cardinality(named)
  IN  (canonical # Waiting /\ s.named /\ addressed /\ ValidSpec(s.spec)) => (canonical.ok <=> ~waits)

\* A claim adds the server's records and takes nothing away: each step keeps its own
\* records, has every other destination of the overlay exactly once, and is still valid.
ClaimKeepsSpecValid ==
  claimed.ok =>
    /\ ValidSpec(claimed)
    /\ \A i \in DOMAIN canonical.steps :
         LET own == canonical.steps[i].in
             now == claimed.steps[i].in
         IN  /\ IsPrefix(own, now)
             /\ submission.jobType = "mig" =>
                  {now[j].dst : j \in DOMAIN now} = {own[j].dst : j \in DOMAIN own}
                     \cup {submission.overlay[j].dst : j \in DOMAIN submission.overlay}

\* In a container whose home is not the root no mount hides another: only a read-only
\* home record lies inside another mount, the home; what the node owns is read-only.
MountsDisjoint ==
  (created.ok /\ created.home # <<>>) =>
    \A i, j \in DOMAIN created.mounts :
      LET a == created.mounts[i]
          b == created.mounts[j]
      IN  (i # j /\ IsPrefix(a.target, b.target)) =>
            /\ a.target = created.home /\ b.ro /\ a.target # b.target
            /\ \E r \in Range(parsed.steps[StepOfJob].home) : r.ro /\ b.target = a.target \o r.dst

\* In a spec a node accepts, every step after one that promises a stack either asks for
\* that very stack or has its check turned off in so many words.
StacksChain ==
  parsed.ok => \A i \in 2 .. Len(parsed.steps) :
    parsed.steps[i - 1].outbound \notin {"none", "off"} =>
      parsed.steps[i].inbound \in {"off", parsed.steps[i - 1].outbound}

\* What a container is created with is what the submission, the server and the
\* node stated, in their order of precedence.
ManifestSound ==
  /\ EnvPrecedence
  /\ OverrideReplacesPlaceholder
  /\ ClaimKeepsSpecValid
  /\ MountsDisjoint
  /\ StacksChain
=============================================================================
