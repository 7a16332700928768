----------------------------- MODULE GatePlan -----------------------------
(***************************************************************************)
(* The build gate of a run and the image of the migration after it: the    *)
(* gate part of a spec is validated, the gate job settles the stack and    *)
(* the image (workflow/step/gate_plan_*.go, build_gate_image_resolver.go), *)
(* runs the container and reports the stack, and the migration's image is  *)
(* chosen by that stack (nodeagent/gate_job.go, stack_runtime_env.go).     *)
(*                                                                         *)
(* A gate may be retried after a failure, with another catalog on the      *)
(* node.  A stack is a language, a tool and a release, "" and <<>> when    *)
(* not given.  An image is a name and the stack placeholders in it.        *)
(***************************************************************************)
EXTENDS StackDetect

CONSTANTS GateSpecs,      \* the gate parts of specs examined
          GateWorkspaces, \* the workspaces a gate meets
          Catalogs,       \* the rules gates.yaml may hold
          MaxGates        \* executions of the gate, retries included

ASSUME GateAssumption == MaxGates \in Nat \ {0}

VARIABLES gateSpec,    \* the gate part of the run's spec
          source,      \* the workspace the gate examines
          gates,       \* gate executions so far
          verdict,     \* the last execution: status, stack, image
          reported,    \* the stack the control plane has for the gate job
          persisted,   \* build-gate-stack.txt on the node, "" when absent
          migImage     \* the image key of the migration, "" before it starts

gateVars == <<gateSpec, source, gates, verdict, reported, persisted, migImage>>

NoStack == [language |-> "", tool |-> "", release |-> <<>>]

\* The languages differ in case only where a spec's author wrote them so.
Lower(language) == IF language = "Java" THEN "java" ELSE language

IsComplete(s) == s.language # "" /\ s.tool # "" /\ s.release # <<>>

-----------------------------------------------------------------------------
(* Validation of the spec.                                                 *)

validateBuildGateStackConfig(c) ==
  CASE c.mode = ""         -> c.stack = NoStack
    [] c.mode = "strict"   -> c.stack # NoStack
    [] c.mode = "forced"   -> c.stack.language # "" /\ c.stack.release # <<>>
    [] c.mode = "fallback" -> IsComplete(c.stack)
    [] OTHER               -> FALSE

validateStackGatePhaseSpec(p) == p.enabled <=> (p.expect # NoStack)

SelectorKey(rule) == rule.stack

ValidateRules(rules) ==
  /\ \A i \in DOMAIN rules : rules[i].stack.language # "" /\ rules[i].image.name # ""
  /\ \A i, j \in DOMAIN rules : SelectorKey(rules[i]) = SelectorKey(rules[j]) => i = j

ValidateGate(spec) ==
  /\ validateBuildGateStackConfig(spec.stackDetect)
  /\ validateStackGatePhaseSpec(spec.stackGate)
  /\ ValidateRules(spec.images)

-----------------------------------------------------------------------------
(* The image for a stack.                                                  *)

\* A YAML number keeps no trailing zero: 3.10 is read as 3.1 and 17.0 as 17.
ParseReleaseValue(raw) ==
  IF ~raw.number \/ Len(raw.v) # 2 THEN raw.v
  ELSE IF raw.v[2] = 0 THEN <<raw.v[1]>>
  ELSE IF raw.v[2] % 10 = 0 THEN <<raw.v[1], raw.v[2] \div 10>> ELSE raw.v

toRule(entry) ==
  [stack |-> [language |-> entry.lang, tool |-> entry.tool, release |-> ParseReleaseValue(entry.release)],
   image |-> entry.image]

LeftOpen(image, stack) ==
  {f \in image.needs : stack[f] = (IF f = "release" THEN <<>> ELSE "")}

ExpandImageTemplate(image, stack) ==
  [name |-> image.name, needs |-> LeftOpen(image, stack),
   filled |-> [f \in image.needs \ LeftOpen(image, stack) |-> stack[f]] @@ image.filled]

\* A rule that names its whole stack is expanded at once; one that leaves
\* placeholders open keeps its template until a stack is known.
normalizeImageRules(rules) ==
  [i \in DOMAIN rules |->
     IF LeftOpen(rules[i].image, rules[i].stack) = {}
     THEN [rules[i] EXCEPT !.image = ExpandImageTemplate(@, rules[i].stack)] ELSE rules[i]]

Matches(rule, exp) ==
  /\ rule.stack.language = exp.language
  /\ rule.stack.release \in {<<>>, exp.release}
  /\ rule.stack.tool \in {"", exp.tool}

Specificity(rule) ==
  CASE rule.stack.tool # "" /\ rule.stack.release # <<>> -> 4
    [] rule.stack.tool # "" /\ rule.stack.release = <<>> -> 3
    [] rule.stack.tool = "" /\ rule.stack.release # <<>> -> 2
    [] OTHER -> 1

NoImage(why) == [found |-> FALSE, why |-> why, image |-> [name |-> "", needs |-> {}, filled |-> <<>>]]

\* Mutant: the last match wins whatever its specificity.
ResolveLast(rules, exp) ==
  LET matches == SelectSeq(rules, LAMBDA r : Matches(r, exp))
      image == ExpandImageTemplate(matches[Len(matches)].image, exp)
  IN IF matches = <<>> \/ image.needs # {} THEN NoImage("rule")
     ELSE [found |-> TRUE, why |-> "", image |-> image]

Resolve(rules, exp) ==
  LET matches == SelectSeq(rules, LAMBDA r : Matches(r, exp))
      best == CHOOSE n \in 1 .. 4 :
                /\ \E i \in DOMAIN matches : Specificity(matches[i]) = n
                /\ \A i \in DOMAIN matches : Specificity(matches[i]) <= n
      last == CHOOSE i \in DOMAIN matches :
                /\ Specificity(matches[i]) = best
                /\ \A j \in DOMAIN matches : Specificity(matches[j]) = best => j <= i
      image == ExpandImageTemplate(matches[last].image, exp)
  IN IF matches = <<>> \/ image.needs # {} THEN NoImage("rule")
     ELSE [found |-> TRUE, why |-> "", image |-> image]

\* newImageResolver: the catalog has to exist and be valid; the rules of the
\* spec come after it.
resolveImageForExpectation(catalog, overrides, exp) ==
  LET rules == [i \in DOMAIN catalog.entries |-> toRule(catalog.entries[i])]
  IN IF ~catalog.exists \/ ~ValidateRules(rules) \/ ~ValidateRules(overrides)
     THEN NoImage("mapping")
     ELSE Resolve(normalizeImageRules(rules) \o normalizeImageRules(overrides), exp)

-----------------------------------------------------------------------------
(* The stack of a gate.                                                    *)

observationToStackExpectation(obs) ==
  [language |-> obs.language, tool |-> obs.tool, release |-> obs.release]

\* Every field that is asked for is the detected one.
matchStack(obs, expect) ==
  /\ expect.language = "" \/ Lower(expect.language) = Lower(obs.language)
  /\ expect.tool \in {"", obs.tool}
  /\ expect.release \in {<<>>, obs.release}

\* A failure with an error ends the job in Error, one without in Fail; the
\* static check of its metadata names the language it was about and a tool.
Terminal(code, err, language, tool) ==
  [code |-> code, err |-> err, stack |-> [language |-> language, tool |-> tool, release |-> <<>>],
   expectation |-> NoStack]

\* The gate runs for a stack, with the image that the expectation selects.
Context(expectation, stack) ==
  [code |-> "", err |-> FALSE, stack |-> stack, expectation |-> expectation]

stackDetectionFailure == Terminal("STACK_DETECT_FAILED", TRUE, "", "stackdetect")

resolveStackGateContext(expect, obs) ==
  CASE obs.reason # ""           -> Terminal("STACK_GATE_UNKNOWN", FALSE, expect.language, "stack-gate")
    [] ~matchStack(obs, expect)  -> Terminal("STACK_GATE_MISMATCH", FALSE, expect.language, "stack-gate")
    [] expect.release = <<>>     -> Terminal("STACK_GATE_INVALID_EXPECTATION", FALSE,
                                             IF expect.language = "" THEN obs.language ELSE expect.language,
                                             "stack-gate")
    [] OTHER -> Context(expect, [language |-> IF expect.language = "" THEN obs.language ELSE expect.language,
                                 tool |-> obs.tool, release |-> expect.release])

resolveForcedStackDetectContext(expected, tool) ==
  CASE expected.tool # ""                 -> Context(expected, expected)
    [] tool.reason # ""                   -> stackDetectionFailure
    [] tool.language # expected.language  -> Terminal("STACK_MISMATCH", FALSE, expected.language, "stackdetect")
    [] OTHER -> LET filled == [expected EXCEPT !.tool = tool.tool] IN Context(filled, filled)

resolveStrictStackDetectContext(expected, obs) ==
  CASE obs.reason # ""             -> stackDetectionFailure
    [] ~matchStack(obs, expected)  -> Terminal("STACK_MISMATCH", FALSE, expected.language, "stackdetect")
    [] OTHER -> LET stack == observationToStackExpectation(obs) IN Context(stack, stack)

resolveFallbackStackDetectContext(expected, obs) ==
  LET stack == IF obs.reason # "" THEN expected ELSE observationToStackExpectation(obs)
  IN Context(stack, stack)

resolveDetectedStackContext(obs) ==
  IF obs.reason # "" THEN stackDetectionFailure
  ELSE LET stack == observationToStackExpectation(obs) IN Context(stack, stack)

\* From what Detect and DetectTool report; each mode calls the one it needs.
resolveGateStackContext(spec, obs, tool) ==
  LET mode == spec.stackDetect.mode
      expected == spec.stackDetect.stack
  IN CASE spec.stackGate.enabled -> resolveStackGateContext(spec.stackGate.expect, obs)
       [] ~spec.stackGate.enabled /\ mode = "forced" -> resolveForcedStackDetectContext(expected, tool)
       [] ~spec.stackGate.enabled /\ mode = "strict" -> resolveStrictStackDetectContext(expected, obs)
       [] ~spec.stackGate.enabled /\ mode = "fallback" -> resolveFallbackStackDetectContext(expected, obs)
       [] OTHER -> resolveDetectedStackContext(obs)

\* Without an image the gate fails under a stack gate and errs otherwise.
imageResolutionTerminal(spec, ctx) ==
  Terminal("NO_IMAGE", ~spec.stackGate.enabled, ctx.stack.language,
           IF spec.stackGate.enabled THEN "stack-gate" ELSE ctx.stack.tool)

Plan(spec, ctx, image) ==
  IF ctx.code # "" THEN [ctx |-> ctx, image |-> NoImage("")]
  ELSE IF ~image.found THEN [ctx |-> imageResolutionTerminal(spec, ctx), image |-> image]
  ELSE [ctx |-> ctx, image |-> image]

resolveGateExecutionPlan(spec, ctx, catalog) ==
  Plan(spec, ctx, resolveImageForExpectation(catalog, spec.images, ctx.expectation))

StackContext(spec, ws) == resolveGateStackContext(spec, Detect(ws), DetectTool(ws))

-----------------------------------------------------------------------------
(* The gate job and the migration after it.                                *)

NoVerdict ==
  [status |-> "", ran |-> FALSE, stack |-> NoStack, image |-> NoImage(""),
   catalog |-> [exists |-> FALSE, entries |-> <<>>]]

\* DetectedStackExpectation: nothing without a language and a tool.
DetectedStackExpectation(stack) ==
  IF stack.language = "" \/ stack.tool = "" THEN NoStack ELSE stack

ToolToMigStack(tool) ==
  CASE tool = "maven" -> "java-maven" [] tool = "gradle" -> "java-gradle" [] OTHER -> "unknown"

GateInit ==
  /\ gateSpec \in {s \in GateSpecs : ValidateGate(s)} /\ source \in GateWorkspaces
  /\ gates = 0 /\ verdict = NoVerdict /\ reported = NoStack /\ persisted = "" /\ migImage = ""

\* A runtime error ends in Error with no metadata; otherwise the metadata of
\* the plan or of the failure is reported and the stack file is written if
\* there is none yet.
GateEnds(plan, catalog, exit) ==
  LET ran == plan.ctx.code = ""
      err == plan.ctx.err \/ (ran /\ exit = "error")
  IN /\ verdict' = [status |-> CASE err -> "Error" [] ran /\ exit = "zero" -> "Success" [] OTHER -> "Fail",
                    ran |-> ran, stack |-> plan.ctx.stack, image |-> plan.image, catalog |-> catalog]
     /\ reported' = IF err THEN NoStack ELSE DetectedStackExpectation(plan.ctx.stack)
     /\ persisted' = IF err \/ persisted # "" THEN persisted ELSE ToolToMigStack(plan.ctx.stack.tool)

executeGateJob(catalog, exit) ==
  /\ gates < MaxGates /\ verdict.status # "Success" /\ migImage = ""
  /\ gates' = gates + 1
  /\ GateEnds(resolveGateExecutionPlan(gateSpec, StackContext(gateSpec, source), catalog), catalog, exit)
  /\ UNCHANGED <<gateSpec, source, migImage>>

\* The stack the claim carries, otherwise the one of the node's file.
resolveManifestStack(fallback) ==
  LET claimed == IF Lower(reported.language) = "java" THEN ToolToMigStack(reported.tool) ELSE "unknown"
  IN IF claimed # "unknown" THEN claimed ELSE fallback

\* ResolveImage: the key of the stack when the image map has it, else default;
\* the job fails when there is neither.
ResolveImage(keys, stack) ==
  CASE stack \in keys -> stack
    [] stack \notin keys /\ "default" \in keys -> "default"
    [] OTHER -> "error"

StartMig ==
  /\ verdict.status = "Success" /\ migImage = ""
  /\ migImage' = ResolveImage(gateSpec.migKeys,
                              resolveManifestStack(IF persisted = "" THEN "unknown" ELSE persisted))
  /\ UNCHANGED <<gateSpec, source, gates, verdict, reported, persisted>>

GateNext ==
  \/ \E catalog \in Catalogs, exit \in {"zero", "nonzero", "error"} : executeGateJob(catalog, exit)
  \/ StartMig

-----------------------------------------------------------------------------
(* The documented modes (docs/build-gate/README.md), as the set of stacks a *)
(* gate may run with: at most one.                                          *)

DocumentedStacks(spec, seen, seenTool) ==
  LET detection == {[language |-> o.language, tool |-> o.tool, release |-> o.release] :
                      o \in {seen} \cap {o \in {seen} : o.reason = ""}}
      config == spec.stackDetect.stack
      agrees(s, want) == /\ want.language = "" \/ Lower(want.language) = s.language
                         /\ want.tool = "" \/ want.tool = s.tool
                         /\ want.release = <<>> \/ want.release = s.release
  IN CASE spec.stackGate.enabled ->
            {[s EXCEPT !.language = IF spec.stackGate.expect.language = "" THEN @
                                    ELSE spec.stackGate.expect.language] :
               s \in {s \in detection : spec.stackGate.expect.release # <<>> /\ agrees(s, spec.stackGate.expect)}}
       [] ~spec.stackGate.enabled /\ spec.stackDetect.mode = "forced" ->
            IF config.tool # "" THEN {config}
            ELSE {[config EXCEPT !.tool = t.tool] : t \in {t \in {seenTool} :
                    t.reason = "" /\ t.language = config.language}}
       [] ~spec.stackGate.enabled /\ spec.stackDetect.mode = "strict" -> {s \in detection : agrees(s, config)}
       [] ~spec.stackGate.enabled /\ spec.stackDetect.mode = "fallback" ->
            IF detection = {} THEN {config} ELSE detection
       [] OTHER -> detection

\* A gate container runs with exactly the stack that the documented mode
\* prescribes for the workspace, and is withheld only when the mode prescribes
\* none or no image can be found for it.
GateRunsDocumentedStack ==
  gates > 0 =>
    LET documented == DocumentedStacks(gateSpec, Detect(source), DetectTool(source))
    IN IF verdict.ran THEN documented = {verdict.stack} ELSE documented = {} \/ verdict.image.why # ""

\* The finest rules for a stack, those of the spec before those of the catalog.
Preferred(base, extra, exp) ==
  LET fits == {r \in base \cup extra : Matches(r, exp)}
      finest == {r \in fits : \A o \in fits :
                   /\ o.stack.tool # "" => r.stack.tool # ""
                   /\ o.stack.tool = r.stack.tool /\ o.stack.release # <<>> => r.stack.release # <<>>}
  IN IF finest \cap extra # {} THEN finest \cap extra ELSE finest

\* The image of a gate comes from a rule for its stack than which no rule,
\* neither of the catalog nor of the spec, is more specific, and a rule of the
\* spec is preferred to an equally specific one of the catalog.
MostSpecificImageRuns ==
  verdict.ran =>
    LET base == {toRule(verdict.catalog.entries[i]) : i \in DOMAIN verdict.catalog.entries}
        extra == {gateSpec.images[i] : i \in DOMAIN gateSpec.images}
    IN \E r \in Preferred(base, extra, StackContext(gateSpec, source).expectation) :
         r.image.name = verdict.image.image.name

\* A migration runs the image of the build tool that the gate which passed
\* worked with, also when an earlier failed execution of the gate left another
\* stack in the node's file.
MigImageFollowsGate ==
  migImage # "" =>
    migImage = LET key == IF Lower(verdict.stack.language) = "java"
                          THEN ToolToMigStack(verdict.stack.tool) ELSE "unknown"
                   usable == {key, "default"} \cap gateSpec.migKeys
               IN IF usable = {} THEN "error" ELSE IF key \in usable THEN key ELSE "default"

\* Gates and migrations run the image of the stack they ought to.
GatePlanSound ==
  /\ GateRunsDocumentedStack
  /\ MostSpecificImageRuns
  /\ MigImageFollowsGate
=============================================================================
