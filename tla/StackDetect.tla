---------------------------- MODULE StackDetect ----------------------------
(***************************************************************************)
(* Detection of a project's language, build tool and release from the      *)
(* files of its workspace (internal/workflow/stackdetect).                 *)
(*                                                                         *)
(* A workspace is the set of files that exist, the ones among them that    *)
(* cannot be read, and what the patterns of the detectors extract from     *)
(* each.  A version is its sequence of numbers ("1.8" is <<1, 8>>) and     *)
(* <<>> is no version.  Evidence lists and messages are left out.          *)
(***************************************************************************)
EXTENDS Naturals, Sequences, FiniteSets, TLC
LOCAL INSTANCE SequencesExt

CONSTANT Workspaces     \* the workspaces examined: a sequence of sets of them

VARIABLES workspace,    \* the workspace under detection
          detected,     \* what Detect returned
          toolOnly      \* what DetectTool returned

detectVars == <<workspace, detected, toolOnly>>

Observed(language, tool, release) ==
  [language |-> language, tool |-> tool, release |-> release, reason |-> ""]

DetectionError(reason) ==
  [language |-> "", tool |-> "", release |-> <<>>, reason |-> reason]

\* A check that finds nothing to say leaves the decision to the next one.
Nothing == DetectionError("nothing")

FirstOf(checks) ==
  LET said == SelectSeq(checks, LAMBDA c : c # Nothing)
  IN IF said = <<>> THEN DetectionError("unknown") ELSE Head(said)

Readable(ws, file) == file \in ws.files \ ws.unreadable

-----------------------------------------------------------------------------
(* Maven: properties of the POM and its parents inside the workspace.      *)

RECURSIVE buildPropertyMap(_, _, _)
buildPropertyMap(ws, path, visited) ==
  IF path \in visited THEN <<>>
  ELSE LET parent == ws.poms[path].parent
           inherited == IF parent \in DOMAIN ws.poms /\ Readable(ws, parent)
                        THEN buildPropertyMap(ws, parent, visited \cup {path})
                        ELSE <<>>
       IN ws.poms[path].props @@ inherited

RECURSIVE resolveValueVisited(_, _, _)
resolveValueVisited(value, props, visited) ==
  IF value.ref = "" THEN [failed |-> FALSE, v |-> value.v]
  ELSE IF value.ref \in visited \/ value.ref \notin DOMAIN props
       THEN [failed |-> TRUE, v |-> <<>>]
       ELSE resolveValueVisited(props[value.ref], props, visited \cup {value.ref})

resolveValue(value, props) == resolveValueVisited(value, props, {})

isValidVersion(v) == Len(v) = 1

MavenProperty(props, name) ==
  IF name \notin DOMAIN props THEN Nothing
  ELSE LET got == resolveValue(props[name], props)
       IN CASE got.failed            -> DetectionError("unknown")
            [] isValidVersion(got.v) -> Observed("java", "maven", got.v)
            [] OTHER                 -> Nothing

MavenSourceTarget(props) ==
  LET named == {"source", "target"} \cap DOMAIN props
      got   == [n \in named |-> resolveValue(props[n], props)]
  IN CASE \E n \in named : got[n].failed          -> DetectionError("unknown")
       [] Cardinality(named) < 2                  -> Nothing
       [] got["source"].v # got["target"].v       -> DetectionError("unknown")
       [] isValidVersion(got["source"].v)         -> Observed("java", "maven", got["source"].v)
       [] OTHER                                   -> Nothing

detectMaven(ws) ==
  IF ~Readable(ws, "pom.xml") THEN DetectionError("unknown")
  ELSE LET props == buildPropertyMap(ws, "pom.xml", {})
       IN FirstOf(<<MavenProperty(props, "release"), MavenSourceTarget(props),
                    MavenProperty(props, "java")>>)

-----------------------------------------------------------------------------
(* Gradle: literals and gradle.properties references in the build file.    *)

normalizeJavaVersion(v) == IF Len(v) = 2 /\ v[1] = 1 THEN <<v[2]>> ELSE v

\* Mutant: two values that differ are not a conflict.
resolveGradleFirstWins(first, second) ==
  IF first = <<>> /\ second = <<>> THEN Nothing
  ELSE Observed("java", "gradle", IF first # <<>> THEN first ELSE second)

resolveGradleVersionCandidates(first, second) ==
  CASE first = <<>> /\ second = <<>> -> Nothing
    [] first # <<>> /\ second # <<>> /\ first # second -> DetectionError("unknown")
    [] OTHER -> Observed("java", "gradle", IF first # <<>> THEN first ELSE second)

\* A later line for the same key replaces an earlier one, and removes it when
\* its value is not a version.
parseGradleJavaVersionProperties(lines) ==
  FoldLeft(LAMBDA found, line :
             IF Len(line.v) \in {1, 2}
             THEN (line.key :> normalizeJavaVersion(line.v)) @@ found
             ELSE [k \in DOMAIN found \ {line.key} |-> found[k]],
           <<>>, lines)

readGradleJavaVersionProperties(ws) ==
  IF "gradle.properties" \in ws.files
  THEN parseGradleJavaVersionProperties(ws.properties) ELSE <<>>

\* extractGradleVersionRef and resolveGradleVersionRef: the literal when the
\* text has one, otherwise the property it names.
resolveGradleVersionRef(ws, ref) ==
  LET props == readGradleJavaVersionProperties(ws)
  IN CASE ref.literal # <<>> -> [failed |-> FALSE, v |-> normalizeJavaVersion(ref.literal)]
       [] ref.property = ""  -> [failed |-> FALSE, v |-> <<>>]
       [] "gradle.properties" \in ws.unreadable -> [failed |-> TRUE, v |-> <<>>]
       [] ref.property \in DOMAIN props -> [failed |-> FALSE, v |-> props[ref.property]]
       [] OTHER -> [failed |-> FALSE, v |-> <<>>]

GradleRefs(ws, a, b) ==
  LET first  == resolveGradleVersionRef(ws, a)
      second == resolveGradleVersionRef(ws, b)
  IN IF first.failed \/ second.failed THEN DetectionError("unknown")
     ELSE resolveGradleVersionCandidates(first.v, second.v)

GradleLiterals(a, b) ==
  resolveGradleVersionCandidates(normalizeJavaVersion(a), normalizeJavaVersion(b))

detectGradleVersionCatalogJavaVersion(ws) ==
  CASE "libs.versions.toml" \notin ws.files -> Nothing
    [] ~Readable(ws, "libs.versions.toml")  -> DetectionError("unknown")
    [] OTHER -> GradleLiterals(ws.catalog.jvmTarget, ws.catalog.jdk)

gradleBuildFile(ws) ==
  IF "build.gradle.kts" \in ws.files THEN "build.gradle.kts" ELSE "build.gradle"

detectGradle(ws) ==
  IF ~Readable(ws, gradleBuildFile(ws)) THEN DetectionError("unknown")
  ELSE LET text == ws.gradle
       IN FirstOf(<<GradleLiterals(text.source, text.target),
                    GradleLiterals(text.jvmTarget, text.jvmTargetBlock),
                    GradleRefs(ws, text.toolchain, text.toolchainSet),
                    GradleRefs(ws, text.javaVersion, text.javaVersionSet),
                    detectGradleVersionCatalogJavaVersion(ws)>>)

-----------------------------------------------------------------------------
(* Go, Rust and Python.                                                    *)

detectGo(ws) ==
  IF Readable(ws, "go.mod") /\ ws.go # <<>> THEN Observed("go", "go", ws.go)
  ELSE DetectionError("unknown")

canonicalizeRustVersion(v) == IF Len(v) = 3 /\ v[1] = 1 THEN SubSeq(v, 1, 2) ELSE v

\* classifyRustToolchainChannel: stable, beta and nightly name no release; a
\* channel that is neither those nor a number counts only in the TOML file.
RustChannel(ws, file, channel, reportNonNumeric) ==
  CASE ~Readable(ws, file) \/ channel.kind = "empty" -> Nothing
    [] channel.kind = "numeric" -> Observed("rust", "cargo", canonicalizeRustVersion(channel.v))
    [] channel.kind = "nondeterministic" \/ reportNonNumeric -> DetectionError("unknown")
    [] OTHER -> Nothing

detectRust(ws) ==
  FirstOf(<<IF Readable(ws, "Cargo.toml") /\ ws.cargo # <<>>
            THEN Observed("rust", "cargo", canonicalizeRustVersion(ws.cargo)) ELSE Nothing,
            RustChannel(ws, "rust-toolchain.toml", ws.channelToml, TRUE),
            RustChannel(ws, "rust-toolchain", ws.channel, FALSE)>>)

canonicalizePythonVersion(v) == IF Len(v) \in {2, 3} THEN SubSeq(v, 1, 2) ELSE <<>>

\* The one minor version a specifier allows, <<>> when it spans several.
reduceSpecifier(spec) ==
  LET minor == canonicalizePythonVersion(spec.v)
  IN CASE spec.op \in {"", "=="} -> minor
       [] spec.op = "range" /\ spec.upper = <<minor[1], minor[2] + 1>> -> minor
       [] spec.op = "~=" /\ Len(spec.v) = 3 -> minor
       [] OTHER -> <<>>

HasProject(ws) == Readable(ws, "pyproject.toml") /\ ws.pyproject.project
HasPoetry(ws) == Readable(ws, "pyproject.toml") /\ ws.pyproject.poetry
HasPoetryDeps(ws) == HasPoetry(ws) /\ ws.pyproject.poetryDeps

PythonTool(ws) == IF HasPoetry(ws) THEN "poetry" ELSE "pip"

\* The specifiers of pyproject.toml that are consulted.
Specifiers(ws) ==
  SelectSeq(<<[on |-> HasProject(ws), spec |-> ws.pyproject.requires],
              [on |-> HasPoetryDeps(ws), spec |-> ws.pyproject.python]>>,
            LAMBDA s : s.on /\ s.spec.op # "none")

PlainVersions(ws) ==
  LET of(file, v) == IF Readable(ws, file) THEN canonicalizePythonVersion(v) ELSE <<>>
  IN SelectSeq(<<of(".python-version", ws.pythonVersion), of("runtime.txt", ws.runtimeTxt)>>,
               LAMBDA v : v # <<>>)

detectPython(ws) ==
  LET reduced == [i \in DOMAIN Specifiers(ws) |-> reduceSpecifier(Specifiers(ws)[i].spec)]
      detections == PlainVersions(ws) \o reduced
  IN IF \/ \E i \in DOMAIN reduced : reduced[i] = <<>>
        \/ detections = <<>>
        \/ \E i \in DOMAIN detections : detections[i] # detections[1]
     THEN DetectionError("unknown")
     ELSE Observed("python", PythonTool(ws), detections[1])

-----------------------------------------------------------------------------
scanWorkspace(ws) ==
  {l \in {"java", "go", "rust", "python"} :
     \/ l = "java" /\ {"pom.xml", "build.gradle", "build.gradle.kts"} \cap ws.files # {}
     \/ l = "go" /\ "go.mod" \in ws.files
     \/ l = "rust" /\ {"Cargo.toml", "rust-toolchain.toml", "rust-toolchain"} \cap ws.files # {}
     \/ l = "python" /\ ({".python-version", "runtime.txt"} \cap ws.files # {} \/ Specifiers(ws) # <<>>)}

checkAmbiguousOrUnknown(languages) ==
  CASE Cardinality(languages) > 1 -> "ambiguous" [] languages = {} -> "unknown" [] OTHER -> ""

javaToolIsAmbiguous(ws) ==
  "pom.xml" \in ws.files /\ {"build.gradle", "build.gradle.kts"} \cap ws.files # {}

detectJavaTool(ws) == IF "pom.xml" \in ws.files THEN "maven" ELSE "gradle"

detectJava(ws) ==
  CASE javaToolIsAmbiguous(ws)       -> DetectionError("ambiguous")
    [] detectJavaTool(ws) = "maven"  -> detectMaven(ws)
    [] detectJavaTool(ws) = "gradle" -> detectGradle(ws)

Detect(ws) ==
  LET languages == scanWorkspace(ws)
      problem   == checkAmbiguousOrUnknown(languages)
  IN CASE problem # ""           -> DetectionError(problem)
       [] "java" \in languages   -> detectJava(ws)
       [] "go" \in languages     -> detectGo(ws)
       [] "rust" \in languages   -> detectRust(ws)
       [] "python" \in languages -> detectPython(ws)

DetectTool(ws) ==
  LET languages == scanWorkspace(ws)
      problem   == checkAmbiguousOrUnknown(languages)
  IN CASE problem # ""           -> DetectionError(problem)
       [] "java" \in languages   -> IF javaToolIsAmbiguous(ws) THEN DetectionError("ambiguous")
                                    ELSE Observed("java", detectJavaTool(ws), <<>>)
       [] "go" \in languages     -> Observed("go", "go", <<>>)
       [] "rust" \in languages   -> Observed("rust", "cargo", <<>>)
       [] "python" \in languages -> Observed("python", PythonTool(ws), <<>>)

-----------------------------------------------------------------------------
DetectInit ==
  /\ \E i \in DOMAIN Workspaces : workspace \in Workspaces[i]
  /\ detected = Nothing /\ toolOnly = Nothing

RunDetection ==
  /\ detected = Nothing
  /\ detected' = Detect(workspace)
  /\ toolOnly' = DetectTool(workspace)
  /\ UNCHANGED workspace

DetectNext == RunDetection

DetectSpec == DetectInit /\ [][DetectNext]_detectVars

-----------------------------------------------------------------------------
(* The reference: what the files state, level by level of the documented    *)
(* precedence.  Each level is a set of versions; Stop marks a statement     *)
(* that no release can be read from.                                        *)

Stop == <<0>>

\* The n-th ancestor of the root POM, "" past the last one.
Lineage(ws) ==
  LET up[n \in 0 .. Cardinality(DOMAIN ws.poms)] ==
        IF n = 0 THEN "pom.xml"
        ELSE IF up[n - 1] = "" \/ ws.poms[up[n - 1]].parent \notin DOMAIN ws.poms
                  \/ ~Readable(ws, ws.poms[up[n - 1]].parent)
             THEN "" ELSE ws.poms[up[n - 1]].parent
  IN up

NearestPom(ws, name) ==
  {n \in DOMAIN Lineage(ws) :
     /\ Lineage(ws)[n] # "" /\ name \in DOMAIN ws.poms[Lineage(ws)[n]].props
     /\ \A m \in 0 .. n - 1 : name \notin DOMAIN ws.poms[Lineage(ws)[m]].props}

PropertyNames(ws) == UNION {DOMAIN ws.poms[p].props : p \in DOMAIN ws.poms}

\* The versions a Maven property states: none when it is not set.
MavenStates(ws, name) ==
  LET defined == {n \in PropertyNames(ws) : NearestPom(ws, n) # {}}
      value(n) == LET d == CHOOSE d \in NearestPom(ws, n) : TRUE
                  IN ws.poms[Lineage(ws)[d]].props[n]
      hop[i \in 0 .. Cardinality(defined)] ==
        IF i = 0 THEN value(name)
        ELSE IF hop[i - 1].ref \in defined THEN value(hop[i - 1].ref) ELSE hop[i - 1]
      end == hop[Cardinality(defined)]
  IN IF name \notin defined THEN {}
     ELSE IF end.ref # "" THEN {Stop} ELSE {end.v}

WholeNumbers(S) == {v \in S : Len(v) = 1}

MavenLevels(ws) ==
  LET both == MavenStates(ws, "source") \cup MavenStates(ws, "target")
      paired == MavenStates(ws, "source") # {} /\ MavenStates(ws, "target") # {}
  IN <<WholeNumbers(MavenStates(ws, "release")),
       IF Stop \in both THEN {Stop}
       ELSE IF ~paired THEN {}
       ELSE IF Cardinality(both) = 2 THEN {Stop} ELSE WholeNumbers(both),
       WholeNumbers(MavenStates(ws, "java"))>>

GradleStates(ws, ref) ==
  LET lines == {i \in DOMAIN ws.properties : ws.properties[i].key = ref.property}
      latest == ws.properties[CHOOSE i \in lines : \A j \in lines : j <= i].v
  IN IF ref.literal # <<>> THEN {normalizeJavaVersion(ref.literal)}
     ELSE IF ref.property = "" \/ "gradle.properties" \notin ws.files THEN {}
     ELSE IF "gradle.properties" \in ws.unreadable THEN {Stop}
     ELSE IF lines = {} \/ Len(latest) \notin {1, 2} THEN {} ELSE {normalizeJavaVersion(latest)}

GradleLevels(ws) ==
  LET lit(a, b) == {normalizeJavaVersion(v) : v \in {a, b} \ {<<>>}}
  IN <<lit(ws.gradle.source, ws.gradle.target),
       lit(ws.gradle.jvmTarget, ws.gradle.jvmTargetBlock),
       GradleStates(ws, ws.gradle.toolchain) \cup GradleStates(ws, ws.gradle.toolchainSet),
       GradleStates(ws, ws.gradle.javaVersion) \cup GradleStates(ws, ws.gradle.javaVersionSet),
       IF "libs.versions.toml" \notin ws.files THEN {}
       ELSE IF "libs.versions.toml" \in ws.unreadable THEN {Stop}
       ELSE lit(ws.catalog.jvmTarget, ws.catalog.jdk)>>

ChannelStates(ws, file, channel, strict) ==
  IF file \notin ws.files \ ws.unreadable \/ channel.kind = "empty" THEN {}
  ELSE IF channel.kind = "numeric" THEN {canonicalizeRustVersion(channel.v)}
  ELSE IF channel.kind = "nondeterministic" \/ strict THEN {Stop} ELSE {}

RustLevels(ws) ==
  <<IF Readable(ws, "Cargo.toml") THEN {canonicalizeRustVersion(ws.cargo)} \ {<<>>} ELSE {},
    ChannelStates(ws, "rust-toolchain.toml", ws.channelToml, TRUE),
    ChannelStates(ws, "rust-toolchain", ws.channel, FALSE)>>

\* All Python sources share one level: they have to agree.
PythonLevels(ws) ==
  LET plain(file, v) == IF Readable(ws, file) /\ Len(v) \in {2, 3} THEN {SubSeq(v, 1, 2)} ELSE {}
      states(s) == IF reduceSpecifier(s) = <<>> THEN {Stop} ELSE {reduceSpecifier(s)}
  IN <<plain(".python-version", ws.pythonVersion) \cup plain("runtime.txt", ws.runtimeTxt)
         \cup UNION {states(Specifiers(ws)[i].spec) : i \in DOMAIN Specifiers(ws)}>>

Levels(ws, language) ==
  CASE language = "java" /\ "pom.xml" \in ws.files ->
         IF Readable(ws, "pom.xml") THEN MavenLevels(ws) ELSE <<>>
    [] language = "java" /\ "pom.xml" \notin ws.files ->
         IF Readable(ws, gradleBuildFile(ws)) THEN GradleLevels(ws) ELSE <<>>
    [] language = "go"     -> <<IF Readable(ws, "go.mod") THEN {ws.go} \ {<<>>} ELSE {}>>
    [] language = "rust"   -> RustLevels(ws)
    [] language = "python" -> PythonLevels(ws)

\* The versions of the first level that states any.
Highest(levels) ==
  LET stated == {i \in DOMAIN levels : levels[i] # {}}
  IN IF stated = {} THEN {} ELSE levels[CHOOSE i \in stated : \A j \in stated : i <= j]

\* Detect reports a release exactly when the files name one language and one
\* build tool and the first level of the language's precedence that states
\* anything states one release; it never picks among conflicting statements
\* and never falls past a statement it cannot read (detectMaven,
\* detectGradle, detectGo, detectRust, detectPython).
DetectionFollowsPrecedence ==
  detected # Nothing =>
    LET languages == scanWorkspace(workspace)
        stated == IF Cardinality(languages) = 1
                  THEN Highest(Levels(workspace, CHOOSE l \in languages : TRUE)) ELSE {}
        clear == /\ Cardinality(languages) = 1 /\ ~javaToolIsAmbiguous(workspace)
                 /\ Cardinality(stated) = 1 /\ Stop \notin stated
    IN /\ (detected.reason = "") <=> clear
       /\ clear => detected.release \in stated /\ detected.language \in languages

\* The tool a forced stack without a tool takes from DetectTool is the tool
\* that full detection would report: whenever Detect succeeds DetectTool does,
\* with the same language and tool, and both call the same workspaces
\* ambiguous.
ToolDetectionAgrees ==
  detected # Nothing =>
    /\ detected.reason = "" => /\ toolOnly.reason = ""
                               /\ toolOnly.language = detected.language
                               /\ toolOnly.tool = detected.tool
    /\ (detected.reason = "ambiguous") <=> (toolOnly.reason = "ambiguous")

\* Both detections are the documented function of the workspace's files.
DetectionSound ==
  /\ DetectionFollowsPrecedence
  /\ ToolDetectionAgrees
=============================================================================
