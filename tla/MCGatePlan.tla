----------------------------- MODULE MCGatePlan -----------------------------
(***************************************************************************)
(* Gate sections, image catalogs and workspaces for the gate's plan.       *)
(***************************************************************************)
EXTENDS GatePlan, MCStackDetect
Stack(l, t, r) == [language |-> l, tool |-> t, release |-> r]
Image(n, needs) == [name |-> n, needs |-> needs, filled |-> <<>>]
Str(v) == [number |-> FALSE, v |-> v]
Entry(l, t, r, img) == [lang |-> l, tool |-> t, release |-> r, image |-> img]
MCCatalogs ==
  {[exists |-> FALSE, entries |-> <<>>],
   [exists |-> TRUE, entries |-> <<Entry("java", "maven", Str(<<17>>), Image("m17", {})),
                                   Entry("java", "", Str(<<>>), Image("java", {"tool", "release"})),
                                   Entry("python", "", [number |-> TRUE, v |-> <<3, 10>>], Image("py31", {}))>>],
   [exists |-> TRUE, entries |-> <<Entry("java", "", Str(<<17>>), Image("j17", {"tool"})),
                                   Entry("java", "maven", Str(<<>>), Image("mvn", {"release"}))>>],
   [exists |-> TRUE, entries |-> <<Entry("java", "", Str(<<17>>), Image("j17", {})),
                                   Entry("java", "", Str(<<17>>), Image("j17b", {}))>>]}
Rule(s, img) == [stack |-> s, image |-> img]
Off == [enabled |-> FALSE, expect |-> NoStack]
Auto == [mode |-> "", stack |-> NoStack]
ImageSets == {<<>>, <<Rule(Stack("java", "", <<17>>), Image("mine", {}))>>,
              <<Rule(Stack("java", "", <<>>), Image("any", {"release"})), Rule(Stack("java", "gradle", <<>>), Image("gr", {}))>>}
Stacks == {NoStack, Stack("java", "maven", <<17>>), Stack("java", "", <<17>>), Stack("Java", "", <<17>>), Stack("java", "gradle", <<11>>)}
MCGateSpecs ==
  {[stackGate |-> g, stackDetect |-> d, images |-> i, migKeys |-> k] :
     g \in {[enabled |-> e, expect |-> s] : e \in BOOLEAN, s \in Stacks \cup {Stack("java", "", <<>>)}},
     d \in {[mode |-> m, stack |-> s] : m \in {"", "forced", "strict", "fallback"}, s \in Stacks},
     i \in ImageSets, k \in {{"java-maven", "default"}, {"java-maven", "java-gradle"}}}
Pom(props) == [EmptyWorkspace EXCEPT !.files = {"pom.xml"},
                 !.poms = "pom.xml" :> [parent |-> "outside", props |-> props]]
MCGateWorkspaces ==
  {Pom("release" :> Lit(<<17>>)), Pom("release" :> Lit(<<11>>)), Pom(<<>>),
   [EmptyWorkspace EXCEPT !.files = {"build.gradle"}, !.gradle.source = <<17>>],
   [EmptyWorkspace EXCEPT !.files = {".python-version"}, !.pythonVersion = <<3, 10, 2>>],
   [EmptyWorkspace EXCEPT !.files = {"go.mod", "pom.xml"}]}
=============================================================================
