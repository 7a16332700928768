--------------------------- MODULE MCJobManifest ----------------------------
(***************************************************************************)
(* Submissions for the way of a spec to its container: the sources of an   *)
(* environment variable, mounted files, HOME and Java stacks.              *)
(***************************************************************************)
EXTENDS JobManifest, TLC
E(k, v) == [x \in {k} |-> v]
Opt(k, v) == {NoEnv, E(k, v)}
Rec(h, t, d, ro, a) == [hash |-> h, text |-> t, dst |-> d, ro |-> ro, authored |-> a]
InX == Rec("h1", "/in/x", <<"in", "x">>, TRUE, TRUE)
InXShort == Rec("h2", "x", <<"in", "x">>, TRUE, TRUE)
InY == Rec("h3", "/in/y", <<"in", "y">>, TRUE, FALSE)
ConfX == Rec("h4", "/in/x", <<"in", "x">>, TRUE, FALSE)
HomeA == Rec("h5", ".a", <<".a">>, TRUE, TRUE)
HomeB == Rec("h6", ".a/b", <<".a", "b">>, TRUE, TRUE)
HomeW == Rec("h7", ".w", <<".w">>, FALSE, TRUE)
StepRec(n, e, in, home, ib, ob) == [name |-> n, envs |-> e, in |-> in, home |-> home, inbound |-> ib, outbound |-> ob]
Plain(n, e) == StepRec(n, e, <<>>, <<>>, "none", "none")
Base == [spec |-> [ok |-> TRUE, envs |-> NoEnv, steps |-> <<Plain("s1", NoEnv)>>, bundles |-> {}],
         named |-> FALSE, process |-> NoEnv, overrides |-> NoEnv, local |-> [envs |-> NoEnv, in |-> <<>>],
         global |-> {}, overlay |-> <<>>, bundles |-> {}, jobType |-> "mig", index |-> 1, stack |-> "",
         socket |-> FALSE, homes |-> NoEnv]
SpecRec(e, steps) == [ok |-> TRUE, envs |-> e, steps |-> steps, bundles |-> {}]
G(t, k) == [key |-> k, target |-> t, value |-> t]
EnvSources(k) ==
  {[Base EXCEPT !.spec = SpecRec(top, IF two THEN <<Plain("s1", step), Plain("s2", NoEnv)>> ELSE <<Plain("s1", step)>>),
                !.overrides = flag, !.named = named, !.jobType = type, !.process = process,
                !.local.envs = loc, !.global = global, !.stack = stack, !.homes = [v \in {} |-> <<>>]] :
     top \in {NoEnv, E(k, "spec"), E(k, "$V")}, step \in {NoEnv, E(k, "step"), E(k, "$V")}, two \in BOOLEAN,
     flag \in {NoEnv, E("s1", E(k, "flag")), E("s1", E(k, "$V"))}, named \in BOOLEAN, type \in {"mig", "pre_gate"},
     process \in {NoEnv, E("V", "process")}, loc \in Opt(k, "local"),
     global \in SUBSET {G("nodes", k), G("steps", k)}, stack \in {""}}
OwnedOf(k) ==
  {[Base EXCEPT !.spec = SpecRec(E(k, "spec"), <<Plain("s1", step)>>), !.stack = stack, !.jobType = type,
                !.global = {G("gates", k), G("server", k)}] :
     step \in Opt(k, "step"), stack \in {"", "tool"}, type \in {"mig", "post_gate"}}
Overrides == {[Base EXCEPT !.spec = SpecRec(NoEnv, <<Plain(a, NoEnv), Plain(b, NoEnv)>>), !.index = i,
                           !.overrides = E("s1", E("K", "flag")), !.named = named] :
                a, b \in {"", "s1", "s2"}, named \in BOOLEAN, i \in {1, 2}}
Ins == {<<>>, <<InX>>, <<InX, InXShort>>, <<InY>>, <<InY, InX>>}
Records ==
  {[Base EXCEPT !.spec = SpecRec(NoEnv, <<StepRec("s1", NoEnv, in, <<>>, "none", "none"), Plain("s2", NoEnv)>>),
                !.local.in = loc, !.overlay = ov, !.bundles = b, !.named = named, !.jobType = type, !.index = i] :
     in \in Ins, loc \in {<<>>, <<InXShort>>, <<InX>>}, ov \in {<<>>, <<ConfX>>, <<ConfX, InY>>, <<ConfX, ConfX>>},
     b \in {{}, {"h3", "h4"}}, named \in BOOLEAN, type \in {"mig", "post_gate"}, i \in {1, 2}}
HomePaths == {<<"root">>, <<>>, <<"in">>, <<"ploy">>, <<"ploy", "config">>, <<"ploy", "cache", "job", "h">>,
              <<"var">>, <<"workspace", "h">>, <<"relative">>, <<"home", "u">>}
Homes ==
  {[Base EXCEPT !.spec = SpecRec(E("HOME", "h"), <<StepRec("s1", NoEnv, <<>>, home, "none", "none")>>),
                !.homes = E("h", p), !.socket = socket] :
     home \in {<<>>, <<HomeA>>, <<HomeA, HomeB>>, <<HomeW, HomeA>>}, p \in HomePaths, socket \in BOOLEAN}
Phases == {"none", "off", "A", "B"}
Chains == {[Base EXCEPT !.spec = SpecRec(NoEnv, <<StepRec("s1", NoEnv, <<>>, <<>>, "none", a), StepRec("s2", NoEnv, <<>>, <<>>, b, c),
                                                StepRec("s3", NoEnv, <<>>, <<>>, d, "none")>>)] :
             a, b, c, d \in Phases}
MCSubmissions == <<EnvSources("K"), OwnedOf("PLOY_JOB_ID"), OwnedOf("PLOY_STACK_TOOL"), OwnedOf("PLOY_JOB_TYPE"), Overrides,
                   Records, Homes, Chains>>
=============================================================================
