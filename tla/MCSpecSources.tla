--------------------------- MODULE MCSpecSources ----------------------------
(***************************************************************************)
(* Spec files with mounts, references and includes, for the compilation of *)
(* a spec from its sources.                                                *)
(***************************************************************************)
EXTENDS SpecSources, TLC
LOCAL INSTANCE SequencesExt
Top == <<"w">>
RootFileP == <<"w","r","mig.yaml">>
LibFile == <<"w","r","lib","mig.yaml">>
DeepFile == <<"w","r","lib","deep","mig.yaml">>
FragFile == <<"w","s","frag.yaml">>
Data == (<<"w","r","f">> :> Text("r")) @@ (<<"w","r","lib","f">> :> Text("lib"))
     @@ (<<"w","r","lib","deep","f">> :> Text("deep")) @@ (<<"w","s","f">> :> Text("s"))
     @@ (<<"w","s","recipe.yaml">> :> Map(<<"part">>, <<Include(<<"part.yaml">>, <<>>)>>))
     @@ (<<"w","s","part.yaml">> :> Text("part"))
     @@ (<<"h","f">> :> Text("h")) @@ (<<"w","r","lib","lib","deep","f">> :> Text("wrong"))
StepMap(name, more) == Map(<<"name","image">> \o [i \in DOMAIN more |-> more[i][1]], <<Text(name), Text("img")>> \o [i \in DOMAIN more |-> more[i][2]])
In(es) == <<"in", List(es)>>
Out(es) == <<"out", List(es)>>
Home(es) == <<"home", List(es)>>
Tmp(es) == <<"tmp", List(es)>>
\* mounts relative to a directory that holds an f
LocalMounts == { <<In(<<Mount(<<"f">>, <<"x">>)>>)>>,
   <<In(<<Mount(<<".", "f">>, <<"/", "x">>), Mount(<<"f">>, <<"x">>)>>)>>,
   <<Home(<<Mount(<<"~", "f">>, <<"c">>)>>), Out(<<Mount(<<"f">>, <<"a", "b">>)>>)>>,
   <<Tmp(<<Mount(<<"f">>, <<"/", "tmp", "z">>)>>)>>,
   <<Tmp(<<Mount(<<"f">>, <<"/", "z">>)>>)>>,
   <<In(<<Mount(<<"f">>, <<"..", "x">>)>>)>>,
   <<In(<<Mount(<<"#", "h1">>, <<"/", "in", "x">>)>>)>>,
   <<In(<<Mount(<<"gone">>, <<"x">>)>>)>>,
   <<>> }
Root(steps) == Map(<<"steps">>, <<List(steps)>>)
T(files, sel, repo) == [files |-> files @@ Data, top |-> Top, root |-> RootFileP, selector |-> sel, repository |-> repo]
Sel == {"", "a"}
Frag(step) == Map(<<"step", "other">>, <<step, Include(<<"frag.yaml">>, <<"step">>)>>)
\* the root's own mounts, and mounts of YAML files with includes
SharedUp == <<"..", "s">>
YamlMounts == { <<In(<<Mount(SharedUp \o <<"recipe.yaml">>, <<"recipe.yaml">>)>>)>>,
   <<In(<<Mount(SharedUp \o <<"recipe.yaml">>, <<"recipe.yaml">>), Mount(SharedUp \o <<"part.yaml">>, <<"part.yaml">>)>>)>>,
   <<In(<<Mount(SharedUp, <<"d">>), Mount(SharedUp \o <<"recipe.yaml">>, <<"d2", "recipe.yaml">>)>>)>>,
   <<In(<<Mount(SharedUp, <<"d">>), Mount(SharedUp \o <<"recipe.yaml">>, <<"d", "recipe.yaml">>)>>)>> }
Own == {T(RootFileP :> Root(<<StepMap("a", m), StepMap("b", n)>>), s, repo) :
         m \in LocalMounts \cup YamlMounts, n \in LocalMounts, s \in Sel, repo \in BOOLEAN}
\* one ref, with wrapper
Wrappers(path) == { Map(<<"ref">>, <<Ref(path, "s")>>),
   Map(<<"ref", "envs">>, <<Ref(path, "s"), Map(<<"X", "Y">>, <<Text("w"), Text("w")>>)>>),
   Map(<<"ref", "image">>, <<Ref(path, "s"), Text("other")>>),
   Map(<<"ref", "command">>, <<Ref(path, "s"), Text("other")>>) }
LibSteps == {StepMap("s", m \o <<<<"envs", Map(<<"X", "Z">>, <<Text("l"), Text("l")>>)>>>>) : m \in LocalMounts}
   \cup {Map(<<"<<", "name">>, <<Include(<<"..", "..", "s", "frag.yaml">>, <<"step">>), Text("s")>>)}
Refs == {T(RootFileP :> Root(<<w>>) @@ LibFile :> Root(<<l, StepMap("t", <<>>)>>) @@ FragFile :> Frag(StepMap("f", m)), "", repo) :
         w \in Wrappers(<<"lib", "mig.yaml">>) \cup Wrappers(<<"lib">>) \cup Wrappers(<<"..", "..", "out">>),
         l \in LibSteps, m \in LocalMounts, repo \in BOOLEAN}
\* two refs
Nested == {T(RootFileP :> Root(<<Map(<<"ref">>, <<Ref(<<"lib">>, "s")>>)>>)
             @@ LibFile :> Root(<<Map(<<"ref">>, <<Ref(back, "s")>>)>>)
             @@ DeepFile :> Root(<<StepMap("s", m)>>), "", TRUE) :
            back \in {<<"deep">>, <<".">>, <<"..">>}, m \in LocalMounts}
\* includes: merges, self fragments, cycles, lists
Shared == <<"..", "s", "frag.yaml">>
EnvEntry(k, v) == Map(<<k>>, <<Text(v)>>)
FragSteps == {StepMap("f", m \o <<<<"envs", Map(<<"X", "Z">>, <<Text("l"), Text("l")>>)>>>>) : m \in LocalMounts}
  \cup {Include(<<"frag.yaml">>, <<"other">>), Map(<<"<<", "image">>, <<Include(<<"frag.yaml">>, <<"base">>), Text("i")>>)}
FragDoc(step) == Map(<<"step", "other", "base", "list">>,
   <<step, Include(<<"frag.yaml">>, <<"step">>), StepMap("base", <<<<"envs", EnvEntry("X", "b")>>>>), List(<<Mount(<<"f">>, <<"x">>)>>)>>)
IncSteps == { Include(Shared, <<"step">>), Include(Shared, <<"other">>), Include(Shared, <<"none">>),
  Include(Shared, <<"list", "0">>),
  Map(<<"<<", "envs">>, <<Include(Shared, <<"step">>), EnvEntry("X", "own")>>),
  Map(<<"envs", "<<">>, <<EnvEntry("X", "own"), Include(Shared, <<"other">>)>>),
  Map(<<"<<", "envs">>, <<List(<<Include(Shared, <<"base">>), Include(Shared, <<"step">>)>>), Text("flat")>>),
  Map(<<"envs", "<<">>, <<Text("flat"), Include(Shared, <<"step">>)>>),
  Map(<<"<<", "image">>, <<Text("scalar"), Text("i")>>),
  Map(<<"name", "image", "in">>, <<Text("n"), Text("i"), List(<<Mount(<<"f">>, <<"y">>)>>)>>) }
Inc == {T(RootFileP :> Root(<<a, b>>) @@ FragFile :> FragDoc(f), "", repo) :
         a \in IncSteps, b \in IncSteps, f \in FragSteps, repo \in BOOLEAN}
Bare == {T(RootFileP :> Root(<<Map(<<"name", "image", "in">>, <<Text("n"), Text("i"), Include(Shared, <<"list">>)>>)>>)
           @@ FragFile :> FragDoc(StepMap("f", <<>>)), "", TRUE)}
MCTrees == <<Own, Refs, Nested, Inc, Bare>>
MCNested == <<Nested>>
MCHome == <<"h">>
=============================================================================
