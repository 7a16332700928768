--------------------------- MODULE MCStackDetect ----------------------------
(***************************************************************************)
(* Workspaces for stack detection: Maven projects with parents and         *)
(* properties, Gradle builds, Rust and Python projects, and mixtures.      *)
(***************************************************************************)
EXTENDS StackDetect
NoRef == [literal |-> <<>>, property |-> ""]
NoSpecifier == [op |-> "none", v |-> <<>>, upper |-> <<>>]
NoChannel == [kind |-> "empty", v |-> <<>>]
EmptyWorkspace ==
  [files |-> {}, unreadable |-> {}, poms |-> <<>>,
   gradle |-> [source |-> <<>>, target |-> <<>>, jvmTarget |-> <<>>, jvmTargetBlock |-> <<>>,
               toolchain |-> NoRef, toolchainSet |-> NoRef, javaVersion |-> NoRef, javaVersionSet |-> NoRef],
   properties |-> <<>>, catalog |-> [jvmTarget |-> <<>>, jdk |-> <<>>],
   go |-> <<>>, cargo |-> <<>>, channelToml |-> NoChannel, channel |-> NoChannel,
   pythonVersion |-> <<>>, runtimeTxt |-> <<>>,
   pyproject |-> [project |-> FALSE, requires |-> NoSpecifier, poetry |-> FALSE,
                  poetryDeps |-> FALSE, python |-> NoSpecifier]]
Lit(v) == [ref |-> "", v |-> v]
PropRef(n) == [ref |-> n, v |-> <<>>]
PropsOver(S, V) == UNION {[D -> V] : D \in SUBSET S}
MavenWorkspaces ==
  {[EmptyWorkspace EXCEPT !.files = {"pom.xml", "parent/pom.xml"}, !.unreadable = u,
      !.poms = "pom.xml" :> [parent |-> up, props |-> own]
               @@ "parent/pom.xml" :> [parent |-> "pom.xml", props |-> inherited]] :
     u \in {{}, {"parent/pom.xml"}}, up \in {"outside", "parent/pom.xml"},
     own \in PropsOver({"release", "source", "target", "java"}, {Lit(<<17>>), Lit(<<1, 8>>), PropRef("java")}),
     inherited \in PropsOver({"target", "java"}, {Lit(<<11>>), PropRef("release")})}
GradleRefSet == {NoRef, [literal |-> <<1, 8>>, property |-> ""], [literal |-> <<>>, property |-> "jdk"]}
GradleWorkspaces ==
  {[EmptyWorkspace EXCEPT !.files = {b, "gradle.properties", "libs.versions.toml"}, !.unreadable = u,
      !.gradle = [source |-> s, target |-> t, jvmTarget |-> j, jvmTargetBlock |-> <<>>,
                  toolchain |-> r, toolchainSet |-> r2, javaVersion |-> NoRef, javaVersionSet |-> r3],
      !.properties = p, !.catalog = [jvmTarget |-> <<21>>, jdk |-> c]] :
     b \in {"build.gradle", "build.gradle.kts"},
     u \in {{}, {"gradle.properties"}, {"libs.versions.toml"}, {"build.gradle"}},
     s \in {<<>>, <<1, 8>>}, t \in {<<>>, <<8>>, <<17>>}, j \in {<<>>, <<11>>},
     r \in GradleRefSet, r2 \in GradleRefSet, r3 \in GradleRefSet,
     p \in {<<[key |-> "jdk", v |-> <<8>>]>>, <<[key |-> "jdk", v |-> <<17>>], [key |-> "jdk", v |-> <<>>]>>},
     c \in {<<>>, <<17>>}}
Channels == {NoChannel, [kind |-> "numeric", v |-> <<1, 75, 0>>], [kind |-> "nondeterministic", v |-> <<>>],
             [kind |-> "other", v |-> <<>>]}
RustWorkspaces ==
  {[EmptyWorkspace EXCEPT !.files = f, !.unreadable = u \cap f, !.cargo = c, !.channelToml = t, !.channel = k] :
     f \in SUBSET {"Cargo.toml", "rust-toolchain.toml", "rust-toolchain"},
     u \in {{}, {"Cargo.toml"}, {"rust-toolchain.toml"}}, c \in {<<>>, <<1, 76, 1>>},
     t \in Channels, k \in Channels}
SpecifierSet ==
  {NoSpecifier, [op |-> "==", v |-> <<3, 11>>, upper |-> <<>>], [op |-> "~=", v |-> <<3, 11, 2>>, upper |-> <<>>],
   [op |-> "~=", v |-> <<3, 11>>, upper |-> <<>>], [op |-> "range", v |-> <<3, 11>>, upper |-> <<3, 12>>],
   [op |-> "range", v |-> <<3, 9>>, upper |-> <<3, 12>>], [op |-> "^", v |-> <<3, 11>>, upper |-> <<>>]}
PythonWorkspaces ==
  {[EmptyWorkspace EXCEPT !.files = f, !.unreadable = u \cap f, !.pythonVersion = v, !.runtimeTxt = r,
      !.pyproject = [project |-> p, requires |-> s, poetry |-> q, poetryDeps |-> q, python |-> s2]] :
     f \in SUBSET {".python-version", "runtime.txt", "pyproject.toml"},
     u \in {{}, {"pyproject.toml"}}, v \in {<<>>, <<3, 11, 6>>}, r \in {<<3, 9, 18>>, <<3, 11>>},
     p \in BOOLEAN, s \in SpecifierSet, q \in BOOLEAN, s2 \in {NoSpecifier, [op |-> "^", v |-> <<3, 11>>, upper |-> <<>>],
            [op |-> "", v |-> <<3, 11>>, upper |-> <<>>]}}
MixedWorkspaces ==
  {[EmptyWorkspace EXCEPT !.files = f, !.go = g, !.unreadable = u \cap f,
      !.poms = "pom.xml" :> [parent |-> "outside", props |-> <<>>]] :
     f \in SUBSET {"pom.xml", "build.gradle", "go.mod", "Cargo.toml", ".python-version"},
     g \in {<<>>, <<1, 22>>}, u \in {{}, {"go.mod"}, {"pom.xml"}}}
MCWorkspaces == <<MavenWorkspaces, GradleWorkspaces, RustWorkspaces, PythonWorkspaces, MixedWorkspaces>>
=============================================================================
