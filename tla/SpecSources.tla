---------------------------- MODULE SpecSources ----------------------------
(***************************************************************************)
(* How an authored spec, spread over several files, becomes the steps that  *)
(* are submitted: `!include` fragments and `<<` merge keys of the YAML       *)
(* (includes.go), step references (refs.go), and the file records whose      *)
(* sources are paths relative to the file that declares them                 *)
(* (file_records.go, local_files.go, repository_source.go).                  *)
(*                                                                         *)
(* A YAML node is a record: `kind` "map", "seq", "scalar", "include" or       *)
(* "error"; `keys` and `kids` its children; `text` a scalar, the destination  *)
(* field of a mount entry or the step name of a ref; `path` the source of a   *)
(* mount entry, of a ref or of an include, as path components whose first may *)
(* be "/" (absolute), "~" (home), "$" (environment) or "#" (already a content *)
(* hash); `ptr` the fragment pointer of an include; `dst` a mount's           *)
(* destination.  `means` (the file a mount entry names where it was written), *)
(* `hops` (the refs it came through) and `bare` (it came by an include of a    *)
(* plain list) are for the properties only.  YAML aliases are left out: the    *)
(* code copies their targets.  A content hash is the content itself.          *)
(***************************************************************************)
EXTENDS Naturals, Sequences, FiniteSets
LOCAL INSTANCE SequencesExt

CONSTANTS Trees,     \* a sequence of sets of inputs [files, top, root, repository]
          TreeHome   \* the home directory `~` stands for

ASSUME TreesAssumption == TreeHome \in Seq(STRING)

VARIABLES tree,      \* the files, the spec submitted and the kind of source
          compiled,  \* what BuildSelected returns for it
          checked,   \* what ValidateFile returns for it
          loaded     \* what Load returns for it
sourceVars == <<tree, compiled, checked, loaded>>

Kinds == <<"in", "out", "home", "tmp">>

Leaf == [kind |-> "scalar", keys |-> <<>>, kids |-> <<>>, text |-> "", path |-> <<>>,
         ptr |-> <<>>, dst |-> <<>>, means |-> <<>>, hops |-> 0, bare |-> FALSE]
Text(t) == [Leaf EXCEPT !.text = t]
Mount(path, dst) == [Leaf EXCEPT !.path = path, !.dst = dst]
Ref(path, step) == [Leaf EXCEPT !.path = path, !.text = step]
Include(path, ptr) == [Leaf EXCEPT !.kind = "include", !.path = path, !.ptr = ptr]
List(kids) == [Leaf EXCEPT !.kind = "seq", !.kids = kids]
Map(keys, kids) == [Leaf EXCEPT !.kind = "map", !.keys = keys, !.kids = kids]
Error(why) == [Leaf EXCEPT !.kind = "error", !.text = why]
Failed(n) == n.kind = "error"

Has(n, key) == n.kind = "map" /\ \E i \in DOMAIN n.keys : n.keys[i] = key
At(n, key) == n.kids[CHOOSE i \in DOMAIN n.keys : n.keys[i] = key]
Put(n, key, v) ==
  IF Has(n, key)
  THEN [n EXCEPT !.kids[CHOOSE i \in DOMAIN n.keys : n.keys[i] = key] = v]
  ELSE [n EXCEPT !.keys = Append(@, key), !.kids = Append(@, v)]
FirstFailed(kids) == LET bad == {i \in DOMAIN kids : Failed(kids[i])}
                     IN  IF bad = {} THEN Leaf ELSE kids[CHOOSE i \in bad : \A j \in bad : i <= j]

-----------------------------------------------------------------------------
(* Paths: filepath.Clean(filepath.Join(dir, path)) and filepath.Rel *)

Dir(file) == SubSeq(file, 1, Len(file) - 1)
Join(dir, path) ==
  LET Step(p, c) == IF c = "." THEN p
                    ELSE IF c = ".." THEN SubSeq(p, 1, Len(p) - 1)
                    ELSE Append(p, c)
  IN  FoldLeft(Step, dir, path)
Rel(base, target) ==
  LET k == CHOOSE n \in 0..Len(base) :
             /\ n <= Len(target) /\ SubSeq(base, 1, n) = SubSeq(target, 1, n)
             /\ \A m \in (n + 1)..Len(base) :
                  m > Len(target) \/ SubSeq(base, 1, m) # SubSeq(target, 1, m)
  IN  [i \in 1..(Len(base) - k) |-> ".."] \o SubSeq(target, k + 1, Len(target))
IsRelative(path) == path # <<>> /\ path[1] \notin {"/", "~", "$", "#"}

NoPath == <<"error">>

\* RepositorySource.resolve: only relative paths, and only below the root
RepositoryResolve(t, path, base) ==
  IF IsRelative(path) /\ IsPrefix(t.top, Join(base, path)) THEN Join(base, path) ELSE NoPath

\* localSource.ResolveReference: a literal path; "~" and "$" are plain names
LocalReference(path, base) ==
  IF path = <<>> THEN NoPath ELSE IF path[1] = "/" THEN Tail(path) ELSE Join(base, path)

\* localSource.ResolveFileRecord: home and environment prefixes are expanded
LocalFileRecord(path, base) ==
  IF path = <<>> THEN NoPath
  ELSE IF path[1] = "/" THEN Tail(path)
  ELSE IF path[1] \in {"~", "$"} THEN Join(TreeHome, Tail(path))
  ELSE Join(base, path)

ResolveReference(t, path, base) ==
  IF t.repository THEN RepositoryResolve(t, path, base) ELSE LocalReference(path, base)
ResolveFileRecord(t, path, base) ==
  IF t.repository THEN RepositoryResolve(t, path, base) ELSE LocalFileRecord(path, base)

IsDir(t, path) == \E f \in DOMAIN t.files : Len(f) > Len(path) /\ IsPrefix(path, f)
Stat(t, path) == path \in DOMAIN t.files \/ IsDir(t, path)

\* reading a file; each mount entry notes the file it names where it is written
RECURSIVE Stamp(_, _, _)
Stamp(t, n, dir) ==
  IF n.kind = "scalar"
  THEN IF n.dst = <<>> THEN n ELSE [n EXCEPT !.means = ResolveFileRecord(t, n.path, dir)]
  ELSE [n EXCEPT !.kids = [i \in DOMAIN @ |-> Stamp(t, @[i], dir)]]
ReadFile(t, file) ==
  IF file \in DOMAIN t.files THEN Stamp(t, t.files[file], Dir(file)) ELSE Error("read")
-----------------------------------------------------------------------------
(* Rebasing the relative sources of a fragment or of a referenced step *)

\* rebaseMountEntrySource: hashes and non-relative sources stay as they are
rebaseMountEntrySource(e, file, base) ==
  IF e.kind = "scalar" /\ IsRelative(e.path)
  THEN [e EXCEPT !.path = Rel(base, Join(Dir(file), e.path))]
  ELSE e

normalizeRefEntry(e, file, base) ==
  IF e.kind = "scalar" /\ e.path # <<>> /\ e.text # "" /\ e.path[1] # "/"
  THEN [e EXCEPT !.path = Rel(base, Join(Dir(file), e.path))]
  ELSE e

RECURSIVE normalizeIncludedLocalPaths(_, _, _)
normalizeIncludedLocalPaths(n, file, base) ==
  LET Child(i) ==
        LET v == n.kids[i]
            w == IF n.kind # "map" THEN v
                 ELSE IF n.keys[i] \in Range(Kinds) /\ v.kind = "seq"
                 THEN [v EXCEPT !.kids = [j \in DOMAIN @ |->
                         rebaseMountEntrySource(@[j], file, base)]]
                 ELSE IF n.keys[i] = "ref" THEN normalizeRefEntry(v, file, base)
                 ELSE v
        IN  normalizeIncludedLocalPaths(w, file, base)
  IN  IF n.kind \in {"map", "seq"} THEN [n EXCEPT !.kids = [i \in DOMAIN @ |-> Child(i)]] ELSE n

-----------------------------------------------------------------------------
(* !include and << *)

\* selectNode/pointerStep: a pointer walks mapping keys and sequence indexes
RECURSIVE selectNode(_, _)
selectNode(n, ptr) ==
  IF ptr = <<>> THEN n
  ELSE IF n.kind = "map" /\ Has(n, Head(ptr)) THEN selectNode(At(n, Head(ptr)), Tail(ptr))
  ELSE IF n.kind = "seq" /\ \E i \in DOMAIN n.kids : ToString(i - 1) = Head(ptr)
  THEN selectNode(n.kids[CHOOSE i \in DOMAIN n.kids : ToString(i - 1) = Head(ptr)], Tail(ptr))
  ELSE Error("pointer")

\* the entries of a plain list are not below a mapping key of the fragment
MarkBare(n) ==
  IF n.kind = "seq" THEN [n EXCEPT !.kids = [i \in DOMAIN @ |-> [@[i] EXCEPT !.bare = TRUE]]] ELSE n

\* Mutant: the cycle check forgets the fragment pointer
includeCycleByFile(stack, target) == \E i \in DOMAIN stack : stack[i][1] = target[1]

includeCycle(stack, target) == \E i \in DOMAIN stack : stack[i] = target

RECURSIVE resolveIncludes(_, _, _, _, _)
resolveIncludes(t, n, file, base, stack) ==
  IF n.kind = "include"
  THEN LET target == ResolveReference(t, n.path, Dir(file))
           id == <<target, n.ptr>>
           selected == selectNode(ReadFile(t, target), n.ptr)
       IN  IF target = NoPath THEN Error("path")
           ELSE IF includeCycle(stack, id) THEN Error("cycle")
           ELSE IF Failed(ReadFile(t, target)) THEN Error("read")
           ELSE IF Failed(selected) THEN Error("pointer")
           ELSE resolveIncludes(t, normalizeIncludedLocalPaths(MarkBare(selected), target, base),
                                target, base, Append(stack, id))
  ELSE LET kids == [i \in DOMAIN n.kids |-> resolveIncludes(t, n.kids[i], file, base, stack)]
       IN  IF Failed(FirstFailed(kids)) THEN FirstFailed(kids) ELSE [n EXCEPT !.kids = kids]

RECURSIVE mergeMappingInto(_, _)
setOrDeepMergeKey(dst, key, v) ==
  IF Has(dst, key) /\ At(dst, key).kind = "map" /\ v.kind = "map"
  THEN Put(dst, key, mergeMappingInto(At(dst, key), v))
  ELSE Put(dst, key, v)
mergeMappingInto(dst, src) ==
  FoldLeft(LAMBDA d, i : setOrDeepMergeKey(d, src.keys[i], src.kids[i]),
           dst, [i \in DOMAIN src.keys |-> i])

collectMergeSources(v) ==
  IF v.kind = "map" THEN <<v>>
  ELSE IF v.kind = "seq" /\ \A i \in DOMAIN v.kids : v.kids[i].kind = "map" THEN v.kids
  ELSE <<Error("merge")>>

RECURSIVE expandDeepMergeKeys(_)
expandDeepMergeKeys(n) ==
  LET kids == [i \in DOMAIN n.kids |-> expandDeepMergeKeys(n.kids[i])]
      Bad(i) == n.keys[i] = "<<" /\ Failed(collectMergeSources(kids[i])[1])
      Entry(d, i) == IF n.keys[i] = "<<"
                     THEN FoldLeft(mergeMappingInto, d, collectMergeSources(kids[i]))
                     ELSE setOrDeepMergeKey(d, n.keys[i], kids[i])
  IN  IF Failed(FirstFailed(kids)) THEN FirstFailed(kids)
      ELSE IF n.kind # "map" THEN [n EXCEPT !.kids = kids]
      ELSE IF \E i \in DOMAIN n.keys :
                n.keys[i] = "<<" /\ kids[i] # List(<<>>) /\ Bad(i) THEN Error("merge")
      ELSE FoldLeft(Entry, Map(<<>>, <<>>), [i \in DOMAIN n.keys |-> i])

\* parseSpecInputToMap/composeSpecYAML; the root of the stack has a name of its own
RootFile(dir) == Append(dir, ".root-spec.yaml")
Merged(resolved) == IF Failed(resolved) THEN resolved ELSE expandDeepMergeKeys(resolved)
Object(n) == IF Failed(n) \/ n.kind = "map" THEN n ELSE Error("object")
parseSpecInputToMap(t, n, dir) ==
  Object(Merged(resolveIncludes(t, n, RootFile(dir), dir, <<<<RootFile(dir), <<>>>>>>)))
-----------------------------------------------------------------------------
(* steps[].ref *)

\* selectNamedStep: every step is named, once
selectNamedStep(spec, name) ==
  LET steps == At(spec, "steps").kids
      Name(i) == IF Has(steps[i], "name") THEN At(steps[i], "name").text ELSE ""
  IN  IF Failed(spec) THEN spec
      ELSE IF ~Has(spec, "steps") \/ At(spec, "steps").kind # "seq" THEN Error("steps")
      ELSE IF \E i \in DOMAIN steps : steps[i].kind # "map" \/ Name(i) = "" THEN Error("name")
      ELSE IF \E i, j \in DOMAIN steps : i # j /\ Name(i) = Name(j) THEN Error("duplicate")
      ELSE IF ~\E i \in DOMAIN steps : Name(i) = name THEN Error("missing step")
      ELSE steps[CHOOSE i \in DOMAIN steps : Name(i) = name]

normalizeStepLocalPaths(step, file, base) ==
  LET Rebase(e) == IF e.kind = "scalar" /\ e.dst # <<>>
                   THEN [rebaseMountEntrySource(e, file, base) EXCEPT !.hops = @ + 1] ELSE e
  IN  IF Failed(step) THEN step ELSE
      [step EXCEPT !.kids = [i \in DOMAIN @ |->
         IF step.keys[i] \in Range(Kinds) /\ @[i].kind = "seq"
         THEN [@[i] EXCEPT !.kids = [j \in DOMAIN @ |-> Rebase(@[j])]]
         ELSE @[i]]]

\* applyRefStepEnvOverlay and applyRefStepImageOverride
applyRefWrapper(imported, wrapper) ==
  LET base == IF Has(imported, "envs") THEN At(imported, "envs") ELSE Map(<<>>, <<>>)
      merged == mergeMappingInto(base, At(wrapper, "envs"))
      withEnvs == IF Has(wrapper, "envs") /\ merged.keys # <<>>
                  THEN Put(imported, "envs", merged) ELSE imported
  IN  IF Has(wrapper, "envs") /\ (At(wrapper, "envs").kind # "map" \/ base.kind # "map")
      THEN Error("envs")
      ELSE IF Has(wrapper, "image") THEN Put(withEnvs, "image", At(wrapper, "image"))
      ELSE withEnvs

\* parseSpecStepRef: a directory stands for the mig.yaml in it
RefFile(t, ref, file) ==
  LET path == ResolveReference(t, ref.path, Dir(file))
      spec == IF IsDir(t, path) THEN Append(path, "mig.yaml") ELSE path
  IN  IF ref.text = "" \/ path = NoPath \/ spec \notin DOMAIN t.files THEN NoPath ELSE spec

\* a wrapper holds a ref and what it overrides, nothing else
importStep(wrapper, imported) ==
  IF ~(Range(wrapper.keys) \subseteq {"ref", "envs", "image"}) THEN Error("wrapper")
  ELSE IF At(wrapper, "ref").kind # "scalar" THEN Error("ref")
  ELSE IF Failed(imported) THEN imported
  ELSE applyRefWrapper(imported, wrapper)

ReplaceSteps(spec, steps) ==
  IF Failed(FirstFailed(steps)) THEN FirstFailed(steps) ELSE Put(spec, "steps", List(steps))

RECURSIVE expandSpecRefs(_, _, _, _, _)
loadReferencedStep(t, ref, target, base, stack) ==
  IF target = NoPath THEN Error("ref")
  ELSE IF \E i \in DOMAIN stack : stack[i] = <<target, ref.text>> THEN Error("ref cycle")
  ELSE normalizeStepLocalPaths(
         selectNamedStep(expandSpecRefs(t, parseSpecInputToMap(t, ReadFile(t, target), Dir(target)),
                                        target, base, Append(stack, <<target, ref.text>>)), ref.text),
         target, base)

\* a spec that failed has no steps and stays as it is
expandSpecRefs(t, spec, file, base, stack) ==
  LET steps == IF Has(spec, "steps") /\ At(spec, "steps").kind = "seq"
               THEN At(spec, "steps").kids ELSE <<>>
      Import(step, ref) == importStep(step, loadReferencedStep(t, ref, RefFile(t, ref, file), base, stack))
  IN  IF steps = <<>> THEN spec
      ELSE ReplaceSteps(spec, [i \in DOMAIN steps |->
             IF Has(steps[i], "ref") THEN Import(steps[i], At(steps[i], "ref")) ELSE steps[i]])

-----------------------------------------------------------------------------
(* File records *)

IsCanonical(e) == e.path # <<>> /\ e.path[1] = "#"
Clean(dst) == SelectSeq(IF dst # <<>> /\ dst[1] = "/" THEN Tail(dst) ELSE dst, LAMBDA c : c # ".")

\* parseAuthoringEntry: the destination below the root of its kind, or NoPath
parseAuthoringEntry(kind, e) ==
  IF e.path = <<>> \/ ".." \in Range(e.dst) \/ Clean(e.dst) = <<>> THEN NoPath
  ELSE IF kind = "home" THEN Clean(e.dst)
  ELSE IF kind = "tmp" /\ e.dst[1] = "/"
  THEN IF Len(Clean(e.dst)) > 1 /\ Clean(e.dst)[1] = "tmp" THEN Clean(e.dst) ELSE NoPath
  ELSE <<kind>> \o Clean(e.dst)

\* ParseStoredEntry: where a stored entry goes, or NoPath
ParseStoredEntry(kind, dst) ==
  IF ".." \in Range(dst) \/ Clean(dst) = <<>> THEN NoPath
  ELSE IF kind = "home" THEN IF dst[1] = "/" THEN NoPath ELSE Clean(dst)
  ELSE IF dst[1] = "/" /\ Len(Clean(dst)) > 1 /\ Clean(dst)[1] = kind THEN Clean(dst) ELSE NoPath

\* buildSourceArchive: a file, or all files below a directory, under a fixed root name
Archive(t, path) ==
  IF IsDir(t, path)
  THEN {<<SubSeq(f, Len(path) + 1, Len(f)), t.files[f].text>> :
          f \in {g \in DOMAIN t.files : IsPrefix(path, g) /\ g # path}}
  ELSE {<<<<>>, t.files[path].text>>}

Entries(step, kind) == IF Has(step, kind) /\ At(step, kind).kind = "seq" THEN At(step, kind).kids ELSE <<>>

\* !include references below a node, as written (collectYAMLIncludeRefs)
RECURSIVE Includes(_)
Includes(n) ==
  IF n.kind = "include" THEN {n} ELSE UNION {Includes(n.kids[i]) : i \in DOMAIN n.kids}

\* parseMountedIncludeRef: where an include of mount m leads in the container
parseMountedIncludeRef(m, inc) ==
  LET runtime == IF inc.path[1] = "/" THEN Tail(inc.path) ELSE Join(Dir(m.dst), inc.path)
  IN  IF inc.path = <<>> THEN NoPath
      ELSE IF Len(runtime) > 1 /\ runtime[1] = "in" THEN runtime ELSE NoPath

\* validateMountedYAMLIncludes: every include of a mounted YAML file names a file
\* that exists here and a place below /in that this step mounts
MountedIncludesOK(t, mounts) ==
  LET Covers(m, path) == m.dst = path \/ (m.dir /\ IsPrefix(m.dst, path))
      OK(m, inc) == /\ parseMountedIncludeRef(m, inc) # NoPath
                    /\ inc.path[1] # "/" => Stat(t, Join(Dir(m.src), inc.path))
                    /\ \E other \in mounts : Covers(other, parseMountedIncludeRef(m, inc))
  IN  \A m \in mounts :
        m.src \in DOMAIN t.files => \A inc \in Includes(t.files[m.src]) : OK(m, inc)

\* validateLocalHydraEntries, then the includes of what is mounted under /in
validateLocalStepFileRecords(t, step, base) ==
  LET In(e) == IF IsCanonical(e)
               THEN [dst |-> ParseStoredEntry("in", e.dst), src |-> NoPath, dir |-> FALSE]
               ELSE LET src == ResolveFileRecord(t, e.path, base)
                    IN  [dst |-> parseAuthoringEntry("in", e), src |-> src, dir |-> IsDir(t, src)]
      OK(kind, e) == /\ e.kind = "scalar"
                     /\ IF IsCanonical(e) THEN kind = "in" => In(e).dst # NoPath
                        ELSE /\ parseAuthoringEntry(kind, e) # NoPath
                             /\ Stat(t, ResolveFileRecord(t, e.path, base))
      entries == Entries(step, "in")
  IN  /\ \A k \in Range(Kinds) : \A i \in DOMAIN Entries(step, k) : OK(k, Entries(step, k)[i])
      /\ MountedIncludesOK(t, {In(entries[i]) : i \in DOMAIN entries})

\* compileHydraBlock: what the step's entries of one kind are stored as
compileHydraBlock(t, step, kind, base) ==
  [i \in DOMAIN Entries(step, kind) |->
     LET e == Entries(step, kind)[i]
     IN  [entry |-> e,
          hash |-> IF IsCanonical(e) THEN {<<<<>>, e.path[2]>>}
                   ELSE Archive(t, ResolveFileRecord(t, e.path, base)),
          dst |-> IF IsCanonical(e) THEN ParseStoredEntry(kind, e.dst)
                  ELSE IF kind = "home" THEN parseAuthoringEntry(kind, e)
                  ELSE ParseStoredEntry(kind, <<"/">> \o parseAuthoringEntry(kind, e))]]

\* ValidateHydraEntries: every entry parses and no destination is taken twice
ValidateHydraEntries(block) ==
  /\ \A i \in DOMAIN block : block[i].dst # NoPath
  /\ \A i, j \in DOMAIN block : block[i].dst = block[j].dst => i = j
-----------------------------------------------------------------------------
(* The compiler *)

Rejected(why) == [ok |-> FALSE, why |-> why, steps |-> <<>>, bundles |-> {}]

CompileStep(t, step, base) ==
  [name |-> IF Has(step, "name") THEN At(step, "name").text ELSE "",
   image |-> IF Has(step, "image") THEN At(step, "image").text ELSE "",
   envs |-> IF Has(step, "envs") THEN At(step, "envs") ELSE Map(<<>>, <<>>),
   files |-> [k \in Range(Kinds) |-> compileHydraBlock(t, step, k, base)]]

\* from the expanded spec: shape, local files, file records, bundle_map, contract
Compile(t, spec, base, persist) ==
  LET steps == At(spec, "steps").kids
      canonical == [i \in DOMAIN steps |-> CompileStep(t, steps[i], base)]
      bundles == {f.hash : f \in {g \in UNION {Range(canonical[i].files[k]) :
                                    i \in DOMAIN canonical, k \in Range(Kinds)} :
                                  ~IsCanonical(g.entry)}}
  IN  IF Failed(spec) THEN Rejected(spec.text)
      ELSE IF ~Has(spec, "steps") \/ At(spec, "steps").kind # "seq" \/ steps = <<>>
      THEN Rejected("steps")
      ELSE IF \E i \in DOMAIN steps : ~validateLocalStepFileRecords(t, steps[i], base)
      THEN Rejected("files")
      ELSE IF \E i \in DOMAIN canonical :
                canonical[i].image = "" \/ \E k \in Range(Kinds) : ~ValidateHydraEntries(canonical[i].files[k])
      THEN Rejected("contract")
      ELSE [ok |-> TRUE, why |-> "", steps |-> canonical,
            bundles |-> IF persist THEN bundles ELSE {}]

Expanded(t) ==
  expandSpecRefs(t, parseSpecInputToMap(t, ReadFile(t, t.root), Dir(t.root)), t.root, Dir(t.root), <<>>)

\* selectStepInPlace: a selector leaves the one step it names
selectStep(t, spec) ==
  IF Failed(spec) \/ t.selector = "" THEN spec
  ELSE LET step == selectNamedStep(spec, t.selector)
       IN  IF Failed(step) THEN step ELSE Put(spec, "steps", List(<<step>>))

BuildSelected(t) == Compile(t, selectStep(t, Expanded(t)), Dir(t.root), TRUE)

\* the refs of a spec that is not read as a file start from a name of its own
ExpandedText(t) ==
  expandSpecRefs(t, parseSpecInputToMap(t, ReadFile(t, t.root), Dir(t.root)),
                 RootFile(Dir(t.root)), Dir(t.root), <<>>)

\* Validate: no bundle is stored
Validate(t) == Compile(t, ExpandedText(t), Dir(t.root), FALSE)

\* Load and Normalize, for the spec of a mig: no step is selected
normalizeWithStepSelector(t) == Compile(t, ExpandedText(t), Dir(t.root), TRUE)

SourcesInit == /\ \E i \in DOMAIN Trees : tree \in Trees[i]
               /\ compiled = Rejected("not compiled") /\ checked = Rejected("not compiled")
               /\ loaded = Rejected("not compiled")
CompileSpec == /\ compiled.why = "not compiled"
               /\ compiled' = BuildSelected(tree) /\ checked' = Validate(tree)
               /\ loaded' = normalizeWithStepSelector(tree)
               /\ UNCHANGED tree
SourcesNext == CompileSpec
SourcesSpec == SourcesInit /\ [][SourcesNext]_sourceVars
-----------------------------------------------------------------------------
(* Properties *)

\* Reference for <<: the leaf assignments of a mapping in document order, a merge
\* key standing for the assignments of its sources
RECURSIVE Assignments(_, _)
Assignments(n, at) ==
  LET Of(i) == IF n.keys[i] = "<<"
               THEN FlattenSeq([j \in DOMAIN collectMergeSources(n.kids[i]) |->
                                  Assignments(collectMergeSources(n.kids[i])[j], at)])
               ELSE Assignments(n.kids[i], Append(at, n.keys[i]))
  IN  IF n.kind # "map" THEN <<[at |-> at, leaf |-> n]>>
      ELSE FlattenSeq([i \in DOMAIN n.keys |-> Of(i)])

\* each assignment replaces what was assigned at, above or below its place
Assigned(n) ==
  LET Step(done, a) == {d \in done : ~IsPrefix(d.at, a.at) /\ ~IsPrefix(a.at, d.at)} \cup {a}
  IN  FoldLeft(Step, {}, Assignments(n, <<>>))

ResolvedRoot(t) ==
  resolveIncludes(t, ReadFile(t, t.root), RootFile(Dir(t.root)), Dir(t.root),
                  <<<<RootFile(Dir(t.root)), <<>>>>>>)

\* expandDeepMergeKeys (includes.go): merging `<<` sources and explicit keys by
\* recursion leaves, in every step, exactly what assigning the leaves one by one in
\* document order leaves: nested mappings merge, anything else is replaced.
MergeIsOrderedAssignment ==
  compiled.why # "not compiled" =>
  LET root == ResolvedRoot(tree)
      steps == At(root, "steps").kids
  IN  (~Failed(root) /\ ~Failed(expandDeepMergeKeys(root))) =>
        \A i \in DOMAIN steps :
          steps[i].kind = "map" =>
            Assigned(steps[i]) = Range(Assignments(expandDeepMergeKeys(steps[i]), <<>>))

\* Reference for the cycle check: the fragments an include leads to
Leads(t, n, file) == {<<ResolveReference(t, inc.path, Dir(file)), inc.ptr>> : inc \in Includes(n)}
RECURSIVE Reached(_, _)
Reached(t, ids) ==
  LET next == ids \cup UNION {Leads(t, selectNode(t.files[id[1]], id[2]), id[1]) :
                                id \in {x \in ids : x[1] \in DOMAIN t.files}}
  IN  IF next = ids THEN ids ELSE Reached(t, next)

\* resolveIncludes/includeCycle: a spec is refused for an include cycle only when some
\* fragment it reaches includes itself again; one file may be included many times,
\* and a fragment of a file may include another fragment of the same file.
OnlyCyclesRefused ==
  (compiled.why # "not compiled" /\ ResolvedRoot(tree) = Error("cycle")) =>
    \E id \in Reached(tree, Leads(tree, tree.files[tree.root], tree.root)) :
      id \in Reached(tree, Leads(tree, selectNode(tree.files[id[1]], id[2]), id[1]))

Files(result) == UNION {Range(result.steps[i].files[k]) :
                          i \in DOMAIN result.steps, k \in Range(Kinds)}
HoldsDeclaredFile(f, result) ==
  /\ Stat(tree, f.entry.means)
  /\ f.hash = Archive(tree, f.entry.means) /\ f.hash \in result.bundles

\* file_records.go, refs.go, includes.go: through an included mapping, a referenced step
\* or both, each stored file record holds the content of the file that its source names
\* in the file that declares it, and the spec's bundle_map knows that content.
RecordHoldsDeclaredFile ==
  compiled.ok => \A f \in Files(compiled) :
    (~IsCanonical(f.entry) /\ f.entry.hops <= 1 /\ ~f.entry.bare) => HoldsDeclaredFile(f, compiled)

\* compiler.go Validate/Normalize/BuildSelected, three ways through the same stages:
\* `spec validate` accepts exactly the specs that a submission compiles and a mig takes,
\* with the same stored steps; both store the same bundles; a selector picks one step.
ValidationAgrees ==
  /\ loaded.ok <=> checked.ok
  /\ loaded.steps = checked.steps
  /\ tree.selector = "" => compiled.bundles = loaded.bundles
  /\ tree.selector = "" => (checked.ok <=> compiled.ok) /\ checked.steps = compiled.steps
  /\ (checked.ok /\ compiled.ok) => Range(compiled.steps) \subseteq Range(checked.steps)

\* Compilation is what the documents say, on each of the ways through it.
CompilationSound ==
  /\ MergeIsOrderedAssignment
  /\ OnlyCyclesRefused
  /\ RecordHoldsDeclaredFile
  /\ ValidationAgrees
=============================================================================
