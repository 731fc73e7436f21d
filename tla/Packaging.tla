----------------------------- MODULE Packaging -----------------------------
(***************************************************************************)
(* What src/setup.py does when pip runs it: build_extras parses one        *)
(* requirements file per extra (parse_requirements, with recursive `-r`    *)
(* includes and `# [--opt]` annotations), then setup() is called, then     *)
(* _auto_install_annotated_packages installs every annotated package with  *)
(* its own pip options.  get_pip_install_cmd is a pure function of the     *)
(* three tables build_extras produces.                                     *)
(*                                                                         *)
(* A requirements line is abstracted to its kind: a package specifier, an  *)
(* annotation carrying one `--` option, a pip option line, an include, or  *)
(* a line the parser skips (blank, ordinary comment, a bracket comment     *)
(* whose words do not all start with `--`).                                *)
(***************************************************************************)
EXTENDS Naturals, Sequences, SequencesExt, FiniteSets, TLC

CONSTANTS
    Files,       \* requirement files under requirements/
    Absent,      \* model value: the content of a file that does not exist
    Pkgs,        \* package specifier lines
    AnnotOpts,   \* per-package options written as `# [--opt]`
    PipOpts,     \* pip option lines (`--extra-index-url ...`, `-f ...`)
    ExtraFiles,  \* <<[name, file]>>: the extras build_extras visits, in order
    Trees,       \* the requirements trees the repository may hold: file -> content
    Requested,   \* the extras named in `pip install ".[...]"`
    NoCmd        \* model value: get_pip_install_cmd returned None

ExtraNames == {ExtraFiles[k].name : k \in 1..Len(ExtraFiles)}

\* The ExtraFiles order is also sorted order of the names (cuda < cuda-train
\* < dev), so it is the order of `sorted(PKG_OPTIONS.items())` as well.
ASSUME \A k \in 1..Len(ExtraFiles) : ExtraFiles[k].file \in Files
ASSUME Requested \subseteq ExtraNames

Pkg(p) == [kind |-> "pkg", val |-> p]
Annot(o) == [kind |-> "annot", val |-> o]
Opt(o) == [kind |-> "opt", val |-> o]
Inc(f) == [kind |-> "inc", val |-> f]
Skip == [kind |-> "skip", val |-> "skip"]

Line == {Pkg(p) : p \in Pkgs} \cup {Annot(o) : o \in AnnotOpts}
        \cup {Opt(o) : o \in PipOpts} \cup {Inc(f) : f \in Files} \cup {Skip}

VARIABLES
    content,     \* content[f]: a sequence of lines, or Absent
    phase,       \* "build", "install", "done", "imported" (not __main__), or
                 \* "crashed" (RecursionError)
    built,       \* how many entries of ExtraFiles build_extras has parsed
    extras,      \* EXTRAS: extra name -> deps without per-package options
    pipOptions,  \* PIP_OPTIONS: extra name -> pip option lines
    pkgOptions,  \* PKG_OPTIONS: extra name -> (package -> its options)
    todo,        \* extras of PKG_OPTIONS the install loop has not reached
    cur,         \* the extra whose packages the loop is going through
    pending,     \* packages of `cur` the inner loop has not reached
    seen,        \* the `seen` set of the install loop
    attempts     \* the `pip install` calls made, in order

vars == <<content, phase, built, extras, pipOptions, pkgOptions, todo, cur,
          pending, seen, attempts>>

(***************************************************************************)
(* parse_requirements, translated as a loop over the lines.  An include    *)
(* recurses; a chain of includes deeper than the number of files repeats  *)
(* a file and so recurses until Python raises RecursionError.              *)
(***************************************************************************)
NoResult == [deps |-> <<>>, opts |-> <<>>, pkg |-> <<>>, pending |-> <<>>,
             err |-> FALSE]

\* Mutant: `pending_options = []` dropped after a package line.
PkgLineNoReset(acc, p) ==
    [acc EXCEPT !.deps = Append(@, p),
                !.pkg = IF acc.pending # <<>> THEN (p :> acc.pending) @@ @ ELSE @]

\* A package line: append it; pending options become its options and reset.
PkgLine(acc, p) ==
    [acc EXCEPT !.deps = Append(@, p),
                !.pkg = IF acc.pending # <<>> THEN (p :> acc.pending) @@ @ ELSE @,
                !.pending = <<>>]

\* An include: extend deps and options, `pkg_options.update(sub_pkg_opts)`.
\* The pending options of the including file are kept.
IncludeLine(acc, sub) ==
    [acc EXCEPT !.deps = @ \o sub.deps, !.opts = @ \o sub.opts,
                !.pkg = sub.pkg @@ @, !.err = sub.err]

RECURSIVE ParseRequirements(_, _), ParseLines(_, _, _, _)

\* Mutant: `line.startswith("-")` tested before `line.startswith("-r ")`.
ParseLineOptFirst(acc, line, depth) ==
    CASE line.kind = "skip"  -> acc
      [] line.kind = "annot" -> [acc EXCEPT !.pending = Append(@, line.val)]
      [] line.kind \in {"inc", "opt"} -> [acc EXCEPT !.opts = Append(@, line.val)]
      [] line.kind = "pkg"   -> PkgLine(acc, line.val)

\* One line of the `for line in f` loop.
ParseLine(acc, line, depth) ==
    CASE line.kind = "skip"  -> acc
      [] line.kind = "annot" -> [acc EXCEPT !.pending = Append(@, line.val)]
      [] line.kind = "inc"   -> IncludeLine(acc, ParseRequirements(line.val, depth + 1))
      [] line.kind = "opt"   -> [acc EXCEPT !.opts = Append(@, line.val)]
      [] line.kind = "pkg"   -> PkgLine(acc, line.val)

ParseLines(f, i, depth, acc) ==
    IF i > Len(content[f]) \/ acc.err THEN acc
    ELSE ParseLines(f, i + 1, depth, ParseLine(acc, content[f][i], depth))

ParseRequirements(f, depth) ==
    IF depth > Cardinality(Files) THEN [NoResult EXCEPT !.err = TRUE]
    ELSE IF content[f] = Absent THEN NoResult
    ELSE ParseLines(f, 1, depth, NoResult)

\* `list(dict.fromkeys(opts))`: first occurrences, in order.
FirstOccurrences(s) ==
    LET keep == SelectSeq([i \in 1..Len(s) |-> i],
                          LAMBDA i : \A j \in 1..(i - 1) : s[j] # s[i])
    IN [k \in 1..Len(keep) |-> s[keep[k]]]

\* `d[k] = v` on a Python dict modelled as a TLA+ function.
SetKey(d, k, v) == (k :> v) @@ d

Init ==
    /\ content \in Trees
    /\ phase = "build" /\ built = 0
    /\ extras = <<>> /\ pipOptions = <<>> /\ pkgOptions = <<>>
    /\ todo = <<>> /\ cur = NoCmd /\ pending = {} /\ seen = {} /\ attempts = <<>>

(***************************************************************************)
(* build_extras: one iteration of the loop over platform files, or the     *)
(* dev.txt block after it (the same code).  An exception aborts setup.py.  *)
(***************************************************************************)
BuildExtra ==
    /\ phase = "build" /\ built < Len(ExtraFiles)
    /\ LET e == ExtraFiles[built + 1]
           r == ParseRequirements(e.file, 0)
           normal == SelectSeq(r.deps, LAMBDA d : d \notin DOMAIN r.pkg)
       IN IF r.err
          THEN /\ phase' = "crashed"
               /\ UNCHANGED <<built, extras, pipOptions, pkgOptions>>
          ELSE /\ built' = built + 1
               /\ extras' = IF normal # <<>> \/ DOMAIN r.pkg # {}
                            THEN SetKey(extras, e.name, normal) ELSE extras
               /\ pipOptions' = IF r.opts # <<>>
                                THEN SetKey(pipOptions, e.name, FirstOccurrences(r.opts))
                                ELSE pipOptions
               /\ pkgOptions' = IF DOMAIN r.pkg # {}
                                THEN SetKey(pkgOptions, e.name, r.pkg) ELSE pkgOptions
               /\ UNCHANGED phase
    /\ UNCHANGED <<content, todo, cur, pending, seen, attempts>>

\* After setup(): `if PKG_OPTIONS and __name__ == "__main__"` starts the
\* install loop over `sorted(PKG_OPTIONS.items())`.
SetupDone ==
    /\ phase = "build" /\ built = Len(ExtraFiles)
    /\ \E main \in BOOLEAN :
         IF main /\ DOMAIN pkgOptions # {}
         THEN /\ phase' = "install"
              /\ todo' = SelectSeq([k \in 1..Len(ExtraFiles) |-> ExtraFiles[k].name],
                                   LAMBDA n : n \in DOMAIN pkgOptions)
         ELSE /\ phase' = IF main THEN "done" ELSE "imported"
              /\ UNCHANGED todo
    /\ UNCHANGED <<content, built, extras, pipOptions, pkgOptions, cur, pending,
                   seen, attempts>>

\* The outer loop moves to the next extra, or ends.
NextExtra ==
    /\ phase = "install" /\ pending = {}
    /\ IF todo = <<>>
       THEN phase' = "done" /\ UNCHANGED <<todo, cur, pending>>
       ELSE /\ cur' = Head(todo) /\ todo' = Tail(todo)
            /\ pending' = DOMAIN pkgOptions[Head(todo)]
            /\ UNCHANGED phase
    /\ UNCHANGED <<content, built, extras, pipOptions, pkgOptions, seen, attempts>>

\* `if pkg in seen: continue`.
InstallSkip(p) ==
    /\ phase = "install" /\ p \in pending /\ p \in seen
    /\ pending' = pending \ {p}
    /\ UNCHANGED <<content, phase, built, extras, pipOptions, pkgOptions, todo,
                   cur, seen, attempts>>

\* Mutant: the `seen` check dropped.
InstallPkgUnseen(p, ok) ==
    /\ phase = "install" /\ p \in pending
    /\ pending' = pending \ {p}
    /\ seen' = seen \cup {p}
    /\ attempts' = Append(attempts,
           [pkg |-> p, extra |-> cur, opts |-> pkgOptions[cur][p],
            pip |-> IF cur \in DOMAIN pipOptions THEN pipOptions[cur] ELSE <<>>,
            ok |-> ok])
    /\ UNCHANGED <<content, phase, built, extras, pipOptions, pkgOptions, todo, cur>>

\* `pip install <opts> <extra's pip options> <pkg>`; a non-zero exit code
\* only prints a warning and the loop goes on.
InstallPkg(p, ok) ==
    /\ phase = "install" /\ p \in pending /\ p \notin seen
    /\ pending' = pending \ {p}
    /\ seen' = seen \cup {p}
    /\ attempts' = Append(attempts,
           [pkg |-> p, extra |-> cur, opts |-> pkgOptions[cur][p],
            pip |-> IF cur \in DOMAIN pipOptions THEN pipOptions[cur] ELSE <<>>,
            ok |-> ok])
    /\ UNCHANGED <<content, phase, built, extras, pipOptions, pkgOptions, todo, cur>>

Next ==
    \/ BuildExtra
    \/ SetupDone
    \/ NextExtra
    \/ \E p \in Pkgs : InstallSkip(p)
    \/ \E p \in Pkgs, ok \in BOOLEAN : InstallPkg(p, ok)

Spec == Init /\ [][Next]_vars

(***************************************************************************)
(* get_pip_install_cmd: `pip install ".[extra]"` for the deps in EXTRAS    *)
(* (only when there are some), then one `pip install` per distinct sorted  *)
(* option tuple (a bag of options) for the annotated packages; every       *)
(* command ends with the extra's pip options.                              *)
(***************************************************************************)
\* Mutant: the `".[extra]"` command left out when annotated packages exist.
GetPipInstallCmdNoExtra(e) ==
    IF e \notin DOMAIN extras /\ e \notin DOMAIN pkgOptions THEN NoCmd
    ELSE LET po == IF e \in DOMAIN pkgOptions THEN pkgOptions[e] ELSE <<>>
             pip == IF e \in DOMAIN pipOptions THEN pipOptions[e] ELSE <<>>
         IN IF DOMAIN po = {} THEN [extra |-> TRUE, groups |-> <<>>, pip |-> pip]
            ELSE [extra |-> FALSE,
                  groups |-> [g \in {ToBag(po[p]) : p \in DOMAIN po} |->
                                {p \in DOMAIN po : ToBag(po[p]) = g}],
                  pip |-> pip]

GetPipInstallCmd(e) ==
    IF e \notin DOMAIN extras /\ e \notin DOMAIN pkgOptions THEN NoCmd
    ELSE LET po == IF e \in DOMAIN pkgOptions THEN pkgOptions[e] ELSE <<>>
             pip == IF e \in DOMAIN pipOptions THEN pipOptions[e] ELSE <<>>
         IN IF DOMAIN po = {} THEN [extra |-> TRUE, groups |-> <<>>, pip |-> pip]
            ELSE [extra |-> e \in DOMAIN extras /\ extras[e] # <<>>,
                  groups |-> [g \in {ToBag(po[p]) : p \in DOMAIN po} |->
                                {p \in DOMAIN po : ToBag(po[p]) = g}],
                  pip |-> pip]

-----------------------------------------------------------------------------
(***************************************************************************)
(* Reference reading of a requirements tree, from the docstring of         *)
(* parse_requirements and the tests in tests/unit_tests/test_setup.py:     *)
(* includes are expanded in place; a package line's options are the        *)
(* annotations written in the same file since the previous package line    *)
(* (an include between them does not consume them); when a package is      *)
(* annotated more than once, the last annotation in reading order counts.  *)
(***************************************************************************)
AnnotsBefore(c, i) ==
    LET prev == {j \in 1..(i - 1) : c[j].kind = "pkg"}
        from == IF prev = {} THEN 1 ELSE Max(prev) + 1
        ann == SelectSeq(SubSeq(c, from, i - 1), LAMBDA l : l.kind = "annot")
    IN [k \in 1..Len(ann) |-> ann[k].val]

\* The package and pip option lines of f with includes expanded, each
\* package with the options the reference gives it.
RECURSIVE Items(_)
Items(f) ==
    IF content[f] = Absent THEN <<>>
    ELSE FlattenSeq([i \in 1..Len(content[f]) |->
             LET l == content[f][i] IN
             CASE l.kind = "pkg" -> <<[kind |-> "pkg", val |-> l.val,
                                       opts |-> AnnotsBefore(content[f], i)]>>
               [] l.kind = "opt" -> <<[kind |-> "opt", val |-> l.val, opts |-> <<>>]>>
               [] l.kind = "inc" -> Items(l.val)
               [] OTHER -> <<>>])

ItemsOf(f, k) ==
    LET s == SelectSeq(Items(f), LAMBDA it : it.kind = k)
    IN [i \in 1..Len(s) |-> s[i].val]

RefDeps(f) == ItemsOf(f, "pkg")
RefPipOpts(f) == ItemsOf(f, "opt")
RefPkgOpts(f) ==
    LET ann == SelectSeq(Items(f), LAMBDA it : it.kind = "pkg" /\ it.opts # <<>>)
    IN [p \in {ann[k].val : k \in 1..Len(ann)} |->
           ann[Max({k \in 1..Len(ann) : ann[k].val = p})].opts]

Annotated == UNION {DOMAIN pkgOptions[e] : e \in DOMAIN pkgOptions}

\* The first extra, in sorted order, that annotates p.
FirstAnnotating(p) ==
    LET ks == {k \in 1..Len(ExtraFiles) : ExtraFiles[k].name \in DOMAIN pkgOptions
                                         /\ p \in DOMAIN pkgOptions[ExtraFiles[k].name]}
    IN ExtraFiles[Min(ks)].name

-----------------------------------------------------------------------------
TypeOK ==
    /\ phase \in {"build", "install", "done", "imported", "crashed"}
    /\ built \in 0..Len(ExtraFiles)
    /\ DOMAIN extras \subseteq ExtraNames /\ \A e \in DOMAIN extras : extras[e] \in Seq(Pkgs)
    /\ DOMAIN pipOptions \subseteq ExtraNames
    /\ \A e \in DOMAIN pipOptions : pipOptions[e] \in Seq(PipOpts)
    /\ DOMAIN pkgOptions \subseteq ExtraNames
    /\ \A e \in DOMAIN pkgOptions : DOMAIN pkgOptions[e] \subseteq Pkgs
    /\ todo \in Seq(ExtraNames) /\ cur \in ExtraNames \cup {NoCmd}
    /\ pending \subseteq Pkgs /\ seen \subseteq Pkgs
    /\ \A i \in DOMAIN attempts : attempts[i].pkg \in Pkgs /\ attempts[i].ok \in BOOLEAN

\* build_extras against the reference reading: an extra exists exactly when
\* its file tree lists a package; EXTRAS holds the tree's packages minus the
\* annotated ones, in order; PKG_OPTIONS holds each annotated package with
\* the options the docstring and tests give it (next package only, kept
\* across includes, last annotation wins).
ExtrasFollowAnnotations ==
    \A k \in 1..built :
        LET e == ExtraFiles[k]
            deps == RefDeps(e.file)
            ann == RefPkgOpts(e.file)
        IN /\ (e.name \in DOMAIN extras) <=> deps # <<>>
           /\ e.name \in DOMAIN extras =>
                 extras[e.name] = SelectSeq(deps, LAMBDA d : d \notin DOMAIN ann)
           /\ (e.name \in DOMAIN pkgOptions) <=> DOMAIN ann # {}
           /\ e.name \in DOMAIN pkgOptions => pkgOptions[e.name] = ann

\* get_pip_install_cmd, once setup.py has built its tables: the commands it
\* returns for an extra install exactly the packages of the extra's tree,
\* each annotated package in the group of exactly its options, and every
\* command carries the tree's pip options (first occurrences, in order).
InstallCmdCovers ==
    phase \in {"install", "done", "imported"} =>
        \A k \in 1..Len(ExtraFiles) :
            LET e == ExtraFiles[k].name
                f == ExtraFiles[k].file
                c == GetPipInstallCmd(e)
            IN c # NoCmd =>
                /\ (IF c.extra THEN ToSet(extras[e]) ELSE {}) \cup UNION Range(c.groups)
                     = ToSet(RefDeps(f))
                /\ \A g \in DOMAIN c.groups :
                     \A p \in c.groups[g] : g = ToBag(RefPkgOpts(f)[p])
                /\ c.pip = FirstOccurrences(RefPipOpts(f))

\* _auto_install_annotated_packages, when its loop has finished: every
\* package annotated in some extra was passed to pip exactly once, with the
\* options of the first extra (in sorted order) that annotates it.
AttemptedOnceEach ==
    phase = "done" =>
        /\ IsInjective([i \in DOMAIN attempts |-> attempts[i].pkg])
        /\ {attempts[i].pkg : i \in DOMAIN attempts} = Annotated
        /\ \A i \in DOMAIN attempts :
              attempts[i].opts = pkgOptions[FirstAnnotating(attempts[i].pkg)][attempts[i].pkg]

\* The note above setup() (setup.py 177-182): `pip install .` installs the
\* CLI only, and `pip install ".[cuda-train]"` auto-installs the annotated
\* packages of that extra: every package the install loop passes to pip is
\* annotated in an extra that was asked for.
AutoInstallScope ==
    \A i \in DOMAIN attempts :
        \E e \in Requested \cap DOMAIN pkgOptions : attempts[i].pkg \in DOMAIN pkgOptions[e]

\* tests/unit_tests/test_setup.py (test_pip_options_keys_subset_of_extras):
\* every extra that has pip options is an extra of extras_require.
PipOptionsHaveExtra ==
    DOMAIN pipOptions \subseteq DOMAIN extras

\* test_pkg_options_extras_produce_separate_commands: for every extra of
\* PKG_OPTIONS, get_pip_install_cmd returns a command that chains at least
\* two pip installs with `&&` (the `.[extra]` install and one per option set).
SeparateCommands ==
    phase \in {"install", "done", "imported"} =>
        \A e \in DOMAIN pkgOptions :
            LET c == GetPipInstallCmd(e)
            IN  /\ c # NoCmd
                /\ (IF c.extra THEN 1 ELSE 0) + Cardinality(DOMAIN c.groups) >= 2

====
