-------------------------- MODULE ImportResolution --------------------------
(***************************************************************************)
(* Where an import statement points: indexer/imports.py.  A path below the *)
(* repository root is its directory (a sequence of names), its stem and    *)
(* its suffix; `disk' is the set of files of the clone.  A statement is    *)
(* what the resolver reads from it: the dotted module after `from' or      *)
(* `import', with its leading dots, or the path of a TS/JS specifier.      *)
(* Every resolver tries a list of candidate paths in order and takes the   *)
(* first that is a file, so the list is what is defined here.              *)
(***************************************************************************)
EXTENDS Naturals, Sequences, SequencesExt, FiniteSetsExt

CONSTANTS
  ExcludedDirs,  \* names in SKIP_DIRS or TEST_DIRS
  None           \* no target, no row

Extensions == <<"ts", "tsx", "js", "jsx", "mjs", "cjs">>

Path(dir, stem, suffix) == [dir |-> dir, stem |-> stem, suffix |-> suffix]
Package(dir) == Path(dir, "__init__", "py")

Absolute(module) == [kind |-> "absolute", dots |-> 0, path |-> module, suffix |-> ""]
Relative(dots, module) ==
  [kind |-> "relative", dots |-> dots, path |-> module, suffix |-> ""]
\* "./a/b.ts" goes no directory up, "../b" goes up one.
Specifier(ups, path, suffix) ==
  [kind |-> "specifier", dots |-> ups, path |-> path, suffix |-> suffix]
\* "react", or a statement no regular expression matches.
Bare == [kind |-> "bare", dots |-> 0, path |-> <<>>, suffix |-> ""]

Statement ==
  [kind : {"absolute", "relative", "specifier", "bare"}, dots : Nat,
   path : Seq(STRING), suffix : STRING]

Up(dir, n) == SubSeq(dir, 1, Len(dir) - n)

-----------------------------------------------------------------------------
(* Package roots.                                                          *)

HasInit(disk, dir) == Package(dir) \in disk

\* The parent of the topmost directory of the chain of packages that ends in
\* dir.
RootOfPackage(disk, dir) ==
  LET chain == {n \in 1..Len(dir) :
                  \A k \in n..Len(dir) : HasInit(disk, SubSeq(dir, 1, k))}
  IN SubSeq(dir, 1, Min(chain) - 1)

\* discover_package_roots, without the repository root.  A repository whose
\* root is itself a package is left out: see PackagesBelowRoot.
DiscoveredRoots(disk) ==
  {RootOfPackage(disk, f.dir) :
     f \in {g \in disk : g.stem = "__init__" /\ g.suffix = "py"
                         /\ ToSet(g.dir) \cap ExcludedDirs = {}}} \ {<<>>}

PackagesBelowRoot(disk) == ~HasInit(disk, <<>>)

\* rglob yields files in the order of the file system; the root comes last.
RootOrders(disk) ==
  {Append(s, <<>>) : s \in SetToSeqs(DiscoveredRoots(disk))}

-----------------------------------------------------------------------------
(* Candidates.                                                             *)

\* _find_python_module_under
ModuleUnder(base, module) ==
  IF module = <<>> THEN <<Package(base)>>
  ELSE <<Path(base \o Front(module), Last(module), "py"),
         Package(base \o module)>>

\* _find_python_module_in_roots
ModuleInRoots(roots, module) ==
  FlattenSeq([i \in DOMAIN roots |-> ModuleUnder(roots[i], module)])

\* resolve_python_import
PythonCandidates(imp, file, roots) ==
  CASE imp.kind = "absolute" -> ModuleInRoots(roots, imp.path)
    [] imp.kind = "relative" /\ imp.dots - 1 <= Len(file.dir) ->
         ModuleUnder(Up(file.dir, imp.dots - 1), imp.path)
    [] OTHER -> <<>>

\* resolve_ts_js_import: the exact path, then each extension appended to the
\* whole name, then an index file in the directory of that name.  "." and ".."
\* have no name of their own; only an index file can be below the root itself.
TsJsCandidates(imp, file) ==
  IF imp.kind # "specifier" \/ imp.dots > Len(file.dir) THEN <<>>
  ELSE LET target == Up(file.dir, imp.dots) \o imp.path
           IndexIn(dir) == [i \in DOMAIN Extensions |-> Path(dir, "index", Extensions[i])]
       IN IF target = <<>> THEN IndexIn(<<>>)
          ELSE LET dir == Front(target)
                   stem == Last(target)
                   name == IF imp.suffix = "" THEN stem ELSE stem \o "." \o imp.suffix
               IN <<Path(dir, stem, imp.suffix)>>
                    \o [i \in DOMAIN Extensions |-> Path(dir, name, Extensions[i])]
                    \o IndexIn(Append(dir, name))

\* resolve_import goes by the language of the importing file.
Candidates(imp, file, roots) ==
  IF file.suffix = "py" THEN PythonCandidates(imp, file, roots)
  ELSE IF file.suffix \in ToSet(Extensions) THEN TsJsCandidates(imp, file)
  ELSE <<>>

\* The first candidate that is a file.
FirstOf(candidates, disk) ==
  LET found == {i \in 1..Len(candidates) : candidates[i] \in disk}
  IN IF found = {} THEN None ELSE candidates[Min(found)]

Resolve(imp, file, roots, disk) == FirstOf(Candidates(imp, file, roots), disk)
=============================================================================
