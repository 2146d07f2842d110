----------------------------- MODULE IndexViews -----------------------------
(***************************************************************************)
(* What the agents read from the tables: load_bearing_view,                *)
(* neighborhood_view and diff_context_view (views/).  The order in which   *)
(* the database returns rows without ORDER BY is not fixed: where a view   *)
(* keeps only the first of them the result is a set of possible answers.   *)
(***************************************************************************)
EXTENDS ImportGraph, FiniteSets

CONSTANTS
  PathOrder,    \* the indexable files in the order of file_path
  SymbolsIn,    \* SymbolsIn[c]: the line spans of functions and classes of c
  ListLimit,    \* limit of load_bearing_view
  MaxNeighbors  \* MAX_IMPORTS and MAX_IMPORTED_BY

ASSUME ViewAssumption ==
  /\ PathOrder \in Seq(Indexable)
  /\ IsInjective(PathOrder) /\ ToSet(PathOrder) = Indexable
  /\ ListLimit \in Nat /\ MaxNeighbors \in Nat
  /\ \A c \in Content : \A y \in SymbolsIn[c] : y.from \in Nat /\ y.to \in Nat

-----------------------------------------------------------------------------
(* load_bearing_view                                                       *)

InDegree(f) == Cardinality({e \in edges : e.dst = f})

\* Mutant of Before: in_degree ASC.
BeforeAscending(f, g) ==
  LET at(h) == CHOOSE i \in DOMAIN PathOrder : PathOrder[i] = h
  IN \/ InDegree(f) < InDegree(g)
     \/ InDegree(f) = InDegree(g) /\ at(f) < at(g)

\* ORDER BY in_degree DESC, file_path ASC
Before(f, g) ==
  LET at(h) == CHOOSE i \in DOMAIN PathOrder : PathOrder[i] = h
  IN \/ InDegree(f) > InDegree(g)
     \/ InDegree(f) = InDegree(g) /\ at(f) < at(g)

RankOf(f) == Cardinality({g \in Indexed : Before(g, f)})

\* The files, most imported first, cut at limit.
LoadBearing(limit) ==
  [i \in 1..Min({limit, Cardinality(Indexed)}) |->
     CHOOSE f \in Indexed : RankOf(f) = i - 1]

-----------------------------------------------------------------------------
(* neighborhood_view                                                       *)

\* Sets of as many of the edges es as the view looks at.
Cut(es) ==
  IF Cardinality(es) <= MaxNeighbors THEN {es}
  ELSE {k \in SUBSET es : Cardinality(k) = MaxNeighbors}

\* The cut is made on edges, before they are joined with code_index.
NeighborImports(f) ==
  {{e.dst : e \in k} \cap Indexed :
     k \in Cut({e \in edges : e.src = f /\ e.dst # None})}

NeighborImportedBy(f) ==
  {{e.src : e \in k} \cap Indexed : k \in Cut({e \in edges : e.dst = f})}

Unresolved(f) == {e.at : e \in {x \in edges : x.src = f /\ x.dst = None}}

-----------------------------------------------------------------------------
(* diff_context_view                                                       *)

\* Mutant of RangeEnd: one line too far.
RangeEndExclusive(r) == r.start + r.count

\* ChangedLineRange.end
RangeEnd(r) == IF r.count = 0 THEN r.start ELSE r.start + r.count - 1

\* Mutant of Overlaps: a symbol that ends where the hunk starts is missed.
OverlapsStrictly(y, ranges) ==
  \E i \in DOMAIN ranges :
    y.from < RangeEnd(ranges[i]) /\ y.to > ranges[i].start

Overlaps(y, ranges) ==
  \E i \in DOMAIN ranges :
    y.from <= RangeEnd(ranges[i]) /\ y.to >= ranges[i].start

SymbolsNearChanges(c, ranges) == {y \in SymbolsIn[c] : Overlaps(y, ranges)}

\* The context of one file of a diff.
FileContext(hunk) ==
  IF hunk.file \notin Indexed
  THEN [file |-> hunk.file, indexed |-> FALSE, near |-> {}, importedBy |-> {}]
  ELSE [file |-> hunk.file, indexed |-> TRUE,
        near |-> SymbolsNearChanges(table[hunk.file].content, hunk.ranges),
        importedBy |-> {e.src : e \in {x \in edges : x.dst = hunk.file}}]

DiffContext(hunks) == {FileContext(hunks[i]) : i \in DOMAIN hunks}

-----------------------------------------------------------------------------
(* Properties.                                                             *)

\* The import statements of commit s, and where resolve_import may find
\* their targets there: only the order of package roots is open.
TargetsAt ==
  [s \in Sha |->
     [st \in UNION {{<<g, i>> : i \in DOMAIN ImportsIn[TreeOf[s][g]]} :
                     g \in RowsAt(s, File)} |->
        {Resolve(ImportsIn[TreeOf[s][st[1]]][st[2]], st[1], roots, Disk(s)) :
           roots \in RootsAt[s]}]]
Statements == DOMAIN TargetsAt[repoHead]
Targets(st) == TargetsAt[repoHead][st]
MustImport(f) == {st \in Statements : Targets(st) = {f}}
MayImport(f) == {st \in Statements : f \in Targets(st)}

\* What load_bearing_view counts: as long as no file has come or gone since the
\* last full run, however many incremental runs have rewritten rows and edges
\* since, the in-degree of a listed file is its number of import statements in
\* the indexed commit, every one of a file that imports it twice and its own
\* among them, and no file left out has more of them than a listed one.
RanksCountStatements ==
  steady =>
    LET listed == LoadBearing(ListLimit)
    IN \A i \in DOMAIN listed :
         /\ Cardinality(MustImport(listed[i])) <= InDegree(listed[i])
         /\ InDegree(listed[i]) <= Cardinality(MayImport(listed[i]))
         /\ \A g \in Indexed \ ToSet(listed) :
              Cardinality(MustImport(g)) <= Cardinality(MayImport(listed[i]))

\* What the view says it ranks by, "how many other files import them"
\* (views/load_bearing.py:1): no file left out is imported by more other files
\* than a listed one, whatever the order of package roots.  It counts edges,
\* and a statement is an edge, so this fails.
RanksCountOtherFiles ==
  steady =>
    LET listed == LoadBearing(ListLimit)
        Importers(sts, f) == {st[1] : st \in sts} \ {f}
    IN \A f \in ToSet(listed), g \in Indexed \ ToSet(listed) :
         Cardinality(Importers(MustImport(g), g)) <= Cardinality(Importers(MayImport(f), f))

\* What the test generator is shown around a file is in the commit: under the
\* same condition each import, importer and unresolved statement that
\* neighborhood_view reports is one of the indexed commit, and no import to an
\* indexed file is missing unless the file has more of them than the view
\* looks at.  The cut on edges is why the two directions need not agree.
NeighborsFollowTheTree ==
  steady =>
    \A f \in Indexed :
      LET own == {st \in Statements : st[1] = f}
          sure == {g \in Indexed : \E st \in own : Targets(st) = {g}}
      IN /\ \A shown \in NeighborImports(f) :
              /\ shown \subseteq UNION {Targets(st) : st \in own}
              /\ Cardinality(own) <= MaxNeighbors => sure \subseteq shown
         /\ \A shown \in NeighborImportedBy(f) :
              shown \subseteq {st[1] : st \in MayImport(f)}
         /\ \A i \in Unresolved(f) : None \in Targets(<<f, i>>)
=============================================================================
