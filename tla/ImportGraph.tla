----------------------------- MODULE ImportGraph ----------------------------
(***************************************************************************)
(* code_index and import_edges of one repository over its history: what    *)
(* _full_index and _incremental_index (indexer/ingest.py) store about      *)
(* imports.  Runs are atomic here and the clone is clean; their races are  *)
(* the subject of Indexer.                                                 *)
(***************************************************************************)
EXTENDS ImportResolution

CONSTANTS
  File, Content, Sha,
  TreeOf,     \* TreeOf[s][f]: content of f in commit s, or None
  Indexable,  \* files that pass LANGUAGE_BY_EXT and _is_skipped
  ImportsIn   \* ImportsIn[c]: the import statements of c, in order

ASSUME GraphAssumption ==
  /\ TreeOf \in [Sha -> [File -> Content \cup {None}]]
  /\ Indexable \subseteq File
  /\ ImportsIn \in [Content -> Seq(Statement)]
  /\ None \notin File \cup Content \cup Sha \cup [content : Content, sha : Sha]
ASSUME PackagesAssumption == Package(<<>>) \notin File

VARIABLES
  head,      \* the commit the clone is at
  repoHead,  \* repos.head_sha, or None before the first run
  table,     \* code_index: content and indexed_at_sha of each row, or None
  edges,     \* import_edges; at tells statements of one file apart
  steady     \* ghost: since the last full run every indexed commit has had
             \* the same files

graphVars == <<head, repoHead, table, edges, steady>>

Row == [content : Content, sha : Sha]
Edge == [src : File, at : Nat, dst : File \cup {None}]

GraphTypeOK ==
  /\ head \in Sha
  /\ repoHead \in Sha \cup {None}
  /\ table \in [File -> Row \cup {None}]
  /\ edges \subseteq Edge
  /\ steady \in BOOLEAN

GraphInit ==
  /\ head \in Sha
  /\ repoHead = None
  /\ table = [f \in File |-> None]
  /\ edges = {}
  /\ steady = FALSE

Disk(s) == {f \in File : TreeOf[s][f] # None}
Indexed == {f \in File : table[f] # None}

\* The orders in which a run at commit s may try the package roots.
RootsAt == [s \in Sha |-> RootOrders(Disk(s))]

ChangedFiles(s, t) == {f \in File : TreeOf[s][f] # TreeOf[t][f]}

\* _build_edges for one row of a run at commit s: one edge for each statement.
EdgesOf(f, s, roots) ==
  {[src |-> f, at |-> i,
    dst |-> Resolve(ImportsIn[TreeOf[s][f]][i], f, roots, Disk(s))] :
     i \in DOMAIN ImportsIn[TreeOf[s][f]]}

\* Mutant of BuildEdges: targets are looked for among the parsed files.
BuildEdgesAmongParsed(files, s, roots) ==
  UNION {{[src |-> f, at |-> i,
           dst |-> Resolve(ImportsIn[TreeOf[s][f]][i], f, roots, files)] :
            i \in DOMAIN ImportsIn[TreeOf[s][f]]} : f \in files}

BuildEdges(files, s, roots) == UNION {EdgesOf(f, s, roots) : f \in files}

\* Rows that a run at commit s parses out of files.
RowsAt(s, files) == {f \in files \cap Indexable : TreeOf[s][f] # None}

Parse(parsed, s) ==
  [f \in File |-> IF f \in parsed THEN [content |-> TreeOf[s][f], sha |-> s]
                  ELSE IF TreeOf[s][f] = None THEN None ELSE table[f]]

-----------------------------------------------------------------------------
\* The base branch gets a commit and the clone is moved to it.
Push ==
  /\ \E s \in Sha \ {head} : head' = s
  /\ UNCHANGED <<repoHead, table, edges, steady>>

\* _full_index: everything is parsed and resolved again.
FullIndex ==
  LET parsed == RowsAt(head, File)
  IN /\ table' = Parse(parsed, head)
     /\ \E roots \in RootsAt[head] :
          edges' = BuildEdges(parsed, head, roots)
     /\ repoHead' = head
     /\ steady' = TRUE
     /\ UNCHANGED head

\* Mutant of Replaced: a modified file keeps its edges beside the new ones.
ReplacedOnlyDeleted(changed) == {f \in changed : TreeOf[head][f] = None}

\* The files whose old rows and edges an incremental run deletes.
Replaced(changed) ==
  {f \in changed : \/ TreeOf[head][f] = None
                   \/ TreeOf[repoHead][f] # None /\ f \in Indexable}

\* _incremental_index: only the files of the diff are parsed, and only their
\* statements are resolved; edges of other files stay as they were.
IncrementalIndex ==
  /\ repoHead \notin {None, head}
  /\ LET changed == ChangedFiles(repoHead, head)
         parsed == RowsAt(head, changed)
     IN /\ table' = Parse(parsed, head)
        /\ \E roots \in RootsAt[head] :
             edges' = {e \in edges : e.src \notin Replaced(changed)}
                        \cup BuildEdges(parsed, head, roots)
  /\ repoHead' = head
  /\ steady' = (steady /\ Disk(head) = Disk(repoHead))
  /\ UNCHANGED head

-----------------------------------------------------------------------------
(* Properties.                                                             *)

\* Each row is the file of the indexed commit as some run read it, and its
\* edges are exact for that run: every statement has one edge, and it points
\* where resolve_import finds the target in the commit of indexed_at_sha.
\* What an edge may be is therefore stale, never invented.
EdgesAreAsOfTheirRow ==
  /\ \A f \in Indexed : table[f].content = TreeOf[repoHead][f]
  /\ \A e \in edges : e.src \in Indexed
  /\ \A f \in Indexed :
       \E roots \in RootsAt[table[f].sha] :
         {e \in edges : e.src = f} = EdgesOf(f, table[f].sha, roots)
=============================================================================
