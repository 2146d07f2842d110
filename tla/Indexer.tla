------------------------------- MODULE Indexer ------------------------------
(***************************************************************************)
(* Indexing one repository: run_reindex_job with _git_sync                 *)
(* (jobs/runners.py) and cmd_index (cli/commands.py), both of which call   *)
(* index_repository (indexer/ingest.py), which asks git what changed       *)
(* (indexer/diff.py), walks the files (indexer/walker.py) and rewrites the *)
(* code_index and import_edges rows of the repository.                     *)
(*                                                                         *)
(* All indexing processes share the clone at repos.root_path.  Each git    *)
(* command is a step.  The deletes and inserts of a run start in one step   *)
(* (Write) and become visible in another, when its caller commits.  The    *)
(* transactions are READ COMMITTED: a DELETE does not see what another run *)
(* inserts and commits after it has started, even if it waits for that run *)
(* to release the rows both delete.                                        *)
(***************************************************************************)
EXTENDS Naturals

CONSTANTS
  Workers,    \* processes that run reindex_repo jobs: git sync, then index
  Clis,       \* processes that run `gita index` on the clone as it is
  File, Content, Sha,
  TreeOf,     \* TreeOf[s][f]: content of f in commit s, or None
  Indexable,  \* files whose path passes LANGUAGE_BY_EXT and _is_skipped
  Small,      \* contents of at most MAX_FILE_SIZE bytes
  Readable,   \* contents that decode as UTF-8
  Imports,    \* Imports[c]: the files the import statements of c name
  Untracked,  \* files a developer may leave uncommitted in the clone
  Faults,     \* which failures of the environment may happen
  MaxRuns,    \* bound: how many runs are started in all
  None        \* an absent file, row, sha or edge target

Proc == Workers \cup Clis
Tree == [File -> Content \cup {None}]
\* "checkout": a developer moves the clone by hand.
FaultKinds == {"git_fails", "crash", "checkout"}

ASSUME CommitAssumption ==
  /\ Sha # {}
  /\ TreeOf \in [Sha -> Tree]
ASSUME FileAssumption ==
  /\ Indexable \subseteq File /\ Untracked \subseteq File
  /\ Small \subseteq Content /\ Readable \subseteq Content
  /\ Imports \in [Content -> SUBSET File]
ASSUME NoneAssumption == None \notin File \cup Content \cup Sha
ASSUME BoundAssumption == MaxRuns \in Nat /\ Faults \subseteq FaultKinds

Change == [file : File, status : {"added", "modified", "deleted"}]
Edge == [src : File, raw : File, dst : File \cup {None}]

VARIABLES
  head,       \* HEAD of the clone
  untracked,  \* files of the clone git does not know
  registered, \* the repository has a committed row in repos
  repoHead,   \* repos.head_sha of that row
  rows,       \* code_index: the indexed content of each file, or None
  edges,      \* import_edges
  stray,      \* import_edges that a run should have deleted and did not see;
              \* one that is in edges as well is in the table twice
  pc,
  known,      \* known[p]: repos.head_sha as p loaded it
  target,     \* target[p]: the sha read_head_sha gave p
  mode,       \* mode[p]: "full" or "incremental"
  changes,    \* changes[p]: what detect_changes found
  behind,     \* behind[p]: the runs that were writing when p started to
  unseen,     \* unseen[p]: the edges other runs have committed since then,
  unseenRows, \* and the files whose rows they have
  overtaken,  \* overtaken[p]: another run committed since p loaded the repo row
  moved,      \* moved[p]: the clone was moved since p loaded the repo row
  overlapped, \* overlapped[p]: another run was writing while p was
  torn,       \* a run has committed although the clone was moved under it or
              \* its writes and those of another run overlapped
  mixed,      \* a run has committed although its writes overlapped another's
  runs        \* runs started so far

clone == <<head, untracked>>
index == <<registered, repoHead, rows, edges, stray>>
local == <<known, target, mode, changes>>
ghosts == <<overtaken, moved, overlapped, torn, mixed>>
writes == <<behind, unseen, unseenRows>>
vars == <<clone, index, local, ghosts, writes, pc, runs>>

PC == {"idle", "sync", "load", "create", "read", "decide", "apply", "write",
       "raised", "failed"}
Ended == {"idle", "raised", "failed"}

TypeOK ==
  /\ head \in Sha
  /\ untracked \in Tree
  /\ registered \in BOOLEAN
  /\ repoHead \in Sha \cup {None}
  /\ rows \in [File -> Content \cup {None}]
  /\ edges \subseteq Edge /\ stray \subseteq Edge
  /\ behind \in [Proc -> SUBSET Proc]
  /\ unseen \in [Proc -> SUBSET Edge]
  /\ unseenRows \in [Proc -> SUBSET File]
  /\ pc \in [Proc -> PC]
  /\ known \in [Proc -> Sha \cup {None}]
  /\ target \in [Proc -> Sha \cup {None}]
  /\ mode \in [Proc -> {"full", "incremental"}]
  /\ changes \in [Proc -> SUBSET Change]
  /\ overtaken \in [Proc -> BOOLEAN]
  /\ moved \in [Proc -> BOOLEAN]
  /\ overlapped \in [Proc -> BOOLEAN]
  /\ torn \in BOOLEAN /\ mixed \in BOOLEAN
  /\ runs \in 0..MaxRuns

Init ==
  /\ head \in Sha
  /\ untracked = [f \in File |-> None]
  /\ registered = FALSE /\ repoHead = None
  /\ rows = [f \in File |-> None]
  /\ edges = {} /\ stray = {}
  /\ behind = [p \in Proc |-> {}]
  /\ unseen = [p \in Proc |-> {}]
  /\ unseenRows = [p \in Proc |-> {}]
  /\ pc = [p \in Proc |-> "idle"]
  /\ known = [p \in Proc |-> None]
  /\ target = [p \in Proc |-> None]
  /\ mode = [p \in Proc |-> "full"]
  /\ changes = [p \in Proc |-> {}]
  /\ overtaken = [p \in Proc |-> FALSE]
  /\ moved = [p \in Proc |-> FALSE]
  /\ overlapped = [p \in Proc |-> FALSE]
  /\ torn = FALSE /\ mixed = FALSE
  /\ runs = 0

-----------------------------------------------------------------------------
(* The clone and what the indexer reads from it.                           *)

Worktree == [f \in File |-> IF TreeOf[head][f] # None THEN TreeOf[head][f]
                            ELSE untracked[f]]

\* git moves the clone to commit s: files s tracks are no longer untracked.
MoveTo(s) ==
  /\ head' = s
  /\ untracked' = [f \in File |-> IF TreeOf[s][f] # None THEN None
                                  ELSE untracked[f]]

\* Mutant of Diff: a rename is passed on as such.
DiffWithRenames(s, t) ==
  LET old(f) == TreeOf[s][f]
      new(f) == TreeOf[t][f]
      status(f) == IF old(f) = None THEN "renamed"
                   ELSE IF new(f) = None THEN "deleted" ELSE "modified"
  IN {[file |-> f, status |-> status(f)] : f \in {g \in File : old(g) # new(g)}}

\* git diff --name-status between two commits, as parse_name_status reads it
\* (a rename is a deletion and an addition).
Diff(s, t) ==
  LET old(f) == TreeOf[s][f]
      new(f) == TreeOf[t][f]
      status(f) == IF old(f) = None THEN "added"
                   ELSE IF new(f) = None THEN "deleted" ELSE "modified"
  IN {[file |-> f, status |-> status(f)] : f \in {g \in File : old(g) # new(g)}}

\* iter_files and _parse_and_build_row: what a walk of tree t indexes.
Walked(t) ==
  [f \in File |-> IF f \in Indexable /\ t[f] \in Small \cap Readable
                  THEN t[f] ELSE None]

Touched(p, statuses) ==
  {ch.file : ch \in {x \in changes[p] : x.status \in statuses}}

\* The rows the incremental run re-parses: _is_indexable looks at the path
\* only, and a file that is gone or does not decode gives no row.
Parsed(p) ==
  {f \in Touched(p, {"added", "modified"}) \cap Indexable :
     Worktree[f] \in Readable}

\* Mutant of Removed: rows of deleted files stay.
RemovedModifiedOnly(p) == Touched(p, {"modified"}) \cap Indexable

\* The rows it deletes first.
Removed(p) ==
  Touched(p, {"deleted"}) \cup (Touched(p, {"modified"}) \cap Indexable)

\* _build_edges: resolve_import looks for the target on disk.
EdgesFrom(f, c) ==
  {[src |-> f, raw |-> g, dst |-> IF Worktree[g] # None THEN g ELSE None] :
     g \in Imports[c]}

-----------------------------------------------------------------------------
(* A developer works in the clone, also while a run is under way.          *)

Resting == \A p \in Proc : pc[p] \in Ended

DevCheckout(s) ==
  /\ "checkout" \in Faults
  /\ s # head
  /\ MoveTo(s)
  /\ moved' = [p \in Proc |-> TRUE]
  /\ UNCHANGED <<index, local, overtaken, overlapped, torn, mixed, writes, pc, runs>>

DevLeaves(f, c) ==
  /\ f \in Untracked
  /\ TreeOf[head][f] = None
  /\ untracked' = [untracked EXCEPT ![f] = c]
  /\ UNCHANGED <<head, index, local, ghosts, writes, pc, runs>>

-----------------------------------------------------------------------------
(* Runs.                                                                   *)

Goto(p, l) == pc' = [pc EXCEPT ![p] = l]

\* A run ends, and its local variables with it.
Ends(p, l) ==
  /\ Goto(p, l)
  /\ known' = [known EXCEPT ![p] = None]
  /\ target' = [target EXCEPT ![p] = None]
  /\ mode' = [mode EXCEPT ![p] = "full"]
  /\ changes' = [changes EXCEPT ![p] = {}]
  /\ behind' = [q \in Proc |-> IF q = p THEN {} ELSE behind[q] \ {p}]

Forgets(p) ==
  /\ unseen' = [unseen EXCEPT ![p] = {}]
  /\ unseenRows' = [unseenRows EXCEPT ![p] = {}]

\* A reindex job of a repository without a row ends before it touches anything.
Start(p) ==
  /\ pc[p] \in Ended
  /\ p \in Workers => registered
  /\ runs < MaxRuns
  /\ runs' = runs + 1
  /\ Goto(p, IF p \in Workers THEN "sync" ELSE "load")
  /\ UNCHANGED <<clone, index, local, ghosts, writes>>

\* _git_sync: fetch, then reset --hard to the sha of the push.
Sync(p) ==
  /\ pc[p] = "sync"
  /\ \E s \in Sha : MoveTo(s)
  /\ moved' = [q \in Proc |-> q # p \/ moved[q]]
  /\ Goto(p, "load")
  /\ UNCHANGED <<index, local, overtaken, overlapped, torn, mixed, writes, runs>>

SyncFails(p) ==
  /\ pc[p] = "sync"
  /\ "git_fails" \in Faults
  /\ Ends(p, "failed")
  /\ UNCHANGED <<clone, index, ghosts, unseen, unseenRows, runs>>

\* _get_or_create_repo: the SELECT ...
Load(p) ==
  /\ pc[p] = "load"
  /\ known' = [known EXCEPT ![p] = repoHead]
  /\ overtaken' = [overtaken EXCEPT ![p] = FALSE]
  /\ moved' = [moved EXCEPT ![p] = FALSE]
  /\ Goto(p, IF registered THEN "read" ELSE "create")
  /\ UNCHANGED <<clone, index, target, mode, changes, overlapped, torn, mixed, writes, runs>>

\* ... and the INSERT of a new row: it waits for another run that has inserted
\* the same name and not ended,
Create(p) ==
  /\ pc[p] = "create"
  /\ ~registered
  /\ \A q \in Proc : pc[q] \notin {"read", "decide", "apply", "write"}
  /\ Goto(p, "read")
  /\ UNCHANGED <<clone, index, local, ghosts, writes, runs>>

\* and violates the unique constraint on repos.name once that one commits.
CreateRaises(p) ==
  /\ pc[p] = "create"
  /\ registered
  /\ Ends(p, "raised")
  /\ UNCHANGED <<clone, index, ghosts, unseen, unseenRows, runs>>

\* read_head_sha; None when git fails.
ReadHead(p) ==
  /\ pc[p] = "read"
  /\ \/ target' = [target EXCEPT ![p] = head]
     \/ "git_fails" \in Faults /\ target' = [target EXCEPT ![p] = None]
  /\ Goto(p, "decide")
  /\ UNCHANGED <<clone, index, known, mode, changes, ghosts, writes, runs>>

MayDiff(p) == known[p] # None /\ target[p] # None

\* Nothing changed since the last index.
Noop(p) ==
  /\ pc[p] = "decide"
  /\ MayDiff(p) /\ known[p] = target[p]
  /\ Ends(p, "idle")
  /\ UNCHANGED <<clone, index, ghosts, unseen, unseenRows, runs>>

\* detect_changes succeeds.  It diffs against HEAD as it is now.
DecideIncremental(p) ==
  /\ pc[p] = "decide"
  /\ MayDiff(p) /\ known[p] # target[p]
  /\ mode' = [mode EXCEPT ![p] = "incremental"]
  /\ changes' = [changes EXCEPT ![p] = Diff(known[p], head)]
  /\ Goto(p, "apply")
  /\ UNCHANGED <<clone, index, known, target, ghosts, writes, runs>>

\* --full, no previous sha, no HEAD, or git diff failed.
DecideFull(p) ==
  /\ pc[p] = "decide"
  /\ \/ ~MayDiff(p)
     \/ p \in Clis
     \/ known[p] # target[p] /\ "git_fails" \in Faults
  /\ mode' = [mode EXCEPT ![p] = "full"]
  /\ changes' = [changes EXCEPT ![p] = {}]
  /\ Goto(p, "apply")
  /\ UNCHANGED <<clone, index, known, target, ghosts, writes, runs>>

Writers == {q \in Proc : pc[q] = "write"}

\* The first DELETE of the run, of import edges: from here to its commit its
\* statements and those of any other run that writes may wait for and overtake
\* each other.
Write(p) ==
  /\ pc[p] = "apply"
  /\ overlapped' = [q \in Proc |-> IF q = p THEN Writers # {}
                                   ELSE overlapped[q] \/ q \in Writers]
  /\ behind' = [behind EXCEPT ![p] = Writers]
  /\ Goto(p, "write")
  /\ UNCHANGED <<clone, index, local, overtaken, moved, torn, mixed, unseen, unseenRows, runs>>

\* The files a run deletes rows and edges of, and those it inserts them for.
Deleting(p) == IF mode[p] = "full" THEN File ELSE Removed(p)
Inserting(p) ==
  IF mode[p] = "full" THEN {f \in File : Walked(Worktree)[f] # None} ELSE Parsed(p)
OwnEdges(p) == UNION {EdgesFrom(f, Worktree[f]) : f \in Inserting(p)}

\* A full run that started before p holds all edges there are.
Waits(p) ==
  /\ \E q \in behind[p] : mode[q] = "full"
  /\ \E e \in edges \cup stray : e.src \in Deleting(p)

\* The commit.  SQLAlchemy leaves head_sha out of the UPDATE when the run sets
\* it to the value it has loaded.
Committed(p) ==
  /\ registered' = TRUE
  /\ repoHead' = IF target[p] = known[p] THEN repoHead ELSE target[p]
  /\ overtaken' = [q \in Proc |-> q # p \/ overtaken[q]]
  /\ torn' = (torn \/ moved[p] \/ overlapped[p])
  /\ mixed' = (mixed \/ overlapped[p])
  /\ unseen' = [q \in Proc |-> IF q \notin (Writers \ {p}) THEN {}
                               ELSE unseen[q] \cup OwnEdges(p)]
  /\ unseenRows' = [q \in Proc |-> IF q \notin (Writers \ {p}) THEN {}
                                   ELSE unseenRows[q] \cup Inserting(p)]
  /\ Ends(p, "idle")
  /\ UNCHANGED <<clone, moved, overlapped, runs>>

\* What others have committed since p started to write and is still there.
Missed(p) == unseen[p] \cap (edges \cup stray)

\* Mutant of ApplyFull: rows are deleted first, edges later.
ApplyFullRowsFirst(p) ==
  /\ pc[p] = "write" /\ mode[p] = "full"
  /\ ~Waits(p)
  /\ rows' = [f \in File |-> IF f \in unseenRows[p] \ Inserting(p) THEN rows[f]
                             ELSE Walked(Worktree)[f]]
  /\ edges' = OwnEdges(p)
  /\ stray' = {}
  /\ Committed(p)

\* _full_index: nuke and repave, then the caller's commit.  Its DELETE of edges
\* is its first statement and misses all that was committed since; that of
\* rows comes later and may miss some.
ApplyFull(p) ==
  /\ pc[p] = "write" /\ mode[p] = "full"
  /\ ~Waits(p)
  /\ \E late \in SUBSET (unseenRows[p] \ Inserting(p)) :
       rows' = [f \in File |-> IF f \in late THEN rows[f] ELSE Walked(Worktree)[f]]
  /\ edges' = OwnEdges(p)
  /\ stray' = Missed(p)
  /\ Committed(p)

\* An inserted file already has a row that was not deleted before.
Duplicate(p) == {f \in Parsed(p) \ Removed(p) : rows[f] # None}

\* Mutant of EdgesAfter: edges of deleted files stay.
EdgesAfterKeeping(p) ==
  {e \in edges : e.src \notin Parsed(p)} \cup OwnEdges(p)

\* The edges it leaves: those of removed rows go, those of parsed rows come.
EdgesAfter(p) ==
  {e \in edges : e.src \notin Removed(p)} \cup OwnEdges(p)

\* _incremental_index, then the caller's commit.  It deletes file by file, the
\* edges before the row, so what another run has committed since may be missed
\* for some files by the first DELETE (early), and by both for fewer (late).
ApplyIncremental(p) ==
  /\ pc[p] = "write" /\ mode[p] = "incremental"
  /\ ~Waits(p)
  /\ Duplicate(p) = {}
  /\ edges' = EdgesAfter(p)
  /\ \E early \in SUBSET Removed(p) :
       /\ stray' = {e \in stray : e.src \notin Removed(p)}
                    \cup {e \in Missed(p) : e.src \in early}
       /\ \E late \in SUBSET ((early \cap unseenRows[p]) \ Parsed(p)) :
            rows' = [f \in File |-> IF f \in Parsed(p) THEN Worktree[f]
                                    ELSE IF f \in Removed(p) \ late THEN None
                                    ELSE rows[f]]
  /\ Committed(p)

\* IntegrityError on uq_code_index_repo_file: nothing of the run is kept.
\* Where writes overlap, rows of the other run that its DELETE missed count
\* too, and a deadlock may be broken at its cost.
ApplyRaises(p) ==
  /\ pc[p] = "write"
  /\ \/ mode[p] = "incremental" /\ Duplicate(p) # {}
     \/ overlapped[p]
  /\ Ends(p, "raised")
  /\ Forgets(p)
  /\ UNCHANGED <<clone, index, ghosts, runs>>

\* The process dies; its transaction is dropped.
Crash(p) ==
  /\ "crash" \in Faults
  /\ pc[p] \notin Ended
  /\ Ends(p, "failed")
  /\ Forgets(p)
  /\ UNCHANGED <<clone, index, ghosts, runs>>

Step(p) ==
  \/ Sync(p) \/ SyncFails(p)
  \/ Load(p) \/ Create(p) \/ CreateRaises(p) \/ ReadHead(p)
  \/ Noop(p) \/ DecideIncremental(p) \/ DecideFull(p)
  \/ Write(p) \/ ApplyFull(p) \/ ApplyIncremental(p) \/ ApplyRaises(p)

Quiet == runs = MaxRuns /\ Resting /\ UNCHANGED vars

Next ==
  \/ \E p \in Proc : Start(p) \/ Step(p) \/ Crash(p)
  \/ \E s \in Sha : DevCheckout(s)
  \/ \E f \in Untracked, c \in Content : DevLeaves(f, c)
  \/ Quiet

Spec == Init /\ [][Next]_vars

-----------------------------------------------------------------------------
(* Properties.                                                             *)

\* Files that are never uncommitted in the clone and never above the size
\* limit, which _is_indexable does not apply.
Regular ==
  {f \in File \ Untracked : \A s \in Sha : TreeOf[s][f] \in Small \cup {None}}

\* What repos.head_sha says is what code_index holds: whichever mix of full,
\* incremental and no-op runs of however many processes led here, over
\* crashes, git failures, stale diffs and pushes in any order, the rows of
\* regular files are those of a full walk of that commit, unless another
\* process moved the clone between the load of repos.head_sha and the commit
\* of some run, or wrote at the same time as it.
IndexMatchesHead ==
  ~torn /\ repoHead # None =>
    \A f \in Regular : rows[f] = Walked(TreeOf[repoHead])[f]

\* One edge for every import of every indexed row, with the row's file as its
\* source, and no other edge.
TablesAgree ==
  /\ stray = {}
  /\ \A f, g \in File :
       (\E e \in edges : e.src = f /\ e.raw = g)
         <=> rows[f] # None /\ g \in Imports[rows[f]]

\* The two tables agree after any mix of full and incremental runs, over
\* crashes, reverts, added and deleted files, unless runs wrote at the same
\* time.
EdgesFollowRows == ~mixed => TablesAgree

\* No import of an indexed file is lost: whatever runs write at the same time,
\* and whatever their DELETEs miss of each other, every import of every row
\* that is left has an edge.  _clear_repo_rows and _incremental_index delete
\* edges before rows, so a row that a run misses has edges that it missed too.
NoEdgeIsLost ==
  \A f \in File : rows[f] # None =>
    \A g \in Imports[rows[f]] : \E e \in edges \cup stray : e.src = f /\ e.raw = g

\* _git_sync is "safe to call with max_jobs=1 (no concurrent access to the
\* worktree)" (jobs/runners.py:361): with one worker job at a time
\* code_index is that of repos.head_sha.  `gita index' has its own process and
\* reads the same worktree, so this fails.
WorktreeIsNotShared ==
  repoHead # None => \A f \in Regular : rows[f] = Walked(TreeOf[repoHead])[f]

\* README: incremental indexing falls back "to a full rebuild when git state
\* is ambiguous".  A run that has the index to itself never raises.
RunsWithoutOverlapComplete ==
  \A p \in Proc : pc[p] = "raised" => overtaken[p] \/ overlapped[p]
=============================================================================
