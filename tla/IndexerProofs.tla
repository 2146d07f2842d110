---------------------------- MODULE IndexerProofs ---------------------------
(***************************************************************************)
(* Theorems about Indexer, for any number of workers and CLI processes and *)
(* any history of commits.                                                 *)
(***************************************************************************)
EXTENDS Indexer, TLAPS

-----------------------------------------------------------------------------
(* The operators.                                                          *)

LEMMA TreeType ==
  ASSUME NEW s \in Sha, NEW f \in File
  PROVE  TreeOf[s][f] \in Content \cup {None}
BY CommitAssumption DEF Tree

LEMMA WorktreeType ==
  ASSUME TypeOK
  PROVE  Worktree \in Tree
BY TreeType DEF Worktree, TypeOK, Tree

LEMMA WalkedType ==
  ASSUME NEW t \in Tree
  PROVE  Walked(t) \in [File -> Content \cup {None}]
BY DEF Walked, Tree

\* Which files a run touches when its changes are those of a diff.
LEMMA TouchedByDiff ==
  ASSUME NEW p, NEW s, NEW t, changes[p] = Diff(s, t), NEW f \in File,
         NEW S
  PROVE  f \in Touched(p, S) <=>
           /\ TreeOf[s][f] # TreeOf[t][f]
           /\ (IF TreeOf[s][f] = None THEN "added"
               ELSE IF TreeOf[t][f] = None THEN "deleted" ELSE "modified") \in S
<1> DEFINE st(g) == IF TreeOf[s][g] = None THEN "added"
                    ELSE IF TreeOf[t][g] = None THEN "deleted" ELSE "modified"
           ch(g) == [file |-> g, status |-> st(g)]
<1>1. changes[p] = {ch(g) : g \in {h \in File : TreeOf[s][h] # TreeOf[t][h]}}
  BY DEF Diff
<1> HIDE DEF st
<1>2. ASSUME f \in Touched(p, S) PROVE TreeOf[s][f] # TreeOf[t][f] /\ st(f) \in S
  <2>1. PICK x \in changes[p] : x.status \in S /\ x.file = f
    BY <1>2 DEF Touched
  <2>2. PICK g \in File : TreeOf[s][g] # TreeOf[t][g] /\ x = ch(g)
    BY <1>1
  <2> QED
    BY <2>1, <2>2
<1>3. ASSUME TreeOf[s][f] # TreeOf[t][f], st(f) \in S PROVE f \in Touched(p, S)
  <2>1. ch(f) \in changes[p]
    BY <1>1, <1>3
  <2> QED
    BY <1>3, <2>1 DEF Touched
<1> QED
  BY <1>2, <1>3 DEF st

LEMMA DiffType ==
  ASSUME NEW s, NEW t
  PROVE  Diff(s, t) \subseteq Change
BY DEF Diff, Change

\* The edges of a file with an indexed content.
LEMMA EdgesFromType ==
  ASSUME NEW f \in File, NEW c \in Content
  PROVE  EdgesFrom(f, c) \subseteq Edge
<1>1. Imports[c] \subseteq File
  BY FileAssumption
<1> QED
  BY <1>1 DEF EdgesFrom, Edge

\* Some edge of E records that f imports g.
Has(E, f, g) == \E e \in E : e.src = f /\ e.raw = g

LEMMA EdgesFromMeaning ==
  ASSUME NEW f, NEW c, NEW g, NEW h
  PROVE  Has(EdgesFrom(f, c), h, g) <=> h = f /\ g \in Imports[c]
<1> DEFINE edge(x) == [src |-> f, raw |-> x,
                       dst |-> IF Worktree[x] # None THEN x ELSE None]
<1>1. EdgesFrom(f, c) = {edge(x) : x \in Imports[c]}
  BY DEF EdgesFrom
<1>2. \A x : edge(x).src = f /\ edge(x).raw = x
  OBVIOUS
<1> HIDE DEF edge
<1> QED
  BY <1>1, <1>2 DEF Has

\* What an incremental run parses are readable files of the worktree.
LEMMA ParsedType ==
  ASSUME TypeOK, NEW p, NEW f \in Parsed(p)
  PROVE  f \in File /\ f \in Indexable /\ Worktree[f] \in Content
BY FileAssumption DEF Parsed

-----------------------------------------------------------------------------
(* Types.                                                                  *)

LEMMA InitType == Init => TypeOK
<1> SUFFICES ASSUME Init PROVE TypeOK
  OBVIOUS
<1>1. /\ head \in Sha
      /\ untracked \in Tree
      /\ registered \in BOOLEAN
      /\ repoHead \in Sha \cup {None}
      /\ rows \in [File -> Content \cup {None}]
      /\ edges \subseteq Edge /\ stray \subseteq Edge
  BY DEF Init, Tree
<1>2. /\ pc \in [Proc -> PC]
      /\ known \in [Proc -> Sha \cup {None}]
      /\ target \in [Proc -> Sha \cup {None}]
      /\ mode \in [Proc -> {"full", "incremental"}]
      /\ changes \in [Proc -> SUBSET Change]
  BY DEF Init, PC
<1>3. /\ overtaken \in [Proc -> BOOLEAN]
      /\ moved \in [Proc -> BOOLEAN]
      /\ overlapped \in [Proc -> BOOLEAN]
      /\ torn \in BOOLEAN /\ mixed \in BOOLEAN
      /\ behind \in [Proc -> SUBSET Proc]
      /\ unseen \in [Proc -> SUBSET Edge]
      /\ unseenRows \in [Proc -> SUBSET File]
  BY DEF Init
<1>4. runs \in 0..MaxRuns
  BY BoundAssumption DEF Init
<1> QED
  BY <1>1, <1>2, <1>3, <1>4 DEF TypeOK

LEMMA MoveType ==
  ASSUME TypeOK, NEW s \in Sha, MoveTo(s)
  PROVE  head' \in Sha /\ untracked' \in Tree
BY DEF MoveTo, TypeOK, Tree

LEMMA EndsType ==
  ASSUME TypeOK, NEW p \in Proc, NEW l \in PC, Ends(p, l)
  PROVE  /\ pc' \in [Proc -> PC]
         /\ known' \in [Proc -> Sha \cup {None}]
         /\ target' \in [Proc -> Sha \cup {None}]
         /\ mode' \in [Proc -> {"full", "incremental"}]
         /\ changes' \in [Proc -> SUBSET Change]
         /\ behind' \in [Proc -> SUBSET Proc]
BY DEF Ends, Goto, TypeOK

LEMMA ForgetsType ==
  ASSUME TypeOK, NEW p \in Proc, Forgets(p)
  PROVE  unseen' \in [Proc -> SUBSET Edge] /\ unseenRows' \in [Proc -> SUBSET File]
BY DEF Forgets, TypeOK

\* What a run inserts.
LEMMA InsertedType ==
  ASSUME TypeOK, NEW p
  PROVE  /\ Inserting(p) \subseteq File
         /\ \A f \in Inserting(p) : Worktree[f] \in Content
         /\ mode[p] = "full" => \A f \in Inserting(p) : Walked(Worktree)[f] = Worktree[f]
         /\ OwnEdges(p) \subseteq Edge
<1>1. Worktree \in Tree
  BY WorktreeType
<1>2. \A f \in File : Walked(Worktree)[f] \in {Worktree[f], None}
  BY DEF Walked
<1>3. \A f \in Inserting(p) :
        /\ f \in File /\ Worktree[f] \in Content
        /\ mode[p] = "full" => Walked(Worktree)[f] = Worktree[f]
  <2>1. CASE mode[p] = "full"
    BY <1>1, <1>2, <2>1 DEF Inserting, Tree
  <2>2. CASE mode[p] # "full"
    BY <2>2, ParsedType DEF Inserting
  <2> QED
    BY <2>1, <2>2
<1>4. \A f \in Inserting(p) : EdgesFrom(f, Worktree[f]) \subseteq Edge
  BY <1>3, EdgesFromType
<1> QED
  BY <1>3, <1>4 DEF OwnEdges

LEMMA CommittedType ==
  ASSUME TypeOK, NEW p \in Proc, Committed(p),
         rows' \in [File -> Content \cup {None}], edges' \subseteq Edge,
         stray' \subseteq Edge
  PROVE  TypeOK'
<1>0. /\ unseen' \in [Proc -> SUBSET Edge]
      /\ unseenRows' \in [Proc -> SUBSET File]
  BY InsertedType DEF Committed, TypeOK
<1>1. torn' \in BOOLEAN /\ mixed' \in BOOLEAN
  BY DEF Committed, TypeOK
<1>2. overtaken' \in [Proc -> BOOLEAN]
  BY DEF Committed
<1>3. /\ pc' \in [Proc -> PC]
      /\ known' \in [Proc -> Sha \cup {None}]
      /\ target' \in [Proc -> Sha \cup {None}]
      /\ mode' \in [Proc -> {"full", "incremental"}]
      /\ changes' \in [Proc -> SUBSET Change]
      /\ behind' \in [Proc -> SUBSET Proc]
  BY EndsType DEF Committed, TypeOK, PC
<1> QED
  BY <1>0, <1>1, <1>2, <1>3 DEF TypeOK, Committed, clone

LEMMA NextType == TypeOK /\ [Next]_vars => TypeOK'
<1> SUFFICES ASSUME TypeOK, [Next]_vars PROVE TypeOK'
  OBVIOUS
<1> USE DEF clone, index, local, ghosts, writes, Goto
<1>1. ASSUME NEW p \in Proc, Start(p) PROVE TypeOK'
  BY <1>1, BoundAssumption DEF Start, TypeOK, PC
<1>2. ASSUME NEW p \in Proc, Sync(p) PROVE TypeOK'
  <2>1. head' \in Sha /\ untracked' \in Tree
    BY <1>2, MoveType DEF Sync
  <2>2. moved' \in [Proc -> BOOLEAN]
    BY <1>2 DEF Sync
  <2> QED
    BY <1>2, <2>1, <2>2 DEF Sync, TypeOK, PC
<1>3. ASSUME NEW p \in Proc, SyncFails(p) PROVE TypeOK'
  BY <1>3, EndsType DEF SyncFails, TypeOK, PC
<1>4. ASSUME NEW p \in Proc, Load(p) PROVE TypeOK'
  BY <1>4 DEF Load, TypeOK, PC
<1>5. ASSUME NEW p \in Proc, ReadHead(p) PROVE TypeOK'
  BY <1>5 DEF ReadHead, TypeOK, PC
<1>6. ASSUME NEW p \in Proc, Noop(p) PROVE TypeOK'
  BY <1>6, EndsType DEF Noop, TypeOK, PC
<1>7. ASSUME NEW p \in Proc, DecideIncremental(p) PROVE TypeOK'
  BY <1>7, DiffType DEF DecideIncremental, TypeOK, PC
<1>8. ASSUME NEW p \in Proc, DecideFull(p) PROVE TypeOK'
  BY <1>8 DEF DecideFull, TypeOK, PC
<1>9. ASSUME NEW p \in Proc, Write(p) PROVE TypeOK'
  <2>1. overlapped' \in [Proc -> BOOLEAN] /\ behind' \in [Proc -> SUBSET Proc]
    BY <1>9 DEF Write, Writers, TypeOK
  <2> QED
    BY <1>9, <2>1 DEF Write, TypeOK, PC
<1>10. ASSUME NEW p \in Proc, ApplyFull(p) PROVE TypeOK'
  <2>1. rows' \in [File -> Content \cup {None}]
    BY <1>10, WorktreeType, WalkedType DEF ApplyFull, TypeOK
  <2>2. edges' \subseteq Edge /\ stray' \subseteq Edge
    BY <1>10, InsertedType DEF ApplyFull, Missed, TypeOK
  <2> QED
    BY <1>10, <2>1, <2>2, CommittedType DEF ApplyFull
<1>11. ASSUME NEW p \in Proc, ApplyIncremental(p) PROVE TypeOK'
  <2>1. \A f \in Parsed(p) : f \in File /\ Worktree[f] \in Content
    BY ParsedType
  <2>2. rows' \in [File -> Content \cup {None}]
    BY <1>11, <2>1 DEF ApplyIncremental, TypeOK
  <2>3. unseen[p] \subseteq Edge /\ edges \subseteq Edge /\ stray \subseteq Edge
    BY DEF TypeOK
  <2>4. edges' \subseteq Edge /\ stray' \subseteq Edge
    BY <1>11, <2>3, InsertedType DEF ApplyIncremental, EdgesAfter, Missed
  <2> QED
    BY <1>11, <2>2, <2>4, CommittedType DEF ApplyIncremental
<1>12. ASSUME NEW p \in Proc, ApplyRaises(p) PROVE TypeOK'
  BY <1>12, EndsType, ForgetsType DEF ApplyRaises, TypeOK, PC
<1>13. ASSUME NEW p \in Proc, Crash(p) PROVE TypeOK'
  BY <1>13, EndsType, ForgetsType DEF Crash, TypeOK, PC
<1>14. ASSUME NEW s \in Sha, DevCheckout(s) PROVE TypeOK'
  <2>1. moved' \in [Proc -> BOOLEAN]
    BY <1>14 DEF DevCheckout
  <2> QED
    BY <1>14, <2>1, MoveType DEF DevCheckout, TypeOK
<1>15. ASSUME NEW f \in Untracked, NEW c \in Content, DevLeaves(f, c) PROVE TypeOK'
  BY <1>15 DEF DevLeaves, TypeOK, Tree
<1>16. CASE UNCHANGED vars
  BY <1>16 DEF vars, TypeOK
<1>17. ASSUME NEW p \in Proc, Create(p) PROVE TypeOK'
  BY <1>17 DEF Create, TypeOK, PC
<1>18. ASSUME NEW p \in Proc, CreateRaises(p) PROVE TypeOK'
  BY <1>18, EndsType DEF CreateRaises, TypeOK, PC
<1> QED
  BY <1>1, <1>2, <1>3, <1>4, <1>5, <1>6, <1>7, <1>8, <1>9, <1>10, <1>11,
     <1>12, <1>13, <1>14, <1>15, <1>16, <1>17, <1>18 DEF Next, Step, Quiet

\* The types hold in every reachable state.
THEOREM TypeCorrect == Spec => []TypeOK
BY InitType, NextType, PTL DEF Spec

-----------------------------------------------------------------------------
(* Only runs that overlap can miss what another has committed.             *)

OverlapOK ==
  /\ \A p \in Proc : pc[p] # "write" \/ ~overlapped[p] =>
       unseen[p] = {} /\ unseenRows[p] = {}
  /\ \A p, q \in Writers : p # q => overlapped[p]

LEMMA InitOverlap == Init => OverlapOK
BY DEF Init, OverlapOK, Writers

LEMMA NextOverlap == TypeOK /\ OverlapOK /\ [Next]_vars => OverlapOK'
<1> SUFFICES ASSUME TypeOK, OverlapOK, [Next]_vars PROVE OverlapOK'
  OBVIOUS
<1>1. ASSUME NEW p \in Proc, Write(p) PROVE OverlapOK'
  <2>1. /\ pc' = [pc EXCEPT ![p] = "write"] /\ UNCHANGED <<unseen, unseenRows>>
        /\ pc[p] = "apply" /\ Writers' = Writers \cup {p} /\ p \notin Writers
        /\ overlapped'[p] = (Writers # {})
        /\ \A q \in Proc \ {p} : overlapped'[q] <=> overlapped[q] \/ q \in Writers
    BY <1>1 DEF Write, Goto, Writers, TypeOK
  <2>2. unseen[p] = {} /\ unseenRows[p] = {}
    BY <2>1 DEF OverlapOK
  <2>3. ASSUME NEW q \in Proc, pc'[q] # "write" \/ ~overlapped'[q]
        PROVE  unseen'[q] = {} /\ unseenRows'[q] = {}
    BY <2>1, <2>2, <2>3 DEF OverlapOK, TypeOK, Writers
  <2>4. ASSUME NEW q \in Writers', NEW r \in Writers', q # r
        PROVE  overlapped'[q]
    BY <2>1, <2>4 DEF OverlapOK, Writers
  <2> QED
    BY <2>3, <2>4 DEF OverlapOK
<1>2. ASSUME NEW p \in Proc, ApplyFull(p) \/ ApplyIncremental(p) PROVE OverlapOK'
  <2>1. Committed(p) /\ pc[p] = "write"
    BY <1>2 DEF ApplyFull, ApplyIncremental
  <2>2. /\ pc' = [pc EXCEPT ![p] = "idle"] /\ UNCHANGED overlapped
        /\ Writers' = Writers \ {p}
        /\ \A q \in Proc : q \notin Writers' =>
             unseen'[q] = {} /\ unseenRows'[q] = {}
    BY <2>1 DEF Committed, Ends, Goto, Writers, TypeOK
  <2>3. p \in Writers /\ \A q \in Writers' : q # p /\ q \in Writers /\ overlapped[q]
    BY <2>1, <2>2 DEF OverlapOK, Writers
  <2>4. \A q \in Proc : q \in Writers' <=> pc'[q] = "write"
    BY DEF Writers
  <2> QED
    BY <2>2, <2>3, <2>4 DEF OverlapOK
<1>3. ASSUME NEW p \in Proc, ApplyRaises(p) \/ Crash(p) PROVE OverlapOK'
  <2>1. PICK l \in {"raised", "failed"} :
          /\ pc' = [pc EXCEPT ![p] = l] /\ UNCHANGED overlapped
          /\ unseen' = [unseen EXCEPT ![p] = {}]
          /\ unseenRows' = [unseenRows EXCEPT ![p] = {}]
    BY <1>3 DEF ApplyRaises, Crash, Ends, Goto, Forgets, ghosts
  <2>2. Writers' \subseteq Writers
    BY <2>1 DEF Writers, TypeOK
  <2> QED
    BY <2>1, <2>2 DEF OverlapOK, TypeOK
<1>4. ASSUME UNCHANGED <<unseen, unseenRows, overlapped>>,
             \/ UNCHANGED pc
             \/ \E p \in Proc, l \in PC \ {"write"} :
                  pc[p] # "write" /\ pc' = [pc EXCEPT ![p] = l]
      PROVE  OverlapOK'
  <2>1. Writers' = Writers
    BY <1>4 DEF Writers, TypeOK
  <2> QED
    BY <1>4, <2>1 DEF OverlapOK, TypeOK, Writers
<1>5. ASSUME NEW p \in Proc,
             \/ Start(p) \/ Sync(p) \/ SyncFails(p) \/ Load(p) \/ Create(p)
             \/ CreateRaises(p) \/ ReadHead(p) \/ Noop(p)
             \/ DecideIncremental(p) \/ DecideFull(p)
      PROVE  OverlapOK'
  <2>1. UNCHANGED <<unseen, unseenRows, overlapped>>
    BY <1>5 DEF Start, Sync, SyncFails, Load, Create, CreateRaises, ReadHead, Noop,
       DecideIncremental, DecideFull, writes, ghosts
  <2>2. \E l \in PC \ {"write"} : pc[p] # "write" /\ pc' = [pc EXCEPT ![p] = l]
    BY <1>5 DEF Start, Sync, SyncFails, Load, Create, CreateRaises, ReadHead, Noop,
       DecideIncremental, DecideFull, Ends, Goto, PC, Ended
  <2> QED
    BY <1>4, <2>1, <2>2
<1>6. CASE \/ \E s \in Sha : DevCheckout(s)
           \/ \E f \in Untracked, c \in Content : DevLeaves(f, c)
           \/ UNCHANGED vars
  BY <1>4, <1>6 DEF DevCheckout, DevLeaves, vars, writes, ghosts
<1> QED
  BY <1>1, <1>2, <1>3, <1>5, <1>6 DEF Next, Step, Quiet

LEMMA Overlap == Spec => []OverlapOK
BY InitOverlap, NextOverlap, TypeCorrect, PTL DEF Spec

-----------------------------------------------------------------------------
(* The inductive invariant behind IndexMatchesHead.                        *)

\* p has loaded the repo row and not ended.
Running(p) == pc[p] \in {"create", "read", "decide", "apply", "write"}

\* The rows of regular files are those of a full walk of commit s.
RowsAt(s) == \A f \in Regular : rows[f] = Walked(TreeOf[s])[f]

UntrackedOnly == \A f \in File : untracked[f] # None => f \in Untracked

\* As long as nobody moves the clone, the sha a run read is HEAD,
TargetIsHead ==
  \A p \in Proc :
    pc[p] \in {"decide", "apply", "write"} /\ ~moved[p] =>
      target[p] \in {head, None}

\* and the changes it found lead from the sha it loaded to HEAD.
DiffIsExact ==
  \A p \in Proc :
    /\ pc[p] \in {"apply", "write"}
    /\ mode[p] = "incremental"
    /\ ~moved[p]
    => known[p] # None /\ target[p] = head /\ changes[p] = Diff(known[p], head)

\* The sha it loaded is the stored one until another run commits,
KnownIsStored ==
  \A p \in Proc : Running(p) /\ ~overtaken[p] => known[p] = repoHead

\* and then the index is that of HEAD already.
OvertakenAtHead ==
  \A p \in Proc :
    ~torn /\ Running(p) /\ overtaken[p] /\ ~moved[p] =>
      RowsAt(head) /\ repoHead \in {head, None}

IndexInv ==
  /\ TypeOK /\ UntrackedOnly /\ TargetIsHead /\ DiffIsExact
  /\ KnownIsStored /\ OvertakenAtHead /\ IndexMatchesHead

\* A walk of the clone indexes regular files as a walk of HEAD would.
LEMMA RegularWorktree ==
  ASSUME TypeOK, UntrackedOnly, NEW f \in Regular
  PROVE  /\ f \in File
         /\ Worktree[f] = TreeOf[head][f]
         /\ TreeOf[head][f] \in Small \cup {None}
         /\ Walked(Worktree)[f] = Walked(TreeOf[head])[f]
<1>1. f \in File /\ f \notin Untracked /\ head \in Sha
  BY DEF Regular, TypeOK
<1>2. TreeOf[head][f] \in Small \cup {None}
  BY <1>1 DEF Regular
<1>3. Worktree[f] = TreeOf[head][f]
  BY <1>1 DEF Worktree, UntrackedOnly
<1> QED
  BY <1>1, <1>2, <1>3 DEF Walked

\* Applying the diff from s to HEAD to rows that are those of s or those of
\* HEAD gives the rows of HEAD.
LEMMA IncrementalIsFull ==
  ASSUME TypeOK, UntrackedOnly, NEW p \in Proc, ApplyIncremental(p),
         NEW s \in Sha, changes[p] = Diff(s, head), RowsAt(s) \/ RowsAt(head),
         unseenRows[p] = {}
  PROVE  RowsAt(head)'
<1> SUFFICES ASSUME NEW f \in Regular
             PROVE  rows'[f] = Walked(TreeOf[head])[f]
  BY DEF RowsAt, ApplyIncremental, Committed, clone, Regular
<1>1. /\ f \in File /\ Worktree[f] = TreeOf[head][f]
      /\ TreeOf[head][f] \in Small \cup {None}
  BY RegularWorktree
<1>2. rows[f] = Walked(TreeOf[s])[f] \/ rows[f] = Walked(TreeOf[head])[f]
  BY DEF RowsAt
<1>3. None \notin Small \cap Readable
  BY FileAssumption, NoneAssumption
<1>4. rows'[f] = IF f \in Parsed(p) THEN Worktree[f]
                 ELSE IF f \in Removed(p) THEN None ELSE rows[f]
  BY <1>1 DEF ApplyIncremental
<1>5. \A t \in Sha : Walked(TreeOf[t])[f] =
                      IF f \in Indexable /\ TreeOf[t][f] \in Small \cap Readable
                      THEN TreeOf[t][f] ELSE None
  BY <1>1 DEF Walked
<1>6. head \in Sha
  BY DEF TypeOK
<1>7. f \in Parsed(p) <=> /\ f \in Touched(p, {"added", "modified"})
                          /\ f \in Indexable /\ TreeOf[head][f] \in Readable
  BY <1>1 DEF Parsed
<1>8. f \in Removed(p) <=> \/ f \in Touched(p, {"deleted"})
                           \/ f \in Touched(p, {"modified"}) /\ f \in Indexable
  BY DEF Removed
<1>9. CASE TreeOf[s][f] = TreeOf[head][f]
  <2>1. f \notin Parsed(p) /\ f \notin Removed(p)
    BY <1>1, <1>7, <1>8, <1>9, TouchedByDiff
  <2> QED
    BY <1>2, <1>4, <1>5, <1>6, <1>9, <2>1
<1>10. CASE TreeOf[s][f] # TreeOf[head][f] /\ TreeOf[head][f] = None
  <2>1. f \in Touched(p, {"deleted"}) /\ f \notin Touched(p, {"added", "modified"})
    <3>1. TreeOf[s][f] # None
      BY <1>10
    <3>2. \A S : f \in Touched(p, S) <=> "deleted" \in S
      <4> TAKE S
      <4> QED
        BY <1>1, <1>10, <3>1, TouchedByDiff
    <3> QED
      BY <3>2
  <2> QED
    BY <1>3, <1>4, <1>5, <1>6, <1>7, <1>8, <1>10, <2>1
<1>11. CASE TreeOf[s][f] # TreeOf[head][f] /\ TreeOf[head][f] # None
  <2> DEFINE st == IF TreeOf[s][f] = None THEN "added"
                   ELSE IF TreeOf[head][f] = None THEN "deleted" ELSE "modified"
  <2>1. st \in {"added", "modified"} /\ st # "deleted"
    BY <1>11
  <2>2. \A S : f \in Touched(p, S) <=> st \in S
    <3> TAKE S
    <3> QED
      BY <1>1, <1>11, TouchedByDiff
  <2>3. f \in Touched(p, {"added", "modified"}) /\ f \notin Touched(p, {"deleted"})
    BY <2>1, <2>2
  <2>4. f \in Touched(p, {"modified"}) <=> TreeOf[s][f] # None
    BY <1>1, <1>11, TouchedByDiff
  <2>5. CASE f \in Parsed(p)
    BY <1>1, <1>4, <1>5, <1>6, <1>7, <1>11, <2>5
  <2>6. CASE f \notin Parsed(p)
    <3>1. Walked(TreeOf[head])[f] = None
      BY <1>5, <1>6, <1>7, <2>3, <2>6
    <3>2. CASE TreeOf[s][f] # None /\ f \in Indexable
      BY <1>4, <1>8, <2>4, <2>6, <3>1, <3>2
    <3>3. CASE ~(TreeOf[s][f] # None /\ f \in Indexable)
      <4>1. Walked(TreeOf[s])[f] = None
        BY <1>3, <1>5, <3>3
      <4> QED
        BY <1>2, <1>4, <1>8, <2>3, <2>4, <2>6, <3>1, <3>3, <4>1
    <3> QED
      BY <3>2, <3>3
  <2> QED
    BY <2>5, <2>6
<1> QED
  BY <1>9, <1>10, <1>11

\* A run that commits over a clone nobody moved leaves the rows of HEAD.
LEMMA CommitLeavesHead ==
  ASSUME IndexInv, OverlapOK, NEW p \in Proc, ApplyFull(p) \/ ApplyIncremental(p),
         ~torn'
  PROVE  /\ RowsAt(head)' /\ head' = head /\ ~torn
         /\ repoHead' \in {head, None}
<1>1. Committed(p) /\ pc[p] = "write"
  BY DEF ApplyFull, ApplyIncremental
<1>2. head' = head /\ ~torn /\ ~moved[p] /\ ~overlapped[p]
  BY <1>1 DEF Committed, clone
<1>0. unseenRows[p] = {}
  BY <1>1, <1>2 DEF OverlapOK
<1>3. repoHead' \in {head, None}
  <2>1. target[p] \in {head, None}
    BY <1>1, <1>2 DEF IndexInv, TargetIsHead
  <2>2. CASE overtaken[p]
    BY <1>1, <1>2, <2>1, <2>2 DEF Committed, IndexInv, OvertakenAtHead, Running
  <2>3. CASE ~overtaken[p]
    BY <1>1, <2>1, <2>3 DEF Committed, IndexInv, KnownIsStored, Running
  <2> QED
    BY <2>2, <2>3
<1>4. CASE ApplyFull(p)
  <2>1. \A f \in Regular : rows'[f] = Walked(TreeOf[head])[f]
    <3>1. rows' = Walked(Worktree)
      BY <1>0, <1>4 DEF ApplyFull, Walked
    <3> QED
      BY <3>1, RegularWorktree DEF IndexInv
  <2> QED
    BY <1>2, <1>3, <2>1 DEF RowsAt
<1>5. CASE ApplyIncremental(p)
  <2>1. known[p] \in Sha /\ changes[p] = Diff(known[p], head)
    BY <1>1, <1>2, <1>5 DEF ApplyIncremental, IndexInv, DiffIsExact, TypeOK
  <2>2. RowsAt(known[p]) \/ RowsAt(head)
    <3>1. CASE overtaken[p]
      BY <1>1, <1>2, <3>1 DEF IndexInv, OvertakenAtHead, Running
    <3>2. CASE ~overtaken[p]
      <4>1. repoHead = known[p] /\ repoHead # None
        BY <1>1, <2>1, <3>2, NoneAssumption DEF IndexInv, KnownIsStored, Running
      <4> QED
        BY <1>2, <4>1 DEF IndexInv, IndexMatchesHead, RowsAt
    <3> QED
      BY <3>1, <3>2
  <2> QED
    BY <1>0, <1>2, <1>3, <1>5, <2>1, <2>2, IncrementalIsFull DEF IndexInv
<1> QED
  BY <1>4, <1>5

LEMMA InitIndex == Init => IndexInv
<1> SUFFICES ASSUME Init PROVE IndexInv
  OBVIOUS
<1>1. TypeOK
  BY InitType
<1>2. /\ untracked = [f \in File |-> None] /\ repoHead = None
      /\ pc = [p \in Proc |-> "idle"]
  BY DEF Init
<1>3. \A p \in Proc : pc[p] = "idle"
  BY <1>2
<1> QED
  BY <1>1, <1>2, <1>3 DEF IndexInv, UntrackedOnly, TargetIsHead, DiffIsExact,
     KnownIsStored, OvertakenAtHead, IndexMatchesHead, Running

\* A process that only ends, or starts, or fails to sync.
LEMMA StopKeeps ==
  ASSUME IndexInv, NEW p \in Proc, NEW l \in PC \ {"create", "read", "decide", "apply", "write"},
         Goto(p, l), UNCHANGED <<clone, index, ghosts>>,
         \A q \in Proc \ {p} :
           UNCHANGED <<known[q], target[q], mode[q], changes[q]>>
  PROVE  UntrackedOnly' /\ TargetIsHead' /\ DiffIsExact' /\ KnownIsStored'
         /\ OvertakenAtHead' /\ IndexMatchesHead'
<1>1. UNCHANGED <<head, untracked, repoHead, rows, overtaken, moved, torn>>
  BY DEF clone, index, ghosts
<1>2. pc'[p] = l /\ \A q \in Proc \ {p} : pc'[q] = pc[q]
  BY DEF Goto, IndexInv, TypeOK
<1>3. UntrackedOnly'
  BY <1>1 DEF IndexInv, UntrackedOnly
<1>4. TargetIsHead'
  BY <1>1, <1>2 DEF IndexInv, TargetIsHead
<1>5. DiffIsExact'
  BY <1>1, <1>2 DEF IndexInv, DiffIsExact, Diff
<1>6. KnownIsStored'
  BY <1>1, <1>2 DEF IndexInv, KnownIsStored, Running
<1>7. OvertakenAtHead'
  BY <1>1, <1>2 DEF IndexInv, OvertakenAtHead, Running, RowsAt, Regular
<1>8. IndexMatchesHead'
  BY <1>1 DEF IndexInv, IndexMatchesHead, Regular
<1> QED
  BY <1>3, <1>4, <1>5, <1>6, <1>7, <1>8

\* A step of p that changes neither clone nor index keeps what is said of the
\* other processes and of the index itself.
LEMMA OthersKeep ==
  ASSUME IndexInv, NEW p \in Proc,
         \/ Load(p) \/ Create(p) \/ ReadHead(p)
         \/ DecideIncremental(p) \/ DecideFull(p) \/ Write(p)
  PROVE  /\ UntrackedOnly' /\ IndexMatchesHead'
         /\ UNCHANGED <<head, repoHead, rows, torn>>
         /\ \A q \in Proc \ {p} :
              UNCHANGED <<pc[q], known[q], target[q], mode[q], changes[q],
                          overtaken[q], moved[q]>>
<1>1. UNCHANGED <<head, untracked, repoHead, rows, torn>>
  BY DEF Load, Create, ReadHead, DecideIncremental, DecideFull, Write, clone, index, ghosts
<1>2. UntrackedOnly' /\ IndexMatchesHead'
  BY <1>1 DEF IndexInv, UntrackedOnly, IndexMatchesHead, Regular
<1>3. ASSUME NEW q \in Proc \ {p}
      PROVE  UNCHANGED <<pc[q], known[q], target[q], mode[q], changes[q],
                         overtaken[q], moved[q]>>
  BY DEF Load, Create, ReadHead, DecideIncremental, DecideFull, Write, clone, index,
     local, ghosts, Goto, IndexInv, TypeOK
<1> QED
  BY <1>1, <1>2, <1>3

\* What a step of p within its run has to establish, given OthersKeep: its own
\* part of the invariant.
LEMMA OwnPart ==
  ASSUME IndexInv, TypeOK', NEW p \in Proc,
         \/ Load(p) \/ Create(p) \/ ReadHead(p)
         \/ DecideIncremental(p) \/ DecideFull(p) \/ Write(p),
         pc'[p] \in {"decide", "apply", "write"} /\ ~moved'[p] =>
           target'[p] \in {head, None},
         pc'[p] \in {"apply", "write"} /\ mode'[p] = "incremental" /\ ~moved'[p] =>
           known'[p] # None /\ target'[p] = head /\ changes'[p] = Diff(known'[p], head),
         ~overtaken'[p] => known'[p] = repoHead,
         ~torn /\ overtaken'[p] /\ ~moved'[p] =>
           RowsAt(head) /\ repoHead \in {head, None}
  PROVE  IndexInv'
<1>1. /\ UntrackedOnly' /\ IndexMatchesHead'
      /\ UNCHANGED <<head, repoHead, rows, torn>>
      /\ \A q \in Proc \ {p} :
           UNCHANGED <<pc[q], known[q], target[q], mode[q], changes[q],
                       overtaken[q], moved[q]>>
  BY OthersKeep
<1>2. TargetIsHead'
  BY <1>1 DEF IndexInv, TargetIsHead
<1>3. DiffIsExact'
  <2> SUFFICES ASSUME NEW q \in Proc, pc'[q] \in {"apply", "write"},
                      mode'[q] = "incremental", ~moved'[q]
               PROVE  /\ known'[q] # None /\ target'[q] = head
                      /\ changes'[q] = Diff(known'[q], head)
    BY <1>1 DEF DiffIsExact, Diff
  <2> QED
    BY <1>1 DEF IndexInv, DiffIsExact
<1>4. KnownIsStored'
  BY <1>1 DEF IndexInv, KnownIsStored, Running
<1>5. OvertakenAtHead'
  <2> SUFFICES ASSUME NEW q \in Proc, ~torn, Running(q)', overtaken'[q], ~moved'[q]
               PROVE  RowsAt(head) /\ repoHead \in {head, None}
    BY <1>1 DEF OvertakenAtHead, RowsAt, Regular
  <2> QED
    BY <1>1 DEF IndexInv, OvertakenAtHead, Running
<1> QED
  BY <1>1, <1>2, <1>3, <1>4, <1>5 DEF IndexInv

LEMMA NextIndex == IndexInv /\ OverlapOK /\ [Next]_vars => IndexInv'
<1> SUFFICES ASSUME IndexInv, OverlapOK, [Next]_vars PROVE IndexInv'
  OBVIOUS
<1>1. TypeOK /\ TypeOK'
  BY NextType DEF IndexInv
<1>2. ASSUME NEW p \in Proc,
             \/ Start(p) \/ SyncFails(p) \/ Noop(p)
             \/ CreateRaises(p) \/ ApplyRaises(p) \/ Crash(p)
      PROVE  IndexInv'
  <2>1. PICK l \in PC \ {"create", "read", "decide", "apply", "write"} :
          /\ Goto(p, l) /\ UNCHANGED <<clone, index, ghosts>>
          /\ UNCHANGED local \/ Ends(p, l)
    BY <1>2 DEF Start, SyncFails, Noop, CreateRaises, ApplyRaises, Crash, Ends, PC
  <2>2. \A q \in Proc \ {p} : UNCHANGED <<known[q], target[q], mode[q], changes[q]>>
    BY <1>1, <2>1 DEF Ends, local, TypeOK
  <2> QED
    BY <1>1, <2>1, <2>2, StopKeeps DEF IndexInv
<1>3. ASSUME NEW p \in Proc, Sync(p) PROVE IndexInv'
  <2>1. /\ UNCHANGED <<repoHead, rows, known, target, mode, changes,
                       overtaken, torn>>
        /\ pc[p] = "sync" /\ pc' = [pc EXCEPT ![p] = "load"]
        /\ moved' = [q \in Proc |-> q # p \/ moved[q]]
    BY <1>3 DEF Sync, Goto, index, local
  <2>2. \A f \in File : untracked'[f] # None => untracked[f] # None
    BY <1>3 DEF Sync, MoveTo
  <2>3. \A q \in Proc : Running(q)' => q # p /\ Running(q) /\ moved'[q]
    BY <1>1, <2>1 DEF TypeOK, Running
  <2>4. UntrackedOnly'
    BY <2>2 DEF IndexInv, UntrackedOnly
  <2>5. TargetIsHead' /\ DiffIsExact' /\ OvertakenAtHead'
    BY <2>3 DEF TargetIsHead, DiffIsExact, OvertakenAtHead, Running
  <2>6. KnownIsStored'
    BY <2>1, <2>3 DEF IndexInv, KnownIsStored
  <2>7. IndexMatchesHead'
    BY <2>1 DEF IndexInv, IndexMatchesHead, Regular
  <2> QED
    BY <1>1, <2>4, <2>5, <2>6, <2>7 DEF IndexInv
<1>4. ASSUME NEW p \in Proc, Load(p) PROVE IndexInv'
  <2>1. /\ pc'[p] \in {"read", "create"}
        /\ known'[p] = repoHead /\ overtaken'[p] = FALSE
    BY <1>1, <1>4 DEF Load, Goto, TypeOK
  <2> QED
    BY <1>1, <1>4, <2>1, OwnPart
<1>5. ASSUME NEW p \in Proc, ReadHead(p) PROVE IndexInv'
  <2>1. /\ pc[p] = "read" /\ pc'[p] = "decide" /\ target'[p] \in {head, None}
        /\ known' = known /\ overtaken' = overtaken /\ moved' = moved
    BY <1>1, <1>5 DEF ReadHead, Goto, TypeOK, ghosts
  <2>2. ~overtaken[p] => known[p] = repoHead
    BY <2>1 DEF IndexInv, KnownIsStored, Running
  <2>3. ~torn /\ overtaken[p] /\ ~moved[p] =>
          RowsAt(head) /\ repoHead \in {head, None}
    BY <2>1 DEF IndexInv, OvertakenAtHead, Running
  <2> QED
    BY <1>1, <1>5, <2>1, <2>2, <2>3, OwnPart
<1>6. ASSUME NEW p \in Proc, DecideIncremental(p) \/ DecideFull(p) \/ Write(p)
      PROVE  IndexInv'
  <2>1. /\ pc[p] \in {"decide", "apply"} /\ pc'[p] \in {"apply", "write"}
        /\ known' = known /\ target' = target
        /\ overtaken' = overtaken /\ moved' = moved
    BY <1>1, <1>6 DEF DecideIncremental, DecideFull, Write, Goto, TypeOK,
       ghosts, local
  <2>2. /\ ~overtaken[p] => known[p] = repoHead
        /\ ~torn /\ overtaken[p] /\ ~moved[p] =>
          RowsAt(head) /\ repoHead \in {head, None}
        /\ ~moved[p] => target[p] \in {head, None}
    BY <2>1 DEF IndexInv, KnownIsStored, OvertakenAtHead, TargetIsHead, Running
  <2>3. ASSUME mode'[p] = "incremental", ~moved[p]
        PROVE  known[p] # None /\ target[p] = head /\ changes'[p] = Diff(known[p], head)
    <3>1. CASE DecideIncremental(p)
      BY <1>1, <2>2, <2>3, <3>1 DEF DecideIncremental, MayDiff, TypeOK
    <3>2. CASE DecideFull(p)
      BY <1>1, <2>3, <3>2 DEF DecideFull, TypeOK
    <3>3. CASE Write(p)
      BY <2>3, <3>3 DEF Write, local, IndexInv, DiffIsExact
    <3> QED
      BY <1>6, <3>1, <3>2, <3>3
  <2> QED
    BY <1>1, <1>6, <2>1, <2>2, <2>3, OwnPart
<1>7. ASSUME NEW p \in Proc, ApplyFull(p) \/ ApplyIncremental(p) PROVE IndexInv'
  <2>1. Committed(p)
    BY <1>7 DEF ApplyFull, ApplyIncremental
  <2>2. /\ UNCHANGED <<head, untracked, moved>>
        /\ pc'[p] = "idle"
        /\ \A q \in Proc \ {p} :
             /\ UNCHANGED <<pc[q], known[q], target[q], mode[q], changes[q]>>
             /\ overtaken'[q]
    <3>1. /\ UNCHANGED <<head, untracked, moved>> /\ Ends(p, "idle")
          /\ overtaken' = [q \in Proc |-> q # p \/ overtaken[q]]
      BY <2>1 DEF Committed, clone
    <3>2. \A q \in Proc \ {p} : overtaken'[q]
      BY <3>1, Zenon
    <3>3. pc' = [pc EXCEPT ![p] = "idle"] /\ pc'[p] = "idle"
      BY <1>1, <3>1 DEF Ends, Goto, TypeOK
    <3>4. \A q \in Proc \ {p} :
            UNCHANGED <<pc[q], known[q], target[q], mode[q], changes[q]>>
      BY <1>1, <3>1, <3>3 DEF Ends, TypeOK
    <3> QED
      BY <3>1, <3>2, <3>3, <3>4
  <2>3. UntrackedOnly'
    BY <2>2 DEF IndexInv, UntrackedOnly
  <2>4. TargetIsHead'
    BY <2>2 DEF IndexInv, TargetIsHead
  <2>5. DiffIsExact'
    BY <2>2 DEF IndexInv, DiffIsExact, Diff
  <2>6. KnownIsStored'
    BY <2>2 DEF KnownIsStored, Running
  <2>7. OvertakenAtHead'
    BY <1>7, CommitLeavesHead DEF OvertakenAtHead
  <2>8. IndexMatchesHead'
    <3>1. ASSUME ~torn', repoHead' # None, NEW f \in Regular
          PROVE  rows'[f] = Walked(TreeOf[repoHead'])[f]
      <4>1. RowsAt(head)' /\ repoHead' = head'
        BY <1>7, <3>1, CommitLeavesHead
      <4> QED
        BY <3>1, <4>1 DEF RowsAt, Regular
    <3> QED
      BY <3>1 DEF IndexMatchesHead, Regular
  <2> QED
    BY <1>1, <2>3, <2>4, <2>5, <2>6, <2>7, <2>8 DEF IndexInv
<1>8. ASSUME NEW s \in Sha, DevCheckout(s) PROVE IndexInv'
  <2>1. /\ UNCHANGED <<repoHead, rows, known, overtaken, torn, pc>>
        /\ \A q \in Proc : moved'[q]
    BY <1>8 DEF DevCheckout, index, local
  <2>2. UntrackedOnly'
    BY <1>8 DEF DevCheckout, MoveTo, IndexInv, UntrackedOnly
  <2>3. TargetIsHead' /\ DiffIsExact' /\ OvertakenAtHead'
    BY <2>1 DEF TargetIsHead, DiffIsExact, OvertakenAtHead
  <2>4. KnownIsStored' /\ IndexMatchesHead'
    BY <2>1 DEF IndexInv, KnownIsStored, IndexMatchesHead, Running, Regular
  <2> QED
    BY <1>1, <2>2, <2>3, <2>4 DEF IndexInv
<1>9. ASSUME NEW f \in Untracked, NEW c \in Content, DevLeaves(f, c) PROVE IndexInv'
  <2>1. UNCHANGED <<head, repoHead, rows, known, target, mode, changes,
                    overtaken, moved, torn, pc>>
    BY <1>9 DEF DevLeaves, index, local, ghosts
  <2>2. UntrackedOnly'
    BY <1>1, <1>9 DEF DevLeaves, IndexInv, UntrackedOnly, TypeOK, Tree
  <2>3. TargetIsHead' /\ KnownIsStored' /\ IndexMatchesHead'
    BY <2>1 DEF IndexInv, TargetIsHead, KnownIsStored, IndexMatchesHead,
       Running, Regular
  <2>4. DiffIsExact'
    BY <2>1 DEF IndexInv, DiffIsExact, Diff
  <2>5. OvertakenAtHead'
    BY <2>1 DEF IndexInv, OvertakenAtHead, Running, RowsAt, Regular
  <2> QED
    BY <1>1, <2>2, <2>3, <2>4, <2>5 DEF IndexInv
<1>10. CASE UNCHANGED vars
  <2>1. UNCHANGED <<head, untracked, repoHead, rows, known, target, mode,
                    changes, overtaken, moved, torn, pc>>
    BY <1>10 DEF vars, clone, index, local, ghosts
  <2>2. UntrackedOnly' /\ TargetIsHead' /\ KnownIsStored' /\ IndexMatchesHead'
    BY <2>1 DEF IndexInv, UntrackedOnly, TargetIsHead, KnownIsStored,
       IndexMatchesHead, Running, Regular
  <2>3. DiffIsExact'
    BY <2>1 DEF IndexInv, DiffIsExact, Diff
  <2>4. OvertakenAtHead'
    BY <2>1 DEF IndexInv, OvertakenAtHead, Running, RowsAt, Regular
  <2> QED
    BY <1>1, <2>2, <2>3, <2>4 DEF IndexInv
<1>11. ASSUME NEW p \in Proc, Create(p) PROVE IndexInv'
  <2>1. /\ pc[p] = "create" /\ pc'[p] = "read"
        /\ known' = known /\ overtaken' = overtaken /\ moved' = moved
    BY <1>1, <1>11 DEF Create, Goto, TypeOK, local, ghosts
  <2>2. ~overtaken[p] => known[p] = repoHead
    BY <2>1 DEF IndexInv, KnownIsStored, Running
  <2>3. ~torn /\ overtaken[p] /\ ~moved[p] =>
          RowsAt(head) /\ repoHead \in {head, None}
    BY <2>1 DEF IndexInv, OvertakenAtHead, Running
  <2> QED
    BY <1>1, <1>11, <2>1, <2>2, <2>3, OwnPart
<1> QED
  BY <1>2, <1>3, <1>4, <1>5, <1>6, <1>7, <1>8, <1>9, <1>10, <1>11
     DEF Next, Step, Quiet

\* What repos.head_sha says is what code_index holds for regular files, for any
\* number of processes and commits.
THEOREM IndexOfHead == Spec => []IndexMatchesHead
<1>1. IndexInv => IndexMatchesHead
  BY DEF IndexInv
<1> QED
  BY <1>1, InitIndex, NextIndex, Overlap, PTL DEF Spec

-----------------------------------------------------------------------------
(* The two tables.                                                         *)

LEMMA OwnEdgesMeaning ==
  ASSUME NEW p, NEW f, NEW g
  PROVE  Has(OwnEdges(p), f, g) <=> f \in Inserting(p) /\ g \in Imports[Worktree[f]]
<1>1. Has(OwnEdges(p), f, g) <=> \E h \in Inserting(p) : Has(EdgesFrom(h, Worktree[h]), f, g)
  BY DEF Has, OwnEdges
<1>2. \A h : Has(EdgesFrom(h, Worktree[h]), f, g) <=> f = h /\ g \in Imports[Worktree[h]]
  BY EdgesFromMeaning
<1> QED
  BY <1>1, <1>2

LEMMA FullEdges ==
  ASSUME TypeOK, NEW p \in Proc, ApplyFull(p), unseenRows[p] = {}, NEW f \in File, NEW g
  PROVE  Has(edges', f, g) <=> rows'[f] # None /\ g \in Imports[rows'[f]]
<1>1. edges' = OwnEdges(p) /\ mode[p] = "full" /\ rows' = Walked(Worktree)
  BY DEF ApplyFull, Walked
<1>2. f \in Inserting(p) <=> rows'[f] # None
  BY <1>1 DEF Inserting
<1>3. f \in Inserting(p) => rows'[f] = Worktree[f]
  BY <1>1, InsertedType
<1>4. Has(OwnEdges(p), f, g) <=> f \in Inserting(p) /\ g \in Imports[Worktree[f]]
  BY OwnEdgesMeaning
<1> QED
  BY <1>1, <1>2, <1>3, <1>4

LEMMA IncrementalEdges ==
  ASSUME TypeOK, TablesAgree, NEW p \in Proc, ApplyIncremental(p), unseenRows[p] = {},
         NEW f \in File, NEW g \in File
  PROVE  Has(edges', f, g) <=> rows'[f] # None /\ g \in Imports[rows'[f]]
<1>0. mode[p] = "incremental" /\ Inserting(p) = Parsed(p)
  BY DEF ApplyIncremental, Inserting
<1>1. edges' = {e \in edges : e.src \notin Removed(p)} \cup OwnEdges(p)
  BY DEF ApplyIncremental, EdgesAfter
<1>2. rows'[f] = IF f \in Parsed(p) THEN Worktree[f]
                 ELSE IF f \in Removed(p) THEN None ELSE rows[f]
  BY DEF ApplyIncremental
<1>3. Has(edges', f, g) <=>
        \/ f \notin Removed(p) /\ Has(edges, f, g)
        \/ Has(OwnEdges(p), f, g)
  BY <1>1 DEF Has
<1>4. Has(OwnEdges(p), f, g) <=> f \in Parsed(p) /\ g \in Imports[Worktree[f]]
  BY <1>0, OwnEdgesMeaning
<1>5. Has(edges, f, g) <=> rows[f] # None /\ g \in Imports[rows[f]]
  BY DEF TablesAgree, Has
<1>6. f \in Parsed(p) /\ f \notin Removed(p) => rows[f] = None
  BY DEF ApplyIncremental, Duplicate
<1>7. f \in Parsed(p) => Worktree[f] # None
  BY ParsedType, NoneAssumption
<1> QED
  BY <1>2, <1>3, <1>4, <1>5, <1>6, <1>7

LEMMA NextEdges == TypeOK /\ OverlapOK /\ EdgesFollowRows /\ [Next]_vars => EdgesFollowRows'
<1> SUFFICES ASSUME TypeOK, OverlapOK, EdgesFollowRows, [Next]_vars PROVE EdgesFollowRows'
  OBVIOUS
<1>1. ASSUME NEW p \in Proc, ApplyFull(p) \/ ApplyIncremental(p), ~mixed'
      PROVE  TablesAgree'
  <2>1. ~mixed /\ ~overlapped[p] /\ pc[p] = "write"
    BY <1>1 DEF ApplyFull, ApplyIncremental, Committed
  <2>2. unseen[p] = {} /\ unseenRows[p] = {} /\ TablesAgree
    BY <2>1 DEF OverlapOK, EdgesFollowRows
  <2>3. stray' = {}
    BY <1>1, <2>2 DEF ApplyFull, ApplyIncremental, Missed, TablesAgree
  <2>4. \A f, g \in File : Has(edges', f, g) <=> rows'[f] # None /\ g \in Imports[rows'[f]]
    BY <1>1, <2>2, FullEdges, IncrementalEdges
  <2> QED
    BY <2>3, <2>4 DEF TablesAgree, Has
<1>2. CASE UNCHANGED <<rows, edges, stray, mixed>>
  BY <1>2 DEF EdgesFollowRows, TablesAgree
<1>3. \/ UNCHANGED <<rows, edges, stray, mixed>>
      \/ \E p \in Proc : ApplyFull(p) \/ ApplyIncremental(p)
  BY DEF Next, Step, Quiet, vars, index, ghosts, Start, Sync, SyncFails, Load,
     Create, CreateRaises, ReadHead, Noop, DecideIncremental, DecideFull, Write, ApplyRaises, Crash,
     DevCheckout, DevLeaves
<1> QED
  BY <1>1, <1>2, <1>3 DEF EdgesFollowRows

LEMMA InitEdges == Init => EdgesFollowRows
<1> SUFFICES ASSUME Init PROVE EdgesFollowRows
  OBVIOUS
<1>1. edges = {} /\ stray = {} /\ rows = [f \in File |-> None]
  BY DEF Init
<1> QED
  BY <1>1 DEF EdgesFollowRows, TablesAgree

\* code_index and import_edges agree as long as no two runs write at once.
THEOREM EdgesOfRows == Spec => []EdgesFollowRows
BY InitEdges, NextEdges, TypeCorrect, Overlap, PTL DEF Spec

-----------------------------------------------------------------------------
(* Runs that write at the same time lose no edge.                          *)

\* Every import of row f has an edge, and one that nobody writing now sees if
\* the row is one that they do not see.
ImportKept(f, g) ==
  \E e \in edges \cup stray :
    /\ e.src = f /\ e.raw = g
    /\ \A p \in Proc : f \in unseenRows[p] => e \in unseen[p]

ImportsKept ==
  \A f \in File : rows[f] # None => \A g \in Imports[rows[f]] : ImportKept(f, g)

\* An edge committed by p is unseen where its row is.
LEMMA CommitKeeps ==
  ASSUME NEW p \in Proc, Committed(p), NEW f, NEW g,
         OwnEdges(p) \subseteq edges',
         f \in Inserting(p), g \in Imports[Worktree[f]]
  PROVE  ImportKept(f, g)'
<1>1. PICK e \in OwnEdges(p) : e.src = f /\ e.raw = g
  BY OwnEdgesMeaning DEF Has
<1>2. \A q \in Proc : f \in unseenRows'[q] => e \in unseen'[q]
  BY <1>1 DEF Committed
<1> QED
  BY <1>1, <1>2 DEF ImportKept

\* An edge that a commit leaves is still unseen where its row is, unless the
\* commit inserts the row again.
LEMMA CommitLeaves ==
  ASSUME NEW p \in Proc, Committed(p), NEW f, NEW g, NEW e \in edges' \cup stray',
         e.src = f, e.raw = g, f \notin Inserting(p),
         \A q \in Proc : f \in unseenRows[q] => e \in unseen[q]
  PROVE  ImportKept(f, g)'
<1>1. \A q \in Proc : f \in unseenRows'[q] => e \in unseen'[q]
  BY DEF Committed
<1> QED
  BY <1>1 DEF ImportKept

LEMMA FullKeepsImports ==
  ASSUME TypeOK, ImportsKept, NEW p \in Proc, ApplyFull(p)
  PROVE  ImportsKept'
<1>1. /\ Committed(p) /\ mode[p] = "full"
      /\ edges' = OwnEdges(p) /\ stray' = Missed(p)
  BY DEF ApplyFull
<1>2. PICK late \in SUBSET (unseenRows[p] \ Inserting(p)) :
        rows' = [f \in File |-> IF f \in late THEN rows[f] ELSE Walked(Worktree)[f]]
  BY DEF ApplyFull
<1> SUFFICES ASSUME NEW f \in File, rows'[f] # None, NEW g \in Imports[rows'[f]]
             PROVE  ImportKept(f, g)'
  BY DEF ImportsKept
<1>3. CASE f \in late
  <2>1. PICK e \in edges \cup stray :
          /\ e.src = f /\ e.raw = g
          /\ \A q \in Proc : f \in unseenRows[q] => e \in unseen[q]
    BY <1>2, <1>3 DEF ImportsKept, ImportKept
  <2>2. f \in unseenRows[p] /\ f \notin Inserting(p)
    BY <1>2, <1>3
  <2>3. e \in stray'
    BY <1>1, <2>1, <2>2 DEF Missed
  <2> QED
    BY <1>1, <2>1, <2>2, <2>3, CommitLeaves
<1>4. CASE f \notin late
  <2>1. rows'[f] = Walked(Worktree)[f]
    BY <1>2, <1>4
  <2>2. f \in Inserting(p)
    BY <1>1, <2>1 DEF Inserting
  <2>3. rows'[f] = Worktree[f]
    BY <1>1, <2>1, <2>2, InsertedType
  <2> QED
    BY <1>1, <2>2, <2>3, CommitKeeps
<1> QED
  BY <1>3, <1>4

LEMMA IncrementalKeepsImports ==
  ASSUME TypeOK, ImportsKept, NEW p \in Proc, ApplyIncremental(p)
  PROVE  ImportsKept'
<1>1. /\ Committed(p) /\ Inserting(p) = Parsed(p)
      /\ edges' = {e \in edges : e.src \notin Removed(p)} \cup OwnEdges(p)
  BY DEF ApplyIncremental, Inserting, EdgesAfter
<1>2. PICK early \in SUBSET Removed(p) :
        /\ stray' = {e \in stray : e.src \notin Removed(p)}
                      \cup {e \in Missed(p) : e.src \in early}
        /\ \E late \in SUBSET ((early \cap unseenRows[p]) \ Parsed(p)) :
             rows' = [f \in File |-> IF f \in Parsed(p) THEN Worktree[f]
                                     ELSE IF f \in Removed(p) \ late THEN None
                                     ELSE rows[f]]
  BY DEF ApplyIncremental
<1>3. PICK late \in SUBSET ((early \cap unseenRows[p]) \ Parsed(p)) :
        rows' = [f \in File |-> IF f \in Parsed(p) THEN Worktree[f]
                                ELSE IF f \in Removed(p) \ late THEN None
                                ELSE rows[f]]
  BY <1>2
<1> SUFFICES ASSUME NEW f \in File, rows'[f] # None, NEW g \in Imports[rows'[f]]
             PROVE  ImportKept(f, g)'
  BY DEF ImportsKept
<1>4. CASE f \in Parsed(p)
  <2>1. rows'[f] = Worktree[f]
    BY <1>3, <1>4
  <2> QED
    BY <1>1, <1>4, <2>1, CommitKeeps
<1>5. CASE f \notin Parsed(p)
  <2>1. rows'[f] = rows[f] /\ (f \in Removed(p) => f \in late)
    BY <1>3, <1>5
  <2>2. PICK e \in edges \cup stray :
          /\ e.src = f /\ e.raw = g
          /\ \A q \in Proc : f \in unseenRows[q] => e \in unseen[q]
    BY <2>1 DEF ImportsKept, ImportKept
  <2>3. e \in edges' \cup stray'
    <3>1. CASE f \in Removed(p)
      <4>1. f \in early /\ f \in unseenRows[p]
        BY <1>3, <2>1, <3>1
      <4> QED
        BY <1>2, <2>2, <4>1 DEF Missed
    <3>2. CASE f \notin Removed(p)
      BY <1>1, <1>2, <2>2, <3>2
    <3> QED
      BY <3>1, <3>2
  <2> QED
    BY <1>1, <1>5, <2>2, <2>3, CommitLeaves
<1> QED
  BY <1>4, <1>5

LEMMA NextKeepsImports == TypeOK /\ ImportsKept /\ [Next]_vars => ImportsKept'
<1> SUFFICES ASSUME TypeOK, ImportsKept, [Next]_vars PROVE ImportsKept'
  OBVIOUS
<1>1. ASSUME NEW p \in Proc, ApplyFull(p) \/ ApplyIncremental(p) PROVE ImportsKept'
  BY <1>1, FullKeepsImports, IncrementalKeepsImports
<1>2. ASSUME NEW p \in Proc, ApplyRaises(p) \/ Crash(p) PROVE ImportsKept'
  <2>1. /\ UNCHANGED <<rows, edges, stray>>
        /\ unseen' = [unseen EXCEPT ![p] = {}]
        /\ unseenRows' = [unseenRows EXCEPT ![p] = {}]
    BY <1>2 DEF ApplyRaises, Crash, Forgets, index
  <2>2. \A q \in Proc : unseenRows'[q] # {} =>
          unseenRows'[q] = unseenRows[q] /\ unseen'[q] = unseen[q]
    BY <2>1 DEF TypeOK
  <2> QED
    BY <2>1, <2>2 DEF ImportsKept, ImportKept
<1>3. CASE UNCHANGED <<rows, edges, stray, unseen, unseenRows>>
  BY <1>3 DEF ImportsKept, ImportKept
<1>4. \/ UNCHANGED <<rows, edges, stray, unseen, unseenRows>>
      \/ \E p \in Proc : ApplyFull(p) \/ ApplyIncremental(p) \/ ApplyRaises(p) \/ Crash(p)
  BY DEF Next, Step, Quiet, vars, index, ghosts, writes, Start, Sync, SyncFails, Load,
     Create, CreateRaises, ReadHead, Noop, DecideIncremental, DecideFull, Write,
     DevCheckout, DevLeaves
<1> QED
  BY <1>1, <1>2, <1>3, <1>4

LEMMA InitKeepsImports == Init => ImportsKept
<1> SUFFICES ASSUME Init PROVE ImportsKept
  OBVIOUS
<1>1. \A f \in File : rows[f] = None
  BY DEF Init
<1> QED
  BY <1>1 DEF ImportsKept

\* Whatever runs write at the same time and miss of each other, every import of
\* every indexed row has an edge.
THEOREM NoLostEdges == Spec => []NoEdgeIsLost
<1>1. ImportsKept => NoEdgeIsLost
  BY DEF ImportsKept, ImportKept, NoEdgeIsLost
<1> QED
  BY <1>1, InitKeepsImports, NextKeepsImports, TypeCorrect, PTL DEF Spec

=============================================================================
