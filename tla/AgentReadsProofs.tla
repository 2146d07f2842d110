-------------------------- MODULE AgentReadsProofs --------------------------
(***************************************************************************)
(* What the reviewer and the onboarding agent read, keep and claim: type   *)
(* correctness of AgentJobs, and the theorems about pages, evidence,       *)
(* guardrails and views, for any repository, history, pull requests and    *)
(* answers of the LLM.                                                     *)
(***************************************************************************)
EXTENDS AgentJobsProofs, SelectionProofs, SequenceTheorems

-----------------------------------------------------------------------------
(* Operators.                                                              *)

LEMMA Smallest ==
  ASSUME NEW S \in SUBSET Nat, S # {}
  PROVE  Min(S) \in S
<1>1. \E x \in S : \A y \in S : x <= y
  BY Least
<1> QED
  BY <1>1 DEF Min

LEMMA MinOfTwo ==
  ASSUME NEW a \in Int, NEW b \in Int
  PROVE  Min({a, b}) = IF a <= b THEN a ELSE b
BY DEF Min

LEMMA MaxOfTwo ==
  ASSUME NEW a \in Int, NEW b \in Int
  PROVE  Max({a, b}) = IF a >= b THEN a ELSE b
BY DEF Max

\* An import resolves to a file of the clone or to none.
LEMMA ResolvesTo ==
  ASSUME NEW imp, NEW f, NEW roots, NEW disk
  PROVE  Resolve(imp, f, roots, disk) \in disk \cup {None}
<1> DEFINE candidates == Candidates(imp, f, roots)
           found == {i \in 1..Len(candidates) : candidates[i] \in disk}
<1> HIDE DEF candidates
<1>1. found \in SUBSET Nat
  <2>1. \A i : i \in 1..Len(candidates) => i \in Nat
    OBVIOUS
  <2> QED
    BY <2>1
<1>2. found # {} => Min(found) \in found
  BY <1>1, Smallest
<1>3. FirstOf(candidates, disk) = IF found = {} THEN None ELSE candidates[Min(found)]
  BY DEF FirstOf
<1>4. FirstOf(candidates, disk) \in disk \cup {None}
  BY <1>2, <1>3
<1> QED
  BY <1>4 DEF Resolve, candidates

LEMMA FilesAreFinite == IsFiniteSet(File) /\ IsFiniteSet(Indexed)
<1> DEFINE n == Len(FileOrder)
<1>1. n \in Nat /\ FileOrder \in [1..n -> File] /\ ToSet(FileOrder) = File
  BY AgentAssumption
<1>2. \A f \in File : \E i \in 1..n : FileOrder[i] = f
  BY <1>1 DEF ToSet
<1>3. FileOrder \in Surjection(1..n, File)
  BY <1>1, <1>2 DEF Surjection
<1>4. IsFiniteSet(File)
  BY <1>1, <1>3, FS_Interval, FS_Surjection
<1> QED
  BY <1>4, FS_Subset DEF Indexed

-----------------------------------------------------------------------------
(* The index is complete and well typed.                                   *)

LEMMA EdgesTyped ==
  ASSUME NEW s \in Sha, NEW files \in SUBSET RowsAt(s, File), NEW roots
  PROVE  BuildEdges(files, s, roots) \subseteq Edge
<1> SUFFICES ASSUME NEW f \in files, NEW e \in EdgesOf(f, s, roots) PROVE e \in Edge
  BY DEF BuildEdges
<1>1. f \in File /\ TreeOf[s][f] # None
  BY DEF RowsAt
<1>2. TreeOf[s][f] \in Content
  BY <1>1, TreeType
<1> DEFINE statements == ImportsIn[TreeOf[s][f]]
<1>3. statements \in Seq(Statement)
  BY <1>2, GraphAssumption
<1>4. PICK i \in DOMAIN statements :
        e = [src |-> f, at |-> i, dst |-> Resolve(statements[i], f, roots, Disk(s))]
  BY DEF EdgesOf
<1>5. i \in Nat
  BY <1>3
<1>6. Resolve(statements[i], f, roots, Disk(s)) \in File \cup {None}
  BY ResolvesTo DEF Disk
<1> QED
  BY <1>1, <1>4, <1>5, <1>6 DEF Edge

\* No indexable file of the indexed commit is missing.
IndexFull ==
  repoHead # None =>
    \A f \in Indexable : TreeOf[repoHead][f] # None => f \in Indexed

\* A row holds what the commit it names has.
RowsRead == \A f \in Indexed : TreeOf[table[f].sha][f] = table[f].content

\* While steady, every row was resolved among the files there are now.
RowsSteady ==
  steady =>
    repoHead \in Sha /\ \A f \in Indexed : Disk(table[f].sha) = Disk(repoHead)

GraphRead == GraphTypeOK /\ IndexFull /\ RowsRead /\ RowsSteady

LEMMA GraphReadInit == GraphInit => GraphRead
BY DEF GraphInit, GraphRead, GraphTypeOK, IndexFull, RowsRead, RowsSteady, Indexed

LEMMA FullReads ==
  ASSUME GraphOK, GraphOK', GraphRead, FullIndex
  PROVE  GraphRead'
<1> DEFINE parsed == RowsAt(head, File)
<1>1. PICK roots \in RootsAt[head] : edges' = BuildEdges(parsed, head, roots)
  BY DEF FullIndex
<1>2. table' = Parse(parsed, head) /\ repoHead' = head /\ steady'
  BY DEF FullIndex
<1>3. \A f \in parsed : table'[f] \in Row
  BY <1>2, ParseMeaning
<1>4. \A f \in parsed : f \in File /\ table'[f] # None
  BY <1>3, RowNotNone DEF RowsAt
<1>5. edges' \subseteq Edge
  BY <1>1, EdgesTyped DEF GraphOK
<1>6. IndexFull'
  BY <1>2, <1>4, GraphAssumption DEF IndexFull, Indexed, RowsAt
<1>7. steady' \in BOOLEAN
  BY DEF FullIndex
<1>8. GraphTypeOK'
  BY <1>5, <1>7 DEF GraphOK, GraphTypeOK
<1>9. RowsRead' /\ RowsSteady'
  <2> SUFFICES ASSUME NEW f \in File, table'[f] # None
               PROVE  /\ TreeOf[table'[f].sha][f] = table'[f].content
                      /\ table'[f].sha = head
    BY <1>2 DEF RowsRead, RowsSteady, Indexed, GraphOK
  <2>1. f \in parsed
    <3>1. f \notin parsed => table'[f] = IF TreeOf[head][f] = None THEN None ELSE table[f]
      BY <1>2, ParseMeaning
    <3>2. f \in Indexable => f \in parsed \/ TreeOf[head][f] = None
      BY DEF RowsAt
    <3>3. f \notin Indexable => table[f] = None
      BY DEF GraphOK, Indexed
    <3> QED
      BY <3>1, <3>2, <3>3
  <2> QED
    BY <1>2, <2>1, ParseMeaning
<1> QED
  BY <1>6, <1>8, <1>9 DEF GraphRead

LEMMA IncrementalReads ==
  ASSUME GraphOK, GraphOK', GraphRead, IncrementalIndex
  PROVE  GraphRead'
<1> DEFINE changed == ChangedFiles(repoHead, head)
           parsed == RowsAt(head, changed)
<1>1. PICK roots \in RootsAt[head] :
        edges' = {e \in edges : e.src \notin Replaced(changed)}
                   \cup BuildEdges(parsed, head, roots)
  BY DEF IncrementalIndex
<1>2. /\ table' = Parse(parsed, head) /\ repoHead' = head /\ repoHead # None
      /\ steady' = (steady /\ Disk(head) = Disk(repoHead))
  BY DEF IncrementalIndex
<1>3. /\ \A f \in parsed : table'[f] \in Row
      /\ \A f \in File \ parsed :
           table'[f] = IF TreeOf[head][f] = None THEN None ELSE table[f]
  BY <1>2, ParseMeaning DEF ChangedFiles
<1>4. \A f \in parsed : f \in File /\ table'[f] # None
  BY <1>3, RowNotNone DEF RowsAt, ChangedFiles
<1>5. edges' \subseteq Edge
  <2>1. parsed \in SUBSET RowsAt(head, File)
    BY DEF RowsAt, ChangedFiles
  <2>2. BuildEdges(parsed, head, roots) \subseteq Edge
    BY <2>1, EdgesTyped DEF GraphOK
  <2> QED
    BY <1>1, <2>2 DEF GraphRead, GraphTypeOK
<1>6. IndexFull'
  <2> SUFFICES ASSUME NEW f \in Indexable, TreeOf[head][f] # None PROVE table'[f] # None
    BY <1>2, GraphAssumption DEF IndexFull, Indexed
  <2>1. f \in File
    BY GraphAssumption
  <2>2. CASE f \in parsed
    BY <1>4, <2>2
  <2>3. CASE f \notin parsed
    <3>1. TreeOf[repoHead][f] = TreeOf[head][f]
      BY <2>1, <2>3 DEF RowsAt, ChangedFiles
    <3>2. f \in Indexed
      BY <1>2, <3>1 DEF GraphRead, IndexFull
    <3> QED
      BY <1>3, <2>1, <2>3, <3>2 DEF Indexed
  <2> QED
    BY <2>2, <2>3
<1>7. steady' \in BOOLEAN
  BY <1>2 DEF GraphRead, GraphTypeOK
<1>8. GraphTypeOK'
  BY <1>5, <1>7 DEF GraphOK, GraphTypeOK
<1>9. RowsRead'
  <2> SUFFICES ASSUME NEW f \in File, table'[f] # None
               PROVE  TreeOf[table'[f].sha][f] = table'[f].content
    BY DEF RowsRead, Indexed
  <2>1. CASE f \in parsed
    <3>1. changed \in SUBSET File
      BY DEF ChangedFiles
    <3> HIDE DEF changed
    <3> QED
      BY <1>2, <2>1, <3>1, ParseMeaning
  <2>2. CASE f \notin parsed
    BY <1>3, <2>2 DEF GraphRead, RowsRead, Indexed
  <2> QED
    BY <2>1, <2>2
<1>10. RowsSteady'
  <2> SUFFICES ASSUME steady', NEW f \in File, table'[f] # None
               PROVE  Disk(table'[f].sha) = Disk(head)
    BY <1>2 DEF RowsSteady, Indexed, GraphOK
  <2>1. CASE f \in parsed
    <3>1. changed \in SUBSET File
      BY DEF ChangedFiles
    <3> HIDE DEF changed
    <3>2. table'[f].sha = head
      BY <1>2, <2>1, <3>1, ParseMeaning
    <3> QED
      BY <3>2
  <2>2. CASE f \notin parsed
    <3>1. table'[f] = table[f] /\ f \in Indexed
      BY <1>3, <2>2 DEF Indexed
    <3> QED
      BY <1>2, <3>1 DEF GraphRead, RowsSteady
  <2> QED
    BY <2>1, <2>2
<1> QED
  BY <1>6, <1>8, <1>9, <1>10 DEF GraphRead

LEMMA GraphReadStill ==
  ASSUME GraphRead, UNCHANGED graphVars
  PROVE  GraphRead'
BY DEF GraphRead, GraphTypeOK, IndexFull, RowsRead, RowsSteady, Indexed, graphVars
-----------------------------------------------------------------------------
(* What the GitHub API lists.                                              *)

LEMMA ListedFiles ==
  ASSUME NEW h \in PrCommit
  PROVE  /\ PrFiles[h] \in Seq(File)
         /\ \A f \in File : f \in ToSet(PrFiles[h]) <=> HeadTree[h][f] # TreeOf[BaseOf[h]][f]
<1> DEFINE ks == {i \in DOMAIN FileOrder :
                    HeadTree[h][FileOrder[i]] # TreeOf[BaseOf[h]][FileOrder[i]]}
<1>1. FileOrder \in Seq(File) /\ ToSet(FileOrder) = File
  BY AgentAssumption
<1>2. PrFiles[h] = KeptAt(FileOrder, ks)
  BY DEF PrFiles
<1>3. ks \in SUBSET DOMAIN FileOrder
  OBVIOUS
<1> HIDE DEF ks
<1>4. /\ KeptAt(FileOrder, ks) \in Seq(File)
      /\ \A n \in DOMAIN KeptAt(FileOrder, ks) :
           \E i \in ks : KeptAt(FileOrder, ks)[n] = FileOrder[i]
      /\ \A i \in ks : \E n \in DOMAIN KeptAt(FileOrder, ks) :
           KeptAt(FileOrder, ks)[n] = FileOrder[i]
  BY <1>1, <1>3, KeptAtIs
<1>5. ToSet(PrFiles[h]) = {FileOrder[i] : i \in ks}
  BY <1>2, <1>4 DEF ToSet
<1>6. \A f \in File : \E i \in DOMAIN FileOrder : FileOrder[i] = f
  BY <1>1 DEF ToSet
<1>7. \A f \in File : f \in {FileOrder[i] : i \in ks} <=>
                      HeadTree[h][f] # TreeOf[BaseOf[h]][f]
  BY <1>6 DEF ks
<1> QED
  BY <1>2, <1>4, <1>5, <1>7

LEMMA HunkType ==
  ASSUME NEW f \in File, NEW h \in PrCommit
  PROVE  /\ Hunk(f, h) \in Listed
         /\ Hunk(f, h).file = f /\ Hunk(f, h).of = h
<1>1. TreeOf[BaseOf[h]][f] \in Content \cup {None} /\ HeadTree[h][f] \in Content \cup {None}
  BY AgentAssumption, TreeType
<1>2. /\ PatchOf[<<TreeOf[BaseOf[h]][f], HeadTree[h][f]>>] \in Seq(LineRange)
      /\ AddedIn[<<TreeOf[BaseOf[h]][f], HeadTree[h][f]>>] \in Nat
  BY <1>1, PatchAssumption
<1> QED
  BY <1>2 DEF Hunk, Listed

-----------------------------------------------------------------------------
(* What a job has read.                                                    *)

AsListed(hunks) == \A i \in DOMAIN hunks : hunks[i] = Hunk(hunks[i].file, hunks[i].of)

OfHead(j) ==
  \A i \in DOMAIN j.hunks : j.hunks[i].of = j.sha /\ j.hunks[i].file \in ToSet(PrFiles[j.sha])

FirstFiles(hunks, files, n) ==
  /\ n \in Nat /\ n <= Len(files) /\ Len(hunks) = n
  /\ \A i \in 1..n : hunks[i].file = files[i]

\* While the head of the pull request stays put, the pages that were read are
\* the first ones of its files; heads is what GitHub has.
PagesRead(j, heads) ==
  /\ j.sha = heads[j.target]
  /\ FirstFiles(j.hunks, PrFiles[j.sha], (j.page - 1) * PageSize)

ReadOK(j, heads) ==
  /\ j.sha = None => j.hunks = <<>>
  /\ AsListed(j.hunks)
  /\ ~j.moved => OfHead(j)
  /\ j.pc \in {"resolve", "pr"} => j.page = 1
  /\ j.pc = "files" /\ ~j.moved => PagesRead(j, heads)
  /\ j.pc \in {"skip", "analyze"} /\ j.kind = "review" /\ ~j.moved =>
       FirstFiles(j.hunks, PrFiles[j.sha], Len(PrFiles[j.sha]))
  /\ \A i \in DOMAIN j.found : j.found[i].line > 0
  /\ j.pc = "post" => \E c \in 0..100 : j.conf = Blended(Len(j.found), Len(j.kept), c)

\* A record that fits process p.
Fits(p, j, heads) == j \in Job /\ JobShape(p, j) /\ ReadOK(j, heads)

JobsRead == job \in [Process -> Job] /\ \A p \in Process : Fits(p, job[p], prHead)

\* Whoever is called for a pull request finds it on GitHub.
Callers == pending \cup {q.target : q \in queue} \cup {job[p].target : p \in Process}
CallersFind == \A pr \in PR : pr \in Callers => prHead[pr] # None

Books ==
  /\ prHead \in [PR -> Heads]
  /\ pending \subseteq PR \cup Issue
  /\ queue \subseteq Asked
  /\ ended \subseteq PR \cup Issue
  /\ rows \subseteq ReviewRow
  /\ mode \in Modes
  /\ reviews \in [PrCommit -> Nat] /\ unrecorded \in [PrCommit -> Nat]
  /\ excused \subseteq PR
  /\ budget \in [EventKinds -> Nat]

ReadsInv ==
  GraphRead /\ Books /\ JobsRead /\ CallersFind /\ EvidenceNamesWhatWasRead

LEMMA TypesOfReads == ReadsInv => TypeOK
BY DEF ReadsInv, GraphRead, Books, JobsRead, Fits, TypeOK

LEMMA IdleFields ==
  /\ Idle.kind = "none" /\ Idle.target = None /\ Idle.pc = "idle" /\ Idle.tries = 0
  /\ Idle.sha = None /\ Idle.page = 1 /\ Idle.hunks = <<>> /\ Idle.moved = FALSE
  /\ Idle.picked = {} /\ Idle.found = <<>> /\ Idle.kept = <<>> /\ Idle.conf = 0
  /\ Idle.text = None /\ Idle.posted = FALSE
BY DEF Idle

LEMMA IdleFits == \A p, heads : Fits(p, Idle, heads)
<1>1. Idle \in Job
  <2>1. 0 \in 0..(MaxTries - 1)
    BY AgentAssumption
  <2> QED
    BY <2>1 DEF Idle, Job, PC, Heads
<1>2. \A p : JobShape(p, Idle)
  BY IdleFields, AgentAssumption DEF JobShape
<1>3. \A heads : ReadOK(Idle, heads)
  BY IdleFields DEF ReadOK, AsListed, OfHead
<1> QED
  BY <1>1, <1>2, <1>3 DEF Fits

LEMMA JobFits ==
  ASSUME JobsRead, NEW p \in Process
  PROVE  job[p] \in Job /\ JobShape(p, job[p]) /\ ReadOK(job[p], prHead)
BY DEF JobsRead, Fits

\* One process changes what it does.
LEMMA OneChanges ==
  ASSUME JobsRead, NEW p \in Process, NEW j, Fits(p, j, prHead),
         job' = [job EXCEPT ![p] = j], prHead' = prHead
  PROVE  /\ JobsRead'
         /\ job'[p] = j /\ \A q \in Process \ {p} : job'[q] = job[q]
<1>1. job'[p] = j /\ \A q \in Process \ {p} : job'[q] = job[q]
  BY DEF JobsRead
<1>2. job' \in [Process -> Job]
  BY DEF JobsRead, Fits
<1>3. \A q \in Process : Fits(q, job'[q], prHead)
  BY <1>1 DEF JobsRead
<1> QED
  BY <1>1, <1>2, <1>3 DEF JobsRead

LEMMA NobodyNew ==
  ASSUME CallersFind, prHead' = prHead,
         \A pr \in PR : pr \in Callers' => pr \in Callers \/ prHead[pr] # None
  PROVE  CallersFind'
BY DEF CallersFind
\* A process goes on with its target, and nothing it shares with others moves.
LEMMA LocalRead ==
  ASSUME ReadsInv, Local, NEW p \in Process, NEW j, Fits(p, j, prHead),
         job' = [job EXCEPT ![p] = j], j.target \in {job[p].target, None},
         ended' \subseteq PR \cup Issue, excused' \subseteq PR
  PROVE  ReadsInv'
<1>1. UNCHANGED <<graphVars, prHead, pending, queue, rows, mode, reviews, unrecorded, budget>>
  BY DEF Local
<1>2. /\ JobsRead' /\ job'[p] = j
      /\ \A q \in Process \ {p} : job'[q] = job[q]
  BY <1>1, OneChanges DEF ReadsInv
<1>3. GraphRead'
  BY <1>1, GraphReadStill DEF ReadsInv
<1>4. Books'
  BY <1>1 DEF ReadsInv, Books
<1>5. CallersFind'
  <2>1. \A pr \in PR : pr \in Callers' => pr \in Callers
    BY <1>1, <1>2, AgentAssumption DEF Callers
  <2> QED
    BY <1>1, <2>1, NobodyNew DEF ReadsInv
<1>6. EvidenceNamesWhatWasRead'
  BY <1>1 DEF ReadsInv, EvidenceNamesWhatWasRead
<1> QED
  BY <1>2, <1>3, <1>4, <1>5, <1>6 DEF ReadsInv

LEMMA GoesOnReading ==
  ASSUME ReadsInv, Local, NEW p \in Process, NEW j, Fits(p, j, prHead),
         Becomes(p, j), UNCHANGED excused, j.target = job[p].target
  PROVE  ReadsInv'
<1>1. job' = [job EXCEPT ![p] = j] /\ ended' = ended
  BY DEF Becomes
<1>2. ended' \subseteq PR \cup Issue /\ excused' \subseteq PR
  BY <1>1 DEF ReadsInv, Books
<1> QED
  BY <1>1, <1>2, LocalRead

\* A job that ends had a target.
LEMMA TargetOf ==
  ASSUME JobsRead, NEW p \in Process, job[p] # Idle
  PROVE  /\ job[p].kind \in {"review", "onboard"}
         /\ job[p].target \in PR \cup Issue
         /\ job[p].kind = "review" => job[p].target \in PR
BY JobFits DEF JobShape, Job

LEMMA EndsTyped ==
  ASSUME Books, JobsRead, NEW p \in Process, job[p] # Idle
  PROVE  /\ Ends(p) => /\ ended' \subseteq PR \cup Issue
                       /\ job' = [job EXCEPT ![p] = Idle]
         /\ EndsWithout(p) => /\ ended' \subseteq PR \cup Issue
                              /\ excused' \subseteq PR
                              /\ job' = [job EXCEPT ![p] = Idle]
BY TargetOf DEF Ends, EndsWithout, Books

LEMMA EndsReading ==
  ASSUME ReadsInv, Local, NEW p \in Process, job[p] # Idle,
         EndsWithout(p) \/ (Ends(p) /\ UNCHANGED excused)
  PROVE  ReadsInv'
<1>1. /\ ended' \subseteq PR \cup Issue /\ excused' \subseteq PR
      /\ job' = [job EXCEPT ![p] = Idle]
  BY EndsTyped DEF ReadsInv, Books
<1> QED
  BY <1>1, IdleFits, IdleFields, LocalRead

\* A step that changes at most pc of what JobShape and ReadOK look at.
LEMMA ResolveReads ==
  ASSUME ReadsInv, NEW p \in Process, ResolveRepo(p)
  PROVE  ReadsInv'
<1> DEFINE w == job[p]
           j == [w EXCEPT !.pc = IF w.kind = "review" THEN "pr" ELSE "analyze"]
<1>0. w \in Job /\ JobShape(p, w) /\ ReadOK(w, prHead) /\ w.pc = "resolve" /\ Local
  BY JobFits DEF ReadsInv, ResolveRepo
<1>1. w # Idle
  BY <1>0, IdleFields
<1>2. CASE EndsWithout(p)
  BY <1>0, <1>1, <1>2, EndsReading
<1>3. CASE Becomes(p, j) /\ UNCHANGED excused
  <2>1. /\ j \in Job /\ j.kind = w.kind /\ j.target = w.target /\ j.sha = w.sha
        /\ j.page = w.page /\ j.hunks = w.hunks /\ j.moved = w.moved /\ j.found = w.found
        /\ j.posted = w.posted /\ j.text = w.text
        /\ j.pc = IF w.kind = "review" THEN "pr" ELSE "analyze"
    BY <1>0 DEF Job, PC
  <2> HIDE DEF j
  <2>2. JobShape(p, j)
    BY <1>0, <1>1, <2>1, IdleFields DEF JobShape
  <2>3. ReadOK(j, prHead)
    BY <1>0, <2>1 DEF ReadOK, OfHead, JobShape
  <2> QED
    BY <1>0, <1>3, <2>1, <2>2, <2>3, GoesOnReading DEF Fits
<1> QED
  BY <1>2, <1>3 DEF ResolveRepo

LEMMA ReadPrReads ==
  ASSUME ReadsInv, NEW p \in Process, ReadPr(p)
  PROVE  ReadsInv'
<1> DEFINE w == job[p]
           j == [w EXCEPT !.sha = prHead[w.target], !.pc = "files"]
<1>0. w \in Job /\ JobShape(p, w) /\ ReadOK(w, prHead) /\ w.pc = "pr" /\ Local
  BY JobFits DEF ReadsInv, ReadPr
<1>1. w.kind = "review" /\ w.target \in PR /\ w.sha = None
  BY <1>0 DEF JobShape, Job, Heads
<1>2. prHead[w.target] \in PrCommit
  <2>1. w.target \in Callers
    BY DEF Callers
  <2> QED
    BY <1>1, <2>1 DEF ReadsInv, CallersFind, Books, Heads
<1>3. /\ j \in Job /\ j.kind = w.kind /\ j.target = w.target /\ j.sha = prHead[w.target]
      /\ j.page = w.page /\ j.hunks = w.hunks /\ j.moved = w.moved /\ j.found = w.found
      /\ j.posted = w.posted /\ j.text = w.text /\ j.pc = "files"
  BY <1>0, <1>2 DEF Job, PC, Heads
<1>4. Becomes(p, j) /\ UNCHANGED excused
  BY DEF ReadPr
<1> HIDE DEF j
<1>5. JobShape(p, j)
  BY <1>0, <1>1, <1>2, <1>3, IdleFields DEF JobShape
<1>6. ReadOK(j, prHead)
  <2>1. j.hunks = <<>> /\ j.page = 1
    BY <1>0, <1>1, <1>3 DEF ReadOK
  <2>2. (j.page - 1) * PageSize = 0
    BY <2>1, AgentAssumption
  <2>3. PrFiles[j.sha] \in Seq(File)
    BY <1>2, <1>3, ListedFiles
  <2>4. PagesRead(j, prHead)
    BY <1>3, <2>1, <2>2, <2>3 DEF PagesRead, FirstFiles
  <2>5. j.sha # None
    BY <1>2, <1>3, AgentAssumption
  <2> QED
    BY <1>0, <1>3, <2>1, <2>4, <2>5 DEF ReadOK, OfHead, AsListed
<1> QED
  BY <1>0, <1>3, <1>4, <1>5, <1>6, GoesOnReading DEF Fits
\* A page of the files s behind the first n, and the hunks it adds.
PageOf(s, n) == SubSeq(s, n + 1, Min({n + PageSize, Len(s)}))
Longer(hunks, batch, h) == hunks \o [i \in DOMAIN batch |-> Hunk(batch[i], h)]

LEMMA PageIs ==
  ASSUME NEW s \in Seq(File), NEW n \in Nat
  PROVE  /\ PageOf(s, n) \in Seq(File)
         /\ \A i \in 1..Len(PageOf(s, n)) : PageOf(s, n)[i] = s[n + i]
         /\ n <= Len(s) =>
              Len(PageOf(s, n)) = IF n + PageSize <= Len(s) THEN PageSize ELSE Len(s) - n
<1> DEFINE m == Min({n + PageSize, Len(s)})
           batch == PageOf(s, n)
<1>1. PageSize \in Nat \ {0} /\ Len(s) \in Nat
  BY AgentAssumption
<1>2. m = IF n + PageSize <= Len(s) THEN n + PageSize ELSE Len(s)
  BY <1>1, MinOfTwo
<1>3. batch = SubSeq(s, n + 1, m)
  BY DEF PageOf
<1> HIDE DEF m, batch
<1>4. m \in Nat /\ m <= Len(s)
  BY <1>1, <1>2
<1>5. \A i \in (n + 1)..m : s[i] \in File
  BY <1>1, <1>4
<1>6. n + 1 \in Int /\ m \in Int
  BY <1>4
<1>7. /\ SubSeq(s, n + 1, m) \in Seq(File)
      /\ Len(SubSeq(s, n + 1, m)) = IF n + 1 <= m THEN m - (n + 1) + 1 ELSE 0
      /\ \A i \in 1..(m - (n + 1) + 1) : SubSeq(s, n + 1, m)[i] = s[(n + 1) + i - 1]
  BY <1>5, <1>6, SubSeqProperties
<1>8. /\ batch \in Seq(File)
      /\ Len(batch) = IF n + 1 <= m THEN m - (n + 1) + 1 ELSE 0
      /\ \A i \in 1..(m - (n + 1) + 1) : batch[i] = s[(n + 1) + i - 1]
  BY <1>3, <1>7, Zenon
<1>9. Len(batch) = IF n < m THEN m - n ELSE 0
  BY <1>4, <1>8
<1>10. \A i \in 1..Len(batch) : batch[i] = s[n + i]
  <2> SUFFICES ASSUME NEW i \in 1..Len(batch) PROVE batch[i] = s[n + i]
    OBVIOUS
  <2>1. i \in 1..(m - (n + 1) + 1) /\ (n + 1) + i - 1 = n + i
    BY <1>4, <1>9
  <2>2. batch[i] = s[(n + 1) + i - 1]
    BY <1>8, <2>1
  <2> QED
    BY <2>1, <2>2
<1>11. n <= Len(s) => Len(batch) = IF n + PageSize <= Len(s) THEN PageSize ELSE Len(s) - n
  BY <1>1, <1>2, <1>9
<1> QED
  BY <1>8, <1>10, <1>11 DEF batch

\* The hunks of a page continue those of the pages before it.
LEMMA PageAppends ==
  ASSUME NEW h \in PrCommit, NEW hunks \in Seq(Listed), NEW batch \in Seq(File),
         AsListed(hunks)
  PROVE  /\ Longer(hunks, batch, h) \in Seq(Listed) /\ AsListed(Longer(hunks, batch, h))
         /\ Len(Longer(hunks, batch, h)) = Len(hunks) + Len(batch)
         /\ \A i \in 1..Len(hunks) : Longer(hunks, batch, h)[i] = hunks[i]
         /\ \A i \in 1..Len(batch) :
              /\ Longer(hunks, batch, h)[Len(hunks) + i].file = batch[i]
              /\ Longer(hunks, batch, h)[Len(hunks) + i].of = h
<1> DEFINE tail == [i \in DOMAIN batch |-> Hunk(batch[i], h)]
           new == Longer(hunks, batch, h)
<1>1. Len(hunks) \in Nat /\ Len(batch) \in Nat /\ DOMAIN batch = 1..Len(batch)
  OBVIOUS
<1>2. \A i \in DOMAIN batch : batch[i] \in File
  OBVIOUS
<1>3. \A i \in DOMAIN batch : /\ Hunk(batch[i], h) \in Listed
                              /\ Hunk(batch[i], h).file = batch[i]
                              /\ Hunk(batch[i], h).of = h
  BY <1>2, HunkType
<1>4. tail \in [1..Len(batch) -> Listed]
  BY <1>1, <1>3
<1>5. tail \in Seq(Listed) /\ Len(tail) = Len(batch)
  BY <1>1, <1>4
<1>6. \A i \in 1..Len(batch) : tail[i] = Hunk(batch[i], h)
  BY <1>1
<1>7. new = hunks \o tail
  BY DEF Longer
<1> HIDE DEF tail, new
<1>8. new \in Seq(Listed) /\ Len(new) = Len(hunks) + Len(batch)
  <2>1. hunks \o tail \in Seq(Listed) /\ Len(hunks \o tail) = Len(hunks) + Len(tail)
    BY <1>5, ConcatProperties
  <2> QED
    BY <1>5, <1>7, <2>1, Zenon
<1>9. \A i \in 1..Len(hunks) : new[i] = hunks[i]
  BY <1>5, <1>7
<1>10. \A i \in 1..Len(batch) : new[Len(hunks) + i] = tail[i]
  BY <1>1, <1>5, <1>7
<1>11. \A i \in 1..Len(batch) : /\ new[Len(hunks) + i].file = batch[i]
                                /\ new[Len(hunks) + i].of = h
                                /\ new[Len(hunks) + i] = Hunk(batch[i], h)
  BY <1>1, <1>3, <1>6, <1>10
<1>12. AsListed(new)
  <2> SUFFICES ASSUME NEW i \in DOMAIN new PROVE new[i] = Hunk(new[i].file, new[i].of)
    BY DEF AsListed
  <2>1. i \in 1..(Len(hunks) + Len(batch))
    BY <1>8
  <2>2. CASE i <= Len(hunks)
    <3>1. i \in 1..Len(hunks) /\ i \in DOMAIN hunks
      BY <1>1, <2>1, <2>2
    <3>2. hunks[i] = Hunk(hunks[i].file, hunks[i].of)
      BY <3>1 DEF AsListed
    <3> QED
      BY <1>9, <3>1, <3>2
  <2>3. CASE i > Len(hunks)
    <3>1. i - Len(hunks) \in 1..Len(batch) /\ Len(hunks) + (i - Len(hunks)) = i
      BY <1>1, <2>1, <2>3
    <3> QED
      BY <1>11, <3>1
  <2> QED
    BY <1>1, <2>1, <2>2, <2>3
<1> QED
  BY <1>8, <1>9, <1>11, <1>12 DEF new

\* new is old, the hunks of the first n files of s, with those of one more page.
Continued(s, h, n, old, batch, new) ==
  /\ s \in Seq(File) /\ batch \in Seq(File) /\ old \in Seq(Listed) /\ new \in Seq(Listed)
  /\ FirstFiles(old, s, n)
  /\ \A i \in DOMAIN old : old[i].of = h
  /\ \A i \in 1..Len(batch) : batch[i] = s[n + i]
  /\ Len(batch) = IF n + PageSize <= Len(s) THEN PageSize ELSE Len(s) - n
  /\ Len(new) = Len(old) + Len(batch)
  /\ \A i \in 1..Len(old) : new[i] = old[i]
  /\ \A i \in 1..Len(batch) : new[Len(old) + i].file = batch[i] /\ new[Len(old) + i].of = h

LEMMA FilesRead ==
  ASSUME NEW s, NEW h, NEW n, NEW old, NEW batch, NEW new,
         Continued(s, h, n, old, batch, new)
  PROVE  /\ FirstFiles(new, s, n + Len(batch))
         /\ \A i \in DOMAIN new : new[i].of = h /\ new[i].file \in ToSet(s)
         /\ IF IsLastPage(batch) THEN n + Len(batch) = Len(s) ELSE Len(batch) = PageSize
<1> USE DEF Continued
<1>1. n \in Nat /\ n <= Len(s) /\ Len(s) \in Nat
  BY DEF FirstFiles
<1>2. PageSize \in Nat \ {0}
  BY AgentAssumption
<1>3. Len(old) = n /\ \A i \in 1..n : old[i].file = s[i]
  BY DEF FirstFiles
<1>4. DOMAIN old = 1..n /\ DOMAIN new = 1..(n + Len(batch)) /\ Len(batch) \in Nat
  BY <1>1, <1>3
<1>5. IF IsLastPage(batch) THEN n + Len(batch) = Len(s) ELSE Len(batch) = PageSize
  BY <1>1, <1>2, <1>4 DEF IsLastPage
<1>6. n + Len(batch) \in Nat /\ n + Len(batch) <= Len(s)
  BY <1>1, <1>2, <1>4
<1>7. \A i \in 1..(n + Len(batch)) : new[i].file = s[i] /\ new[i].of = h
  <2> TAKE i \in 1..(n + Len(batch))
  <2>1. CASE i <= n
    <3>1. i \in 1..n
      BY <1>1, <2>1
    <3> QED
      BY <1>3, <1>4, <3>1
  <2>2. CASE i > n
    <3>1. i - n \in 1..Len(batch) /\ n + (i - n) = i
      BY <1>1, <1>4, <2>2
    <3> QED
      BY <1>3, <3>1
  <2> QED
    BY <1>1, <2>1, <2>2
<1>8. \A i \in DOMAIN new : new[i].of = h /\ new[i].file \in ToSet(s)
  <2> SUFFICES ASSUME NEW i \in DOMAIN new
               PROVE  new[i].of = h /\ new[i].file \in ToSet(s)
    OBVIOUS
  <2>1. i \in DOMAIN s
    BY <1>1, <1>4, <1>6
  <2> QED
    BY <1>4, <1>7, <2>1 DEF ToSet
<1>9. FirstFiles(new, s, n + Len(batch))
  BY <1>3, <1>6, <1>7 DEF FirstFiles
<1> QED
  BY <1>5, <1>8, <1>9

LEMMA NextPage ==
  ASSUME NEW k \in Nat \ {0}
  PROVE  /\ (k - 1) * PageSize \in Nat
         /\ ((k + 1) - 1) * PageSize = (k - 1) * PageSize + PageSize
<1> PageSize \in Nat
  BY AgentAssumption
<1>1. (k + 1) - 1 = (k - 1) + 1 /\ k - 1 \in Nat
  OBVIOUS
<1>2. \A m \in Nat : (m + 1) * PageSize = m * PageSize + PageSize /\ m * PageSize \in Nat
  OBVIOUS
<1> QED
  BY <1>1, <1>2

LEMMA ReadFilesReads ==
  ASSUME ReadsInv, NEW p \in Process, ReadFiles(p)
  PROVE  ReadsInv'
<1> DEFINE w == job[p]
           h == prHead[w.target]
           s == PrFiles[h]
           n == (w.page - 1) * PageSize
           batch == PageOf(s, n)
           new == Longer(w.hunks, batch, h)
           next == IF p = Worker THEN "skip" ELSE "analyze"
           last == [w EXCEPT !.hunks = new, !.page = 1,
                             !.pc = next]
           more == [w EXCEPT !.hunks = new, !.page = @ + 1]
           j == IF IsLastPage(batch) THEN last ELSE more
<1>0. w \in Job /\ JobShape(p, w) /\ ReadOK(w, prHead) /\ w.pc = "files" /\ Local
  BY JobFits DEF ReadsInv, ReadFiles
<1>1. w.kind = "review" /\ w.target \in PR /\ w.sha \in PrCommit
  BY <1>0 DEF JobShape
<1>2. h \in PrCommit
  <2>1. w.target \in Callers
    BY DEF Callers
  <2> QED
    BY <1>1, <2>1 DEF ReadsInv, CallersFind, Books, Heads
<1>3. Becomes(p, j) /\ UNCHANGED excused
  BY DEF ReadFiles, PageOf, Longer
<1> next \in {"skip", "analyze"}
  OBVIOUS
<1> HIDE DEF next
<1>4. s \in Seq(File)
  BY <1>2, ListedFiles
<1>5. w.page \in Nat \ {0} /\ w.hunks \in Seq(Listed) /\ AsListed(w.hunks)
  BY <1>0 DEF Job, ReadOK
<1>6. n \in Nat /\ ((w.page + 1) - 1) * PageSize = n + PageSize
  BY <1>5, NextPage
<1> HIDE DEF s, n, h
<1>7. /\ batch \in Seq(File)
      /\ \A i \in 1..Len(batch) : batch[i] = s[n + i]
      /\ n <= Len(s) =>
           Len(batch) = IF n + PageSize <= Len(s) THEN PageSize ELSE Len(s) - n
  BY <1>4, <1>6, PageIs
<1> HIDE DEF batch
<1>8. /\ new \in Seq(Listed) /\ AsListed(new)
      /\ Len(new) = Len(w.hunks) + Len(batch)
      /\ \A i \in 1..Len(w.hunks) : new[i] = w.hunks[i]
      /\ \A i \in 1..Len(batch) : /\ new[Len(w.hunks) + i].file = batch[i]
                                  /\ new[Len(w.hunks) + i].of = h
  BY <1>2, <1>5, <1>7, PageAppends
<1> HIDE DEF new
<1>9. ~w.moved =>
        /\ w.sha = h
        /\ FirstFiles(new, s, n + Len(batch))
        /\ \A i \in DOMAIN new : new[i].of = h /\ new[i].file \in ToSet(s)
        /\ IF IsLastPage(batch) THEN n + Len(batch) = Len(s) ELSE Len(batch) = PageSize
  <2> SUFFICES ASSUME ~w.moved
               PROVE  /\ w.sha = h
                      /\ FirstFiles(new, s, n + Len(batch))
                      /\ \A i \in DOMAIN new : new[i].of = h /\ new[i].file \in ToSet(s)
                      /\ IF IsLastPage(batch) THEN n + Len(batch) = Len(s)
                                              ELSE Len(batch) = PageSize
    OBVIOUS
  <2>1. PagesRead(w, prHead) /\ OfHead(w)
    BY <1>0 DEF ReadOK
  <2>2. w.sha = h /\ FirstFiles(w.hunks, s, n)
    BY <2>1 DEF PagesRead, h, s, n
  <2>3. \A i \in DOMAIN w.hunks : w.hunks[i].of = h
    BY <2>1, <2>2 DEF OfHead
  <2>4. n <= Len(s)
    BY <2>2 DEF FirstFiles
  <2> DEFINE old == w.hunks
  <2>5. Continued(s, h, n, old, batch, new)
    BY <1>4, <1>5, <1>7, <1>8, <2>2, <2>3, <2>4 DEF Continued
  <2> HIDE DEF old, w
  <2>6. /\ FirstFiles(new, s, n + Len(batch))
        /\ \A i \in DOMAIN new : new[i].of = h /\ new[i].file \in ToSet(s)
        /\ IF IsLastPage(batch) THEN n + Len(batch) = Len(s) ELSE Len(batch) = PageSize
    BY <2>5, FilesRead
  <2> QED
    BY <2>2, <2>6
<1>10. CASE IsLastPage(batch)
  <2>1. /\ last \in Job /\ last.kind = w.kind /\ last.target = w.target /\ last.sha = w.sha
        /\ last.page = 1 /\ last.hunks = new /\ last.moved = w.moved /\ last.found = w.found
        /\ last.posted = w.posted /\ last.text = w.text
        /\ last.pc \in {"skip", "analyze"}
    <3>1. next \in PC /\ 1 \in Nat \ {0}
      BY DEF PC
    <3> QED
      BY <1>0, <1>8, <3>1 DEF Job
  <2>2. j = last
    BY <1>10
  <2> HIDE DEF last, j
  <2>3. JobShape(p, last)
    BY <1>0, <1>1, <2>1, IdleFields DEF JobShape
  <2>4. ~w.moved => OfHead(last) /\ FirstFiles(last.hunks, PrFiles[last.sha], Len(PrFiles[last.sha]))
    BY <1>9, <1>10, <2>1 DEF OfHead, s
  <2>5. ReadOK(last, prHead)
    <3>1. last.sha # None /\ last.pc \notin {"resolve", "pr", "files", "post"}
      BY <1>1, <2>1, AgentAssumption
    <3>2. AsListed(last.hunks)
      BY <1>8, <2>1
    <3> QED
      BY <1>0, <2>1, <2>4, <3>1, <3>2 DEF ReadOK
  <2> QED
    BY <1>0, <1>3, <2>1, <2>2, <2>3, <2>5, GoesOnReading DEF Fits
<1>11. CASE ~IsLastPage(batch)
  <2>1. /\ more \in Job /\ more.kind = w.kind /\ more.target = w.target /\ more.sha = w.sha
        /\ more.page = w.page + 1 /\ more.hunks = new /\ more.moved = w.moved
        /\ more.found = w.found /\ more.posted = w.posted /\ more.text = w.text
        /\ more.pc = "files"
    <3>1. w.page + 1 \in Nat \ {0}
      BY <1>5
    <3> QED
      BY <1>0, <1>8, <3>1 DEF Job
  <2>2. j = more
    BY <1>11
  <2> HIDE DEF more, j
  <2>3. JobShape(p, more)
    BY <1>0, <1>1, <2>1, IdleFields DEF JobShape
  <2>4. ~w.moved => OfHead(more) /\ PagesRead(more, prHead)
    BY <1>6, <1>9, <1>11, <2>1 DEF OfHead, PagesRead, s, h
  <2>5. ReadOK(more, prHead)
    BY <1>0, <1>1, <1>8, <2>1, <2>4, AgentAssumption DEF ReadOK
  <2> QED
    BY <1>0, <1>3, <2>1, <2>2, <2>3, <2>5, GoesOnReading DEF Fits
<1> QED
  BY <1>10, <1>11

LEMMA SkipReads ==
  ASSUME ReadsInv, NEW p \in Process, SkipReviewed(p)
  PROVE  ReadsInv'
<1> DEFINE w == job[p]
           j == [w EXCEPT !.pc = "analyze"]
<1>0. w \in Job /\ JobShape(p, w) /\ ReadOK(w, prHead) /\ w.pc = "skip" /\ Local
  BY JobFits DEF ReadsInv, SkipReviewed
<1>1. w # Idle /\ w.kind = "review"
  BY <1>0, IdleFields DEF JobShape
<1>2. CASE Ends(p) /\ UNCHANGED excused
  BY <1>0, <1>1, <1>2, EndsReading
<1>3. CASE Becomes(p, j) /\ UNCHANGED excused
  <2>1. /\ j \in Job /\ j.kind = w.kind /\ j.target = w.target /\ j.sha = w.sha
        /\ j.page = w.page /\ j.hunks = w.hunks /\ j.moved = w.moved /\ j.found = w.found
        /\ j.posted = w.posted /\ j.text = w.text /\ j.pc = "analyze"
    BY <1>0 DEF Job, PC
  <2> HIDE DEF j
  <2>2. JobShape(p, j)
    BY <1>0, <1>1, <2>1, IdleFields DEF JobShape
  <2>3. ReadOK(j, prHead)
    BY <1>0, <1>1, <2>1 DEF ReadOK, OfHead
  <2> QED
    BY <1>0, <1>3, <2>1, <2>2, <2>3, GoesOnReading DEF Fits
<1> QED
  BY <1>2, <1>3 DEF SkipReviewed

-----------------------------------------------------------------------------
(* What the recipes do to hunks and findings.                              *)

LEMMA TruncatedIs ==
  ASSUME NEW hunks \in Seq(Listed)
  PROVE  /\ Truncated(hunks) \in Seq(Listed)
         /\ \A n \in DOMAIN Truncated(hunks) :
              \E i \in DOMAIN hunks : Truncated(hunks)[n] = hunks[i]
<1> DEFINE D == DOMAIN hunks
           R == {d \in D \X D : \/ hunks[d[1]].added > hunks[d[2]].added
                                \/ hunks[d[1]].added = hunks[d[2]].added /\ d[1] < d[2]}
           A(i) == {k \in D : \/ hunks[k].added > hunks[i].added
                              \/ hunks[k].added = hunks[i].added /\ k < i}
           At(n) == CHOOSE i \in D : Cardinality(A(i)) = n - 1
           most == [n \in 1..MaxFiles |-> hunks[At(n)]]
<1>1. CASE Len(hunks) <= MaxFiles
  <2>1. Truncated(hunks) = hunks
    BY <1>1 DEF Truncated
  <2> QED
    BY <2>1
<1>2. CASE ~(Len(hunks) <= MaxFiles)
  <2>1. Truncated(hunks) = most
    BY <1>2 DEF Truncated
  <2>2. D = 1..Len(hunks) /\ Len(hunks) \in Nat /\ MaxFiles \in Nat
    BY AgentAssumption
  <2>3. IsFiniteSet(D) /\ Cardinality(D) = Len(hunks)
    BY <2>2, FS_Interval
  <2>4. \A i \in D : hunks[i].added \in Nat
    <3>1. \A i \in DOMAIN hunks : hunks[i] \in Listed
      OBVIOUS
    <3> QED
      BY <3>1 DEF Listed
  <2>5. Ordered(D, R)
    BY <2>2, <2>4 DEF Ordered
  <2>6. \A i \in D : A(i) = Ahead(D, R, i)
    BY DEF Ahead
  <2>7. \A m \in 0..(Cardinality(D) - 1) : \E i \in D : Cardinality(Ahead(D, R, i)) = m
    <3> HIDE DEF D, R
    <3> QED
      BY <2>3, <2>5, OrderRanks
  <2>8. \A n \in 1..MaxFiles : At(n) \in D
    <3> SUFFICES ASSUME NEW n \in 1..MaxFiles PROVE \E i \in D : Cardinality(A(i)) = n - 1
      OBVIOUS
    <3>1. n - 1 \in 0..(Cardinality(D) - 1)
      BY <1>2, <2>2, <2>3
    <3> HIDE DEF D, R, A
    <3> QED
      BY <2>6, <2>7, <3>1
  <2> HIDE DEF At
  <2>9. most \in Seq(Listed) /\ DOMAIN most = 1..MaxFiles
    BY <2>2, <2>8
  <2> QED
    BY <2>1, <2>8, <2>9
<1> QED
  BY <1>1, <1>2

LEMMA CitedIs ==
  ASSUME NEW found \in Seq(Finding)
  PROVE  /\ Cited(found) \in Seq(Finding)
         /\ \A n \in DOMAIN Cited(found) : Cited(found)[n].line > 0
<1> DEFINE ks == {k \in DOMAIN found : found[k].line > 0}
<1>1. ks \in SUBSET DOMAIN found /\ \A k \in ks : found[k].line > 0
  OBVIOUS
<1> HIDE DEF ks
<1>2. /\ KeptAt(found, ks) \in Seq(Finding)
      /\ \A n \in DOMAIN KeptAt(found, ks) : \E i \in ks : KeptAt(found, ks)[n] = found[i]
  BY <1>1, KeptAtIs
<1>3. Cited(found) = KeptAt(found, ks)
  BY DEF Cited, ks
<1> QED
  BY <1>1, <1>2, <1>3

LEMMA VerifiedIs ==
  ASSUME NEW found \in Seq(Finding), NEW hunks
  PROVE  /\ Verified(found, hunks) \in Seq(Finding)
         /\ \A n \in DOMAIN Verified(found, hunks) :
              \E i \in DOMAIN found : /\ Verified(found, hunks)[n] = found[i]
                                      /\ Survives(found[i], hunks)
         /\ \A i \in DOMAIN found : Survives(found[i], hunks) =>
              \E n \in DOMAIN Verified(found, hunks) : Verified(found, hunks)[n] = found[i]
<1> DEFINE ks == {k \in DOMAIN found : Survives(found[k], hunks)}
<1>1. /\ ks \in SUBSET DOMAIN found
      /\ \A k \in DOMAIN found : k \in ks <=> Survives(found[k], hunks)
  OBVIOUS
<1> HIDE DEF ks
<1>2. /\ KeptAt(found, ks) \in Seq(Finding)
      /\ \A n \in DOMAIN KeptAt(found, ks) : \E i \in ks : KeptAt(found, ks)[n] = found[i]
      /\ \A i \in ks : \E n \in DOMAIN KeptAt(found, ks) : KeptAt(found, ks)[n] = found[i]
  BY <1>1, KeptAtIs
<1>3. Verified(found, hunks) = KeptAt(found, ks)
  BY DEF Verified, ks
<1> QED
  BY <1>1, <1>2, <1>3

LEMMA DivisionIs ==
  ASSUME NEW t \in Nat, NEW n \in Nat \ {0}
  PROVE  /\ t \div n \in Nat
         /\ n * (t \div n) <= t
         /\ t < n * (t \div n) + n
OBVIOUS

LEMMA Divided ==
  ASSUME NEW t \in Nat, NEW n \in Nat \ {0}, NEW m \in Nat
  PROVE  /\ t <= n * m => t \div n \in 0..m
         /\ m <= t \div n => n * m <= t
<1> DEFINE q == t \div n
<1>1. q \in Nat /\ n * q <= t /\ t < n * q + n
  BY DivisionIs
<1> HIDE DEF q
<1>2. ASSUME t <= n * m PROVE q <= m
  <2> SUFFICES ASSUME q > m PROVE FALSE
    BY <1>1
  <2>1. PICK d \in Nat : q = m + 1 + d
    <3>1. q - m - 1 \in Nat /\ q = m + 1 + (q - m - 1)
      BY <1>1
    <3> QED
      BY <3>1
  <2>2. n * q = n * m + n + n * d
    BY <2>1
  <2>3. n * d \in Nat /\ n * m \in Nat
    BY <2>1
  <2> QED
    BY <1>1, <1>2, <2>2, <2>3
<1>3. ASSUME m <= q PROVE n * m <= t
  <2>1. PICK d \in Nat : q = m + d
    <3>1. q - m \in Nat /\ q = m + (q - m)
      BY <1>1, <1>3
    <3> QED
      BY <3>1
  <2>2. n * q = n * m + n * d
    BY <2>1
  <2>3. n * d \in Nat /\ n * m \in Nat
    BY <2>1
  <2> QED
    BY <1>1, <2>2, <2>3
<1> QED
  BY <1>1, <1>2, <1>3 DEF q

\* structural_confidence stays a percentage, and falls below the threshold of
\* the comment when too many findings were dropped.
LEMMA BlendedIs ==
  ASSUME NEW original \in Nat, NEW kept \in Nat, NEW c \in 0..100
  PROVE  /\ Blended(original, kept, c) \in 0..100
         /\ Blended(original, kept, c) >= CommentThreshold =>
              100 * kept >= CommentThreshold * original
<1>1. CASE original = 0
  BY <1>1 DEF Blended, CommentThreshold
<1>2. CASE original # 0
  <2> DEFINE t == c * kept
             q == t \div original
  <2>1. t \in Nat /\ t <= 100 * kept
    <3>1. c \in Nat /\ 100 - c \in Nat
      OBVIOUS
    <3>2. 100 * kept = c * kept + (100 - c) * kept
      BY <3>1
    <3>3. c * kept \in Nat /\ (100 - c) * kept \in Nat
      BY <3>1
    <3> QED
      BY <3>2, <3>3
  <2> HIDE DEF t
  <2>2. q \in Nat
    BY <1>2, <2>1, DivisionIs
  <2>3. 30 <= q => original * 30 <= t
    BY <1>2, <2>1, Divided
  <2> HIDE DEF q
  <2>4. Blended(original, kept, c) = Max({10, Min({100, q})})
    BY <1>2 DEF Blended, q, t
  <2>5. Min({100, q}) = IF 100 <= q THEN 100 ELSE q
    BY <2>2, MinOfTwo
  <2> DEFINE least == Min({100, q})
  <2>6. least \in 0..100 /\ (least >= 30 => q >= 30)
    BY <2>2, <2>5
  <2> HIDE DEF least
  <2>7. Max({10, least}) = IF 10 >= least THEN 10 ELSE least
    BY <2>6, MaxOfTwo
  <2>8. Blended(original, kept, c) = IF 10 >= least THEN 10 ELSE least
    BY <2>4, <2>7 DEF least
  <2> QED
    BY <2>1, <2>2, <2>3, <2>6, <2>8 DEF CommentThreshold
<1> QED
  BY <1>1, <1>2

-----------------------------------------------------------------------------
(* The later steps of a job.                                               *)

Settled(j) ==
  /\ j.sha = None => j.hunks = <<>>
  /\ AsListed(j.hunks)
  /\ ~j.moved => OfHead(j)
  /\ \A i \in DOMAIN j.found : j.found[i].line > 0

LEMMA LateReads ==
  ASSUME ReadsInv, Local, NEW p \in Process, NEW j \in Job, Settled(j),
         job[p].pc \in {"analyze", "read", "verify", "group"},
         j.pc \in {"read", "verify", "group", "post"},
         j.kind = job[p].kind, j.target = job[p].target, j.sha = job[p].sha,
         j.posted = job[p].posted,
         j.pc \in {"read", "group"} => j.kind = "onboard",
         j.pc = "post" => /\ j.text \in Texts
                          /\ \E c \in 0..100 : j.conf = Blended(Len(j.found), Len(j.kept), c),
         Becomes(p, j), UNCHANGED excused
  PROVE  ReadsInv'
<1>1. JobShape(p, job[p])
  BY JobFits DEF ReadsInv
<1>2. JobShape(p, j)
  BY <1>1, IdleFields DEF JobShape
<1>3. ReadOK(j, prHead)
  BY DEF ReadOK, Settled
<1> QED
  BY <1>2, <1>3, GoesOnReading DEF Fits

LEMMA SettledNow ==
  ASSUME ReadsInv, NEW p \in Process
  PROVE  Settled(job[p])
BY JobFits DEF ReadsInv, ReadOK, Settled

LEMMA AnalyzeReads ==
  ASSUME ReadsInv, NEW p \in Process, Analyze(p)
  PROVE  ReadsInv'
<1> DEFINE w == job[p]
           few == Truncated(w.hunks)
<1>0. w \in Job /\ w.pc = "analyze" /\ w.kind = "review" /\ Local /\ Settled(w)
  BY JobFits, SettledNow DEF ReadsInv, Analyze
<1>1. w # Idle
  BY <1>0, IdleFields
<1>2. CASE EndsWithout(p)
  BY <1>0, <1>1, <1>2, EndsReading
<1>3. ASSUME NEW reply \in Replies, UNCHANGED excused,
             Becomes(p, [w EXCEPT !.hunks = few, !.found = Cited(reply), !.pc = "verify"])
      PROVE  ReadsInv'
  <2> DEFINE cited == Cited(reply)
             j == [w EXCEPT !.hunks = few, !.found = cited, !.pc = "verify"]
  <2>1. cited \in Seq(Finding) /\ \A n \in DOMAIN cited : cited[n].line > 0
    BY CitedIs, ReplyAssumption
  <2>2. w.hunks \in Seq(Listed)
    BY <1>0 DEF Job
  <2>3. few \in Seq(Listed) /\ \A n \in DOMAIN few : \E i \in DOMAIN w.hunks : few[n] = w.hunks[i]
    BY <2>2, TruncatedIs
  <2>4. "verify" \in PC
    BY DEF PC
  <2>5. Becomes(p, j)
    BY <1>3
  <2> HIDE DEF few, cited
  <2>6. /\ j \in Job /\ j.kind = w.kind /\ j.target = w.target /\ j.sha = w.sha
        /\ j.hunks = few /\ j.moved = w.moved /\ j.found = cited
        /\ j.posted = w.posted /\ j.pc = "verify"
    BY <1>0, <2>1, <2>3, <2>4 DEF Job
  <2> HIDE DEF j
  <2>7. Settled(j)
    <3>1. w.hunks = <<>> => few = <<>>
      <4> SUFFICES ASSUME w.hunks = <<>> PROVE few = <<>>
        OBVIOUS
      <4>1. DOMAIN w.hunks = {}
        OBVIOUS
      <4>2. \A n \in DOMAIN few : FALSE
        BY <2>3, <4>1, Zenon
      <4>3. DOMAIN few = 1..Len(few) /\ Len(few) \in Nat
        BY <2>3, LenProperties
      <4>4. Len(few) > 0 => 1 \in 1..Len(few)
        BY <4>3
      <4>5. ~(1 \in 1..Len(few))
        BY <4>2, <4>3, Zenon
      <4>6. Len(few) = 0
        BY <4>3, <4>4, <4>5
      <4> QED
        BY <2>3, <4>6, EmptySeq
    <3>2. AsListed(few)
      BY <1>0, <2>3 DEF Settled, AsListed
    <3>3. ~w.moved => OfHead(j)
      BY <1>0, <2>3, <2>6 DEF Settled, OfHead
    <3> QED
      BY <1>0, <2>1, <2>6, <3>1, <3>2, <3>3 DEF Settled
  <2> QED
    BY <1>0, <1>3, <2>5, <2>6, <2>7, LateReads
<1> QED
  BY <1>2, <1>3 DEF Analyze

LEMMA VerifyReads ==
  ASSUME ReadsInv, NEW p \in Process, Verify(p)
  PROVE  ReadsInv'
<1> DEFINE w == job[p]
           kept == Verified(w.found, w.hunks)
<1>0. w \in Job /\ w.pc = "verify" /\ w.kind = "review" /\ Local /\ Settled(w)
      /\ UNCHANGED excused
  BY JobFits, SettledNow DEF ReadsInv, Verify
<1>1. PICK c \in Confidences, t \in Texts :
        Becomes(p, [w EXCEPT !.kept = kept, !.text = t, !.pc = "post",
                      !.conf = Blended(Len(w.found), Len(kept), c)])
  BY DEF Verify
<1>2. w.found \in Seq(Finding) /\ c \in 0..100
  BY <1>0, ReplyAssumption DEF Job
<1>3. kept \in Seq(Finding)
  BY <1>2, VerifiedIs
<1> DEFINE conf == Blended(Len(w.found), Len(kept), c)
           j == [w EXCEPT !.kept = kept, !.text = t, !.pc = "post", !.conf = conf]
<1>4. conf \in 0..100
  <2>1. Len(w.found) \in Nat /\ Len(kept) \in Nat
    BY <1>2, <1>3
  <2> QED
    BY <1>2, <2>1, BlendedIs
<1>5. "post" \in PC
  BY DEF PC
<1>6. Becomes(p, j)
  BY <1>1
<1>7. conf = Blended(Len(w.found), Len(kept), c)
  OBVIOUS
<1> HIDE DEF kept, conf
<1>8. /\ j \in Job /\ j.kind = w.kind /\ j.target = w.target /\ j.sha = w.sha
      /\ j.hunks = w.hunks /\ j.moved = w.moved /\ j.found = w.found /\ j.kept = kept
      /\ j.posted = w.posted /\ j.pc = "post" /\ j.text = t /\ j.conf = conf
  BY <1>0, <1>3, <1>4, <1>5 DEF Job
<1> HIDE DEF j
<1>9. Settled(j)
  BY <1>0, <1>8 DEF Settled, OfHead
<1> QED
  BY <1>0, <1>2, <1>6, <1>7, <1>8, <1>9, LateReads

LEMMA PrintReads ==
  ASSUME ReadsInv, NEW p \in Process, PrintOnly(p)
  PROVE  ReadsInv'
BY IdleFields, EndsReading DEF PrintOnly

-----------------------------------------------------------------------------
(* The views.                                                              *)

LEMMA ImageFinite ==
  ASSUME NEW S, IsFiniteSet(S), NEW f, DOMAIN f = S, f = [x \in S |-> f[x]]
  PROVE  /\ IsFiniteSet({f[x] : x \in S})
         /\ Cardinality({f[x] : x \in S}) <= Cardinality(S)
<1> DEFINE T == {f[x] : x \in S}
<1>1. f \in Surjection(S, T)
  BY DEF Surjection
<1> HIDE DEF T
<1>2. IsFiniteSet(T) /\ Cardinality(T) <= Cardinality(S)
  BY <1>1, FS_Surjection
<1> QED
  BY <1>2 DEF T

\* The statements of an indexed file, as its row has them.
LEMMA RowTypes ==
  ASSUME GraphOK, GraphRead, NEW f \in Indexed
  PROVE  /\ f \in File /\ table[f] \in Row
         /\ table[f].sha \in Sha /\ TreeOf[table[f].sha][f] = table[f].content
         /\ TreeOf[table[f].sha][f] \in Content
         /\ TreeOf[repoHead][f] = table[f].content
         /\ ImportsIn[table[f].content] \in Seq(Statement)
<1>1. f \in File /\ table[f] \in Row
  BY DEF Indexed, GraphOK
<1>2. table[f].content \in Content /\ table[f].sha \in Sha
  BY <1>1, RowNotNone
<1>3. /\ TreeOf[table[f].sha][f] = table[f].content
      /\ TreeOf[repoHead][f] = table[f].content
  BY DEF GraphRead, RowsRead, GraphOK, EdgesAreAsOfTheirRow
<1> QED
  BY <1>1, <1>2, <1>3, GraphAssumption

LEMMA EdgesFinite ==
  ASSUME GraphOK, GraphRead
  PROVE  IsFiniteSet(edges)
<1> DEFINE own(f) == {e \in edges : e.src = f}
           parts == [f \in Indexed |-> own(f)]
<1>1. \A f \in Indexed : IsFiniteSet(own(f))
  <2> SUFFICES ASSUME NEW f \in Indexed PROVE IsFiniteSet(own(f))
    OBVIOUS
  <2>1. PICK roots : own(f) = EdgesOf(f, table[f].sha, roots)
    BY DEF GraphOK, EdgesAreAsOfTheirRow
  <2> DEFINE c == table[f].content
             all == DOMAIN ImportsIn[c]
             edge == [i \in all |-> [src |-> f, at |-> i,
                        dst |-> Resolve(ImportsIn[c][i], f, roots, Disk(table[f].sha))]]
  <2>2. TreeOf[table[f].sha][f] = c /\ ImportsIn[c] \in Seq(Statement)
    BY RowTypes
  <2>3. own(f) = {edge[i] : i \in all}
    BY <2>1, <2>2 DEF EdgesOf
  <2>4. IsFiniteSet(all)
    <3>1. all = 1..Len(ImportsIn[c]) /\ Len(ImportsIn[c]) \in Nat
      BY <2>2
    <3> QED
      BY <3>1, FS_Interval
  <2>5. DOMAIN edge = all /\ edge = [i \in all |-> edge[i]]
    OBVIOUS
  <2> HIDE DEF edge, all
  <2>6. IsFiniteSet({edge[i] : i \in all})
    BY <2>4, <2>5, ImageFinite
  <2> QED
    BY <2>3, <2>6
<1>2. edges = UNION {parts[f] : f \in Indexed}
  <2>1. \A e \in edges : e.src \in Indexed
    BY DEF GraphOK, EdgesAreAsOfTheirRow
  <2> QED
    BY <2>1
<1>3. DOMAIN parts = Indexed /\ parts = [f \in Indexed |-> parts[f]]
  OBVIOUS
<1>4. \A f \in Indexed : parts[f] = own(f)
  OBVIOUS
<1> HIDE DEF parts, own
<1>5. IsFiniteSet({parts[f] : f \in Indexed})
  BY <1>3, FilesAreFinite, ImageFinite
<1>6. \A T \in {parts[f] : f \in Indexed} : IsFiniteSet(T)
  BY <1>1, <1>4
<1> DEFINE all == {parts[f] : f \in Indexed}
<1> HIDE DEF all
<1>7. IsFiniteSet(UNION all)
  BY <1>5, <1>6, FS_UNION DEF all
<1> QED
  BY <1>2, <1>7 DEF all

LEMMA DegreeIs ==
  ASSUME GraphOK, GraphRead, NEW f
  PROVE  InDegree(f) \in Nat
<1> DEFINE in == {e \in edges : e.dst = f}
<1>1. in \in SUBSET edges
  OBVIOUS
<1>2. IsFiniteSet(in)
  BY <1>1, EdgesFinite, FS_Subset
<1> QED
  BY <1>2, FS_CardinalityType DEF InDegree

\* ORDER BY in_degree DESC, file_path ASC leaves nothing open.
LEMMA RanksAre ==
  ASSUME GraphOK, GraphRead
  PROVE  /\ Cardinality(Indexed) \in Nat
         /\ \A f \in Indexed : RankOf(f) \in 0..(Cardinality(Indexed) - 1)
         /\ \A n \in 0..(Cardinality(Indexed) - 1) : \E f \in Indexed : RankOf(f) = n
         /\ \A f, g \in Indexed : f # g =>
              \/ Before(f, g) /\ RankOf(f) < RankOf(g)
              \/ Before(g, f) /\ RankOf(g) < RankOf(f)
<1> DEFINE at(h) == CHOOSE i \in DOMAIN PathOrder : PathOrder[i] = h
           R == {x \in Indexed \X Indexed : Before(x[1], x[2])}
<1>1. \A f \in Indexed : at(f) \in Nat /\ PathOrder[at(f)] = f
  <2> SUFFICES ASSUME NEW f \in Indexed PROVE at(f) \in Nat /\ PathOrder[at(f)] = f
    OBVIOUS
  <2>1. f \in ToSet(PathOrder)
    BY ViewAssumption DEF GraphOK
  <2>2. \E i \in DOMAIN PathOrder : PathOrder[i] = f
    BY <2>1 DEF ToSet
  <2>3. at(f) \in DOMAIN PathOrder /\ PathOrder[at(f)] = f
    BY <2>2
  <2>4. DOMAIN PathOrder \subseteq Nat
    BY ViewAssumption
  <2> QED
    BY <2>3, <2>4
<1>2. \A f, g :
        Before(f, g) <=>
          (InDegree(f) > InDegree(g)) \/ (InDegree(f) = InDegree(g) /\ at(f) < at(g))
  BY DEF Before
<1>3. \A f : InDegree(f) \in Nat
  BY DegreeIs
<1> HIDE DEF at
<1>4. \A f, g \in Indexed : f # g => at(f) # at(g)
  BY <1>1
<1> HIDE DEF Before
<1>5. /\ \A f \in Indexed : ~Before(f, f)
      /\ \A f, g \in Indexed : f # g => Before(f, g) \/ Before(g, f)
      /\ \A f, g, h \in Indexed : Before(f, g) /\ Before(g, h) => Before(f, h)
  <2>1. \A f \in Indexed : at(f) \in Nat
    BY <1>1
  <2>2. \A f \in Indexed : ~Before(f, f)
    BY <1>2, <1>3, <2>1
  <2>3. \A f, g \in Indexed : f # g => Before(f, g) \/ Before(g, f)
    BY <1>2, <1>3, <1>4, <2>1
  <2>4. ASSUME NEW f \in Indexed, NEW g \in Indexed, NEW h \in Indexed,
               Before(f, g), Before(g, h)
        PROVE  Before(f, h)
    <3>1. /\ InDegree(f) \in Nat /\ InDegree(g) \in Nat /\ InDegree(h) \in Nat
          /\ at(f) \in Nat /\ at(g) \in Nat /\ at(h) \in Nat
      BY <1>3, <2>1
    <3> QED
      BY <1>2, <2>4, <3>1
  <2> QED
    BY <2>2, <2>3, <2>4
<1>6. \A f, g \in Indexed : <<f, g>> \in R <=> Before(f, g)
  OBVIOUS
<1> HIDE DEF R
<1>7. Ordered(Indexed, R)
  BY <1>5, <1>6 DEF Ordered
<1>8. \A f \in Indexed : Cardinality(Ahead(Indexed, R, f)) = RankOf(f)
  <2> TAKE f \in Indexed
  <2>1. Ahead(Indexed, R, f) = {g \in Indexed : Before(g, f)}
    BY <1>6 DEF Ahead
  <2> QED
    BY <2>1 DEF RankOf
<1>9. /\ Cardinality(Indexed) \in Nat
      /\ \A f \in Indexed : Cardinality(Ahead(Indexed, R, f)) \in 0..(Cardinality(Indexed) - 1)
      /\ \A f, g \in Indexed : <<f, g>> \in R =>
           Cardinality(Ahead(Indexed, R, f)) < Cardinality(Ahead(Indexed, R, g))
      /\ \A n \in 0..(Cardinality(Indexed) - 1) :
           \E f \in Indexed : Cardinality(Ahead(Indexed, R, f)) = n
  BY <1>7, FilesAreFinite, OrderRanks
<1>10. /\ \A f \in Indexed : RankOf(f) \in 0..(Cardinality(Indexed) - 1)
       /\ \A n \in 0..(Cardinality(Indexed) - 1) : \E f \in Indexed : RankOf(f) = n
  BY <1>8, <1>9
<1>11. ASSUME NEW f \in Indexed, NEW g \in Indexed, Before(f, g)
       PROVE  RankOf(f) < RankOf(g)
  BY <1>6, <1>8, <1>9, <1>11
<1> QED
  BY <1>5, <1>9, <1>10, <1>11

\* load_bearing_view lists indexed files, each rank once.
LEMMA LoadBearingIs ==
  ASSUME GraphOK, GraphRead, NEW limit \in Nat
  PROVE  /\ Len(LoadBearing(limit)) \in Nat
         /\ Len(LoadBearing(limit)) = IF limit <= Cardinality(Indexed) THEN limit
                                      ELSE Cardinality(Indexed)
         /\ DOMAIN LoadBearing(limit) = 1..Len(LoadBearing(limit))
         /\ \A i \in 1..Len(LoadBearing(limit)) :
              /\ LoadBearing(limit)[i] \in Indexed
              /\ RankOf(LoadBearing(limit)[i]) = i - 1
<1> DEFINE n == Min({limit, Cardinality(Indexed)})
           listed == LoadBearing(limit)
<1>1. Cardinality(Indexed) \in Nat
  BY RanksAre
<1>2. n = IF limit <= Cardinality(Indexed) THEN limit ELSE Cardinality(Indexed)
  BY <1>1, MinOfTwo
<1>3. n \in Nat /\ n <= Cardinality(Indexed)
  BY <1>1, <1>2
<1>4. listed = [i \in 1..n |-> CHOOSE f \in Indexed : RankOf(f) = i - 1]
  BY DEF LoadBearing
<1> HIDE DEF n, listed
<1>5. DOMAIN listed = 1..n /\ Len(listed) = n
  BY <1>3, <1>4
<1>6. \A i \in 1..n : \E f \in Indexed : RankOf(f) = i - 1
  <2> TAKE i \in 1..n
  <2>1. i - 1 \in 0..(Cardinality(Indexed) - 1)
    BY <1>1, <1>3
  <2> QED
    BY <2>1, RanksAre
<1>7. \A i \in 1..n : listed[i] \in Indexed /\ RankOf(listed[i]) = i - 1
  <2> TAKE i \in 1..n
  <2>1. listed[i] = CHOOSE f \in Indexed : RankOf(f) = i - 1
    BY <1>4
  <2> QED
    BY <1>6, <2>1
<1> QED
  BY <1>2, <1>3, <1>5, <1>7 DEF listed

LEMMA ValidPicksAre ==
  ASSUME NEW picks \in Seq(Nat), NEW n \in Nat
  PROVE  \A i \in ValidPicks(picks, n) : i \in Nat /\ i < n
<1> DEFINE ks == {k \in DOMAIN picks : picks[k] < n}
           inside == KeptAt(picks, ks)
           first(k) == \A l \in 1..(k - 1) : inside[l] # inside[k]
           once == {k \in DOMAIN inside : first(k)}
           taken == {inside[k] : k \in Firsts(once, DeepReads)}
<1>1. ks \in SUBSET DOMAIN picks /\ \A k \in ks : picks[k] \in Nat /\ picks[k] < n
  OBVIOUS
<1> HIDE DEF ks
<1>2. \A m \in DOMAIN inside : inside[m] \in Nat /\ inside[m] < n
  <2>1. \A m \in DOMAIN KeptAt(picks, ks) : \E i \in ks : KeptAt(picks, ks)[m] = picks[i]
    BY <1>1, KeptAtIs
  <2> QED
    BY <1>1, <2>1
<1>3. ValidPicks(picks, n) = IF taken = {} THEN 0..(Min({3, n}) - 1) ELSE taken
  BY DEF ValidPicks, ks
<1> HIDE DEF inside
<1>4. Firsts(once, DeepReads) \subseteq DOMAIN inside
  BY DEF Firsts
<1>5. \A i \in taken : i \in Nat /\ i < n
  BY <1>2, <1>4
<1>6. Min({3, n}) = IF 3 <= n THEN 3 ELSE n
  BY MinOfTwo
<1>7. \A i \in 0..(Min({3, n}) - 1) : i \in Nat /\ i < n
  BY <1>6
<1> QED
  BY <1>3, <1>5, <1>7

LEMMA PickReads ==
  ASSUME ReadsInv, GraphOK, NEW p \in Process, PickFiles(p)
  PROVE  ReadsInv'
<1> DEFINE w == job[p]
           listed == LoadBearing(ListLimit)
<1>0. w \in Job /\ w.pc = "analyze" /\ w.kind = "onboard" /\ Local /\ Settled(w)
      /\ UNCHANGED excused
  BY JobFits, SettledNow DEF ReadsInv, PickFiles
<1>1. w # Idle
  BY <1>0, IdleFields
<1>2. CASE Ends(p)
  BY <1>0, <1>1, <1>2, EndsReading
<1>3. ASSUME NEW picks \in Picks,
             Becomes(p, [w EXCEPT !.pc = "read",
               !.picked = {listed[i + 1] : i \in ValidPicks(picks, Len(listed))}])
      PROVE  ReadsInv'
  <2> DEFINE picked == {listed[i + 1] : i \in ValidPicks(picks, Len(listed))}
             j == [w EXCEPT !.pc = "read", !.picked = picked]
  <2>1. picked \in SUBSET File
    <3>1. picks \in Seq(Nat) /\ ListLimit \in Nat
      BY ReplyAssumption, ViewAssumption
    <3>2. /\ Len(listed) \in Nat
          /\ \A i \in 1..Len(listed) : listed[i] \in Indexed
      BY <3>1, LoadBearingIs DEF ReadsInv
    <3> HIDE DEF listed
    <3>3. \A i \in ValidPicks(picks, Len(listed)) : i + 1 \in 1..Len(listed)
      BY <3>1, <3>2, ValidPicksAre
    <3> QED
      BY <3>2, <3>3 DEF Indexed
  <2>2. "read" \in PC
    BY DEF PC
  <2>3. Becomes(p, j)
    BY <1>3
  <2> HIDE DEF picked
  <2>4. /\ j \in Job /\ j.kind = w.kind /\ j.target = w.target /\ j.sha = w.sha
        /\ j.hunks = w.hunks /\ j.moved = w.moved /\ j.found = w.found
        /\ j.posted = w.posted /\ j.pc = "read"
    BY <1>0, <2>1, <2>2 DEF Job
  <2> HIDE DEF j
  <2>5. Settled(j)
    BY <1>0, <2>4 DEF Settled, OfHead
  <2> QED
    BY <1>0, <2>3, <2>4, <2>5, LateReads
<1> QED
  BY <1>2, <1>3 DEF PickFiles

LEMMA BodiesReads ==
  ASSUME ReadsInv, NEW p \in Process, ReadBodies(p)
  PROVE  ReadsInv'
<1> DEFINE w == job[p]
<1>0. w \in Job /\ w.pc = "read" /\ Local /\ Settled(w) /\ UNCHANGED excused
  BY JobFits, SettledNow DEF ReadsInv, ReadBodies
<1>1. PICK reply \in Seq(Finding) :
        Becomes(p, [w EXCEPT !.found = Cited(reply), !.picked = {}, !.pc = "verify"])
  <2>1. PICK reply \in IF Bodies(job[p].picked) = {} THEN {<<>>} ELSE Replies :
          Becomes(p, [w EXCEPT !.found = Cited(reply), !.picked = {}, !.pc = "verify"])
    BY DEF ReadBodies
  <2>2. Replies \subseteq Seq(Finding) /\ <<>> \in Seq(Finding)
    BY ReplyAssumption, EmptySeq
  <2>3. reply \in {<<>>} \cup Replies
    OBVIOUS
  <2> QED
    BY <2>1, <2>2, <2>3
<1> DEFINE cited == Cited(reply)
           j == [w EXCEPT !.found = cited, !.picked = {}, !.pc = "verify"]
<1>2. cited \in Seq(Finding) /\ \A n \in DOMAIN cited : cited[n].line > 0
  BY CitedIs
<1>3. Becomes(p, j)
  BY <1>1
<1>4. "verify" \in PC /\ {} \in SUBSET File
  BY DEF PC
<1> HIDE DEF cited
<1>5. /\ j \in Job /\ j.kind = w.kind /\ j.target = w.target /\ j.sha = w.sha
      /\ j.hunks = w.hunks /\ j.moved = w.moved /\ j.found = cited
      /\ j.posted = w.posted /\ j.pc = "verify"
  BY <1>0, <1>2, <1>4 DEF Job
<1> HIDE DEF j
<1>6. Settled(j)
  BY <1>0, <1>2, <1>5 DEF Settled, OfHead
<1> QED
  BY <1>0, <1>3, <1>5, <1>6, LateReads

LEMMA VerifyOnboardingReads ==
  ASSUME ReadsInv, NEW p \in Process, VerifyOnboarding(p)
  PROVE  ReadsInv'
<1> DEFINE w == job[p]
           kept == Verified(w.found, <<>>)
           j == [w EXCEPT !.kept = kept, !.pc = "group"]
<1>0. w \in Job /\ w.pc = "verify" /\ w.kind = "onboard" /\ Local /\ Settled(w)
      /\ UNCHANGED excused
  BY JobFits, SettledNow DEF ReadsInv, VerifyOnboarding
<1>1. kept \in Seq(Finding)
  BY <1>0, VerifiedIs DEF Job
<1>2. Becomes(p, j)
  BY DEF VerifyOnboarding
<1>3. "group" \in PC
  BY DEF PC
<1> HIDE DEF kept
<1>4. /\ j \in Job /\ j.kind = w.kind /\ j.target = w.target /\ j.sha = w.sha
      /\ j.hunks = w.hunks /\ j.moved = w.moved /\ j.found = w.found
      /\ j.posted = w.posted /\ j.pc = "group"
  BY <1>0, <1>1, <1>3 DEF Job
<1> HIDE DEF j
<1>5. Settled(j)
  BY <1>0, <1>4 DEF Settled, OfHead
<1> QED
  BY <1>0, <1>2, <1>4, <1>5, LateReads

\* Milestones keep their confidence, and so their mean is a percentage.
LEMMA MilestonesAre ==
  ASSUME NEW proposed \in Seq(Milestone), NEW n \in Nat
  PROVE  Milestones(proposed, n) \in Seq(Milestone)
<1> DEFINE inside(m) == {i \in DOMAIN m.cites : m.cites[i] < n}
           Inside(m) == KeptAt(m.cites, inside(m))
           ks == {k \in DOMAIN proposed : Inside(proposed[k]) # <<>>}
           kept == KeptAt(proposed, ks)
           all == Milestones(proposed, n)
<1>1. ks \in SUBSET DOMAIN proposed
  OBVIOUS
<1>2. all = [k \in DOMAIN kept |-> [kept[k] EXCEPT !.cites = Inside(kept[k])]]
  BY DEF Milestones
<1>3. \A m \in Milestone : Inside(m) \in Seq(Nat)
  <2> SUFFICES ASSUME NEW m \in Milestone PROVE KeptAt(m.cites, inside(m)) \in Seq(Nat)
    OBVIOUS
  <2> DEFINE cites == m.cites
             there == inside(m)
  <2>1. cites \in Seq(Nat) /\ there \in SUBSET DOMAIN cites
    BY DEF Milestone
  <2> HIDE DEF cites, there
  <2>2. KeptAt(cites, there) \in Seq(Nat)
    BY <2>1, KeptAtIs
  <2> QED
    BY <2>2 DEF cites, there
<1> HIDE DEF ks, Inside
<1>4. kept \in Seq(Milestone)
  BY <1>1, KeptAtIs
<1> HIDE DEF kept, all
<1>5. DOMAIN kept = 1..Len(kept) /\ Len(kept) \in Nat
  BY <1>4
<1>6. \A k \in DOMAIN kept : [kept[k] EXCEPT !.cites = Inside(kept[k])] \in Milestone
  <2> TAKE k \in DOMAIN kept
  <2>1. kept[k] \in Milestone
    BY <1>4, <1>5
  <2> QED
    BY <1>3, <2>1 DEF Milestone
<1>7. all \in [1..Len(kept) -> Milestone]
  BY <1>2, <1>5, <1>6
<1> QED
  BY <1>5, <1>7 DEF all

LEMMA OverallIs ==
  ASSUME NEW found \in Seq(Finding), NEW proposed \in Seq(Milestone), NEW n \in Nat
  PROVE  OverallConfidence(found, Milestones(proposed, n)) \in 0..100
<1> DEFINE ms == Milestones(proposed, n)
           len == Len(ms)
           cs == [k \in DOMAIN ms |-> ms[k].confidence]
<1>0. ms \in Seq(Milestone)
  BY MilestonesAre
<1> HIDE DEF ms
<1>1. /\ len \in Nat /\ DOMAIN ms = 1..len
      /\ \A k \in DOMAIN ms : ms[k].confidence \in 0..100
  <2>1. len \in Nat /\ DOMAIN ms = 1..len /\ \A k \in 1..len : ms[k] \in Milestone
    BY <1>0
  <2> QED
    BY <2>1 DEF Milestone
<1> HIDE DEF len
<1>2. CASE ms = <<>>
  BY <1>2 DEF OverallConfidence, ms
<1>3. CASE ms # <<>>
  <2>1. len # 0
    BY <1>0, <1>3, EmptySeq DEF len
  <2>2. cs \in [1..len -> 0..100]
    BY <1>1
  <2>3. OverallConfidence(found, ms) = Total(cs) \div len
    BY <1>3 DEF OverallConfidence, len
  <2> HIDE DEF cs
  <2>4. Total(cs) \in Nat /\ Total(cs) <= len * 100
    BY <1>1, <2>2, TotalBound
  <2> QED
    BY <1>1, <2>1, <2>3, <2>4, Divided DEF ms
<1> QED
  BY <1>2, <1>3

LEMMA GroupReads ==
  ASSUME ReadsInv, NEW p \in Process, Group(p)
  PROVE  ReadsInv'
<1> DEFINE w == job[p]
           n == Len(w.kept)
<1>0. w \in Job /\ w.pc = "group" /\ Local /\ Settled(w) /\ UNCHANGED excused
  BY JobFits, SettledNow DEF ReadsInv, Group
<1>1. PICK proposed \in IF w.kept = <<>> THEN {<<>>} ELSE Groupings, t \in Texts :
        Becomes(p, [w EXCEPT !.text = t, !.pc = "post",
          !.conf = Blended(Len(w.found), n,
                           OverallConfidence(w.kept, Milestones(proposed, n)))])
  BY DEF Group
<1>2. w.found \in Seq(Finding) /\ w.kept \in Seq(Finding) /\ n \in Nat /\ Len(w.found) \in Nat
  BY <1>0 DEF Job
<1>3. proposed \in Seq(Milestone)
  <2>1. Groupings \subseteq Seq(Milestone) /\ <<>> \in Seq(Milestone)
    BY ReplyAssumption, EmptySeq
  <2>2. proposed \in {<<>>} \cup Groupings
    OBVIOUS
  <2> QED
    BY <2>1, <2>2
<1> DEFINE c == OverallConfidence(w.kept, Milestones(proposed, n))
           conf == Blended(Len(w.found), n, c)
           j == [w EXCEPT !.text = t, !.pc = "post", !.conf = conf]
<1>4. c \in 0..100
  BY <1>2, <1>3, OverallIs
<1>5. Becomes(p, j)
  BY <1>1
<1> HIDE DEF c
<1>6. conf \in 0..100
  BY <1>2, <1>4, BlendedIs
<1>7. "post" \in PC
  BY DEF PC
<1>8. \E d \in 0..100 : conf = Blended(Len(w.found), n, d)
  BY <1>4
<1> HIDE DEF conf
<1>9. /\ j \in Job /\ j.kind = w.kind /\ j.target = w.target /\ j.sha = w.sha
      /\ j.hunks = w.hunks /\ j.moved = w.moved /\ j.found = w.found /\ j.kept = w.kept
      /\ j.posted = w.posted /\ j.pc = "post" /\ j.text = t /\ j.conf = conf
  BY <1>0, <1>6, <1>7 DEF Job
<1> HIDE DEF j
<1>10. Settled(j)
  BY <1>0, <1>9 DEF Settled, OfHead
<1> QED
  BY <1>0, <1>5, <1>8, <1>9, <1>10, LateReads

-----------------------------------------------------------------------------
(* Steps that others see.                                                  *)

Found(t) == t \in PR => prHead[t] # None

LEMMA FoundNow ==
  ASSUME ReadsInv
  PROVE  /\ \A t \in pending : Found(t)
         /\ \A q \in queue : Found(q.target)
         /\ \A p \in Process : Found(job[p].target)
BY DEF ReadsInv, CallersFind, Callers, Found

LEMMA OneStep ==
  ASSUME ReadsInv, GraphRead', Books', EvidenceNamesWhatWasRead', prHead' = prHead,
         NEW p \in Process, NEW j, Fits(p, j, prHead), job' = [job EXCEPT ![p] = j],
         Found(j.target),
         \A t \in pending' : Found(t), \A q \in queue' : Found(q.target)
  PROVE  ReadsInv'
<1>1. JobsRead' /\ job'[p] = j /\ \A q \in Process \ {p} : job'[q] = job[q]
  BY OneChanges DEF ReadsInv
<1>2. \A q \in Process : Found(job'[q].target)
  BY <1>1, FoundNow
<1>3. CallersFind'
  BY <1>2 DEF CallersFind, Callers, Found
<1> QED
  BY <1>1, <1>3 DEF ReadsInv

LEMMA NoJobStep ==
  ASSUME ReadsInv, GraphRead', Books', EvidenceNamesWhatWasRead', UNCHANGED <<prHead, job>>,
         \A t \in pending' : Found(t), \A q \in queue' : Found(q.target)
  PROVE  ReadsInv'
<1>1. JobsRead'
  BY DEF ReadsInv, JobsRead
<1>2. CallersFind'
  BY FoundNow DEF CallersFind, Callers, Found
<1> QED
  BY <1>1, <1>2 DEF ReadsInv

LEMMA SpendTyped ==
  ASSUME Books, NEW what, Spend(what)
  PROVE  budget' \in [EventKinds -> Nat]
<1>1. CASE what \in EventKinds
  <2>1. budget[what] \in Nat /\ budget[what] > 0
    BY <1>1 DEF Books, Spend
  <2>2. budget[what] - 1 \in Nat
    BY <2>1
  <2> QED
    BY <1>1, <2>2 DEF Books, Spend
<1>2. CASE what \notin EventKinds
  BY <1>2 DEF Books, Spend
<1> QED
  BY <1>1, <1>2

LEMMA OpenReads ==
  ASSUME ReadsInv, NEW i \in Issue, OpenIssue(i)
  PROVE  ReadsInv'
<1>1. UNCHANGED <<graphVars, prHead, queue, ended, job, rows, mode, reviews, unrecorded,
                  excused>>
      /\ pending' = pending \cup {i}
  BY DEF OpenIssue
<1>2. GraphRead'
  BY <1>1, GraphReadStill DEF ReadsInv
<1>3. budget' \in [EventKinds -> Nat]
  BY SpendTyped DEF OpenIssue, ReadsInv
<1>4. Books'
  BY <1>1, <1>3 DEF Books, ReadsInv
<1>5. EvidenceNamesWhatWasRead'
  BY <1>1 DEF ReadsInv, EvidenceNamesWhatWasRead
<1>6. Found(i)
  BY AgentAssumption DEF Found
<1> QED
  BY <1>1, <1>2, <1>4, <1>5, <1>6, FoundNow, NoJobStep

LEMMA DeliveryReads ==
  ASSUME ReadsInv, NEW t \in PR \cup Issue, Deliver(t) \/ DeliveryStopped(t)
  PROVE  ReadsInv'
<1>1. UNCHANGED <<graphVars, prHead, ended, job, rows, mode, reviews, unrecorded>>
      /\ pending' = pending \ {t} /\ t \in pending
  BY DEF Deliver, DeliveryStopped
<1>2. GraphRead'
  BY <1>1, GraphReadStill DEF ReadsInv
<1>3. queue' = queue \/ queue' = queue \cup {[target |-> t, tries |-> 0]}
  BY DEF Deliver, DeliveryStopped
<1>4. excused' \subseteq PR
  <2>1. excused \subseteq PR
    BY DEF ReadsInv, Books
  <2>2. excused' \in {excused, excused \cup ({t} \cap PR)}
    BY DEF Deliver, DeliveryStopped
  <2> QED
    BY <2>1, <2>2
<1>5. budget' \in [EventKinds -> Nat]
  <2>1. CASE Deliver(t)
    BY <2>1 DEF Deliver, ReadsInv, Books
  <2>2. CASE DeliveryStopped(t)
    BY <2>2, SpendTyped DEF DeliveryStopped, ReadsInv
  <2> QED
    BY <2>1, <2>2
<1>6. [target |-> t, tries |-> 0] \in Asked
  BY AgentAssumption DEF Asked
<1>7. queue' \subseteq Asked
  BY <1>3, <1>6 DEF ReadsInv, Books
<1>8. Books'
  BY <1>1, <1>4, <1>5, <1>7 DEF Books, ReadsInv
<1>9. EvidenceNamesWhatWasRead'
  BY <1>1 DEF ReadsInv, EvidenceNamesWhatWasRead
<1>10. \A q \in queue' : Found(q.target)
  <2>1. Found(t)
    BY <1>1, FoundNow
  <2> QED
    BY <1>3, <2>1, FoundNow
<1> QED
  BY <1>1, <1>2, <1>8, <1>9, <1>10, FoundNow, NoJobStep

LEMMA GraphMoves ==
  ASSUME ReadsInv, GraphOK, GraphOK', PushBase \/ IndexRuns
  PROVE  ReadsInv'
<1>1. UNCHANGED <<prHead, pending, queue, ended, job, rows, mode, reviews, unrecorded, excused>>
  BY DEF PushBase, IndexRuns
<1>2. GraphRead'
  <2>1. CASE PushBase
    BY <2>1 DEF ReadsInv, PushBase, Push, GraphRead, GraphTypeOK, IndexFull, RowsRead,
         RowsSteady, Indexed
  <2>2. CASE IndexRuns
    BY <2>2, FullReads, IncrementalReads DEF ReadsInv, IndexRuns
  <2> QED
    BY <2>1, <2>2
<1>3. budget' \in [EventKinds -> Nat]
  BY SpendTyped DEF ReadsInv, PushBase, IndexRuns
<1>4. Books'
  BY <1>1, <1>3 DEF Books, ReadsInv
<1>5. EvidenceNamesWhatWasRead'
  BY <1>1 DEF ReadsInv, EvidenceNamesWhatWasRead
<1> QED
  BY <1>1, <1>2, <1>4, <1>5, FoundNow, NoJobStep

LEMMA StartedFits ==
  ASSUME NEW p \in Process, NEW t \in PR \cup Issue, NEW n \in 0..(MaxTries - 1),
         NEW pc, \/ pc = "resolve" /\ (t \in Issue => p = Worker)
                 \/ pc = "pr" /\ t \in PR,
         NEW heads
  PROVE  /\ Fits(p, [Started(t, n) EXCEPT !.pc = pc], heads)
         /\ [Started(t, n) EXCEPT !.pc = pc].target = t
         /\ pc = "resolve" => [Started(t, n) EXCEPT !.pc = pc] = Started(t, n)
<1> DEFINE kind == IF t \in PR THEN "review" ELSE "onboard"
           s == Started(t, n)
           j == [s EXCEPT !.pc = pc]
<1>1. s = [Idle EXCEPT !.kind = kind, !.target = t, !.pc = "resolve", !.tries = n]
  BY DEF Started
<1>2. /\ kind \in {"review", "onboard"}
      /\ kind = "review" <=> t \in PR
      /\ kind = "onboard" <=> t \in Issue
  BY AgentAssumption
<1> HIDE DEF kind
<1>3. /\ s \in Job /\ s.kind = kind /\ s.target = t /\ s.pc = "resolve" /\ s.sha = None
      /\ s.page = 1 /\ s.hunks = <<>> /\ s.moved = FALSE /\ s.found = <<>>
      /\ s.text = None /\ s.posted = FALSE
  <2>1. Idle \in Job /\ "resolve" \in PC
    BY IdleFits DEF Fits, PC
  <2>2. kind \in {"none", "review", "onboard"} /\ t \in PR \cup Issue \cup {None}
    BY <1>2
  <2> HIDE DEF j, s
  <2> DEFINE a == [Idle EXCEPT !.kind = kind, !.target = t]
             b == [a EXCEPT !.pc = "resolve", !.tries = n]
  <2>3. /\ a \in Job /\ a.kind = kind /\ a.target = t /\ a.sha = None
        /\ a.page = 1 /\ a.hunks = <<>> /\ a.moved = FALSE /\ a.found = <<>>
        /\ a.text = None /\ a.posted = FALSE
    BY <2>1, <2>2, IdleFields DEF Job
  <2>4. s = b
    BY <1>1
  <2> HIDE DEF a
  <2>5. /\ b \in Job /\ b.kind = kind /\ b.target = t /\ b.sha = None /\ b.pc = "resolve"
        /\ b.page = 1 /\ b.hunks = <<>> /\ b.moved = FALSE /\ b.found = <<>>
        /\ b.text = None /\ b.posted = FALSE
    BY <2>1, <2>3 DEF Job
  <2> HIDE DEF b
  <2> QED
    BY <2>4, <2>5
<1> HIDE DEF s
<1>4. /\ j \in Job /\ j.kind = kind /\ j.target = t /\ j.pc = pc /\ j.sha = None
      /\ j.page = 1 /\ j.hunks = <<>> /\ j.moved = FALSE /\ j.found = <<>>
      /\ j.text = None /\ j.posted = FALSE
  <2>1. pc \in PC
    BY DEF PC
  <2> QED
    BY <1>3, <2>1 DEF Job
<1>5. pc = "resolve" => j = s
  BY <1>3 DEF Job
<1> HIDE DEF j
<1>6. JobShape(p, j)
  BY <1>2, <1>4, IdleFields, AgentAssumption DEF JobShape
<1>7. ReadOK(j, heads)
  BY <1>4 DEF ReadOK, AsListed, OfHead
<1> QED
  BY <1>4, <1>5, <1>6, <1>7 DEF Fits, j, s

LEMMA StartsNow ==
  ASSUME NEW t \in PR \cup Issue, NEW n \in 0..(MaxTries - 1), NEW heads
  PROVE  Fits(Worker, Started(t, n), heads) /\ Started(t, n).target = t
<1> DEFINE j == [Started(t, n) EXCEPT !.pc = "resolve"]
<1>1. /\ Fits(Worker, j, heads) /\ j.target = t /\ j = Started(t, n)
  BY WorkerIsProcess, StartedFits
<1> QED
  BY <1>1, Zenon

LEMMA TakeReads ==
  ASSUME ReadsInv, Take
  PROVE  ReadsInv'
<1>1. PICK q \in queue : /\ queue' = queue \ {q}
                         /\ job' = [job EXCEPT ![Worker] = Started(q.target, q.tries)]
  BY DEF Take
<1> DEFINE j == Started(q.target, q.tries)
<1>2. UNCHANGED <<graphVars, prHead, pending, ended, rows, mode, reviews, unrecorded,
                  excused, budget>>
  BY DEF Take
<1>3. q.target \in PR \cup Issue /\ q.tries \in 0..(MaxTries - 1)
  BY DEF ReadsInv, Books, Asked
<1>4. Fits(Worker, j, prHead) /\ j.target = q.target
  BY <1>3, StartsNow
<1> HIDE DEF j
<1>5. GraphRead'
  BY <1>2, GraphReadStill DEF ReadsInv
<1>6. Books'
  BY <1>1, <1>2 DEF ReadsInv, Books
<1>7. EvidenceNamesWhatWasRead'
  BY <1>2 DEF ReadsInv, EvidenceNamesWhatWasRead
<1>8. job' = [job EXCEPT ![Worker] = j]
  BY <1>1 DEF j
<1> QED
  BY <1>1, <1>2, <1>4, <1>5, <1>6, <1>7, <1>8, FoundNow, WorkerIsProcess, OneStep

LEMMA CliReads ==
  ASSUME ReadsInv, NEW p \in Process, NEW pr \in PR, CliReviews(p, pr)
  PROVE  ReadsInv'
<1> DEFINE j == [Started(pr, 0) EXCEPT !.pc = "pr"]
<1>1. UNCHANGED <<graphVars, prHead, pending, queue, ended, rows, mode, reviews,
                  unrecorded, excused>>
      /\ prHead[pr] # None
  BY DEF CliReviews
<1>2. job' = [job EXCEPT ![p] = j]
  BY DEF CliReviews
<1>3. 0 \in 0..(MaxTries - 1)
  BY AgentAssumption
<1>4. Fits(p, j, prHead) /\ j.target = pr
  BY <1>3, StartedFits
<1> HIDE DEF j
<1>5. GraphRead'
  BY <1>1, GraphReadStill DEF ReadsInv
<1>6. budget' \in [EventKinds -> Nat]
  BY SpendTyped DEF ReadsInv, CliReviews
<1>7. Books'
  BY <1>1, <1>6 DEF ReadsInv, Books
<1>8. EvidenceNamesWhatWasRead'
  BY <1>1 DEF ReadsInv, EvidenceNamesWhatWasRead
<1>9. Found(j.target)
  BY <1>1, <1>4 DEF Found
<1> QED
  BY <1>1, <1>2, <1>4, <1>5, <1>7, <1>8, <1>9, FoundNow, OneStep

\* A job that posts or records.
LEMMA LateFits ==
  ASSUME ReadsInv, NEW p \in Process, NEW posted \in BOOLEAN, job[p].pc = "post"
  PROVE  /\ Fits(p, [job[p] EXCEPT !.pc = "commit", !.posted = posted], prHead)
         /\ [job[p] EXCEPT !.pc = "commit", !.posted = posted].target = job[p].target
<1> DEFINE w == job[p]
           j == [w EXCEPT !.pc = "commit", !.posted = posted]
<1>1. w \in Job /\ JobShape(p, w) /\ Settled(w)
  BY JobFits, SettledNow DEF ReadsInv
<1>2. "commit" \in PC
  BY DEF PC
<1>3. /\ j \in Job /\ j.kind = w.kind /\ j.target = w.target /\ j.sha = w.sha
      /\ j.hunks = w.hunks /\ j.moved = w.moved /\ j.found = w.found
      /\ j.pc = "commit" /\ j.text = w.text
  BY <1>1, <1>2 DEF Job
<1> HIDE DEF j
<1>4. JobShape(p, j)
  BY <1>1, <1>3, IdleFields DEF JobShape
<1>5. ReadOK(j, prHead)
  BY <1>1, <1>3 DEF ReadOK, Settled, OfHead
<1> QED
  BY <1>3, <1>4, <1>5 DEF Fits, j

LEMMA PostSucceedsReads ==
  ASSUME ReadsInv, NEW p \in Process, PostSucceeds(p)
  PROVE  ReadsInv'
<1> DEFINE posted == CountsAsReview(p)
           j == [job[p] EXCEPT !.pc = "commit", !.posted = posted]
<1>1. UNCHANGED <<graphVars, prHead, pending, queue, rows, mode, unrecorded, excused,
                  budget, ended>>
      /\ job[p].pc = "post" /\ job' = [job EXCEPT ![p] = j]
  BY DEF PostSucceeds, Becomes
<1>2. posted \in BOOLEAN
  BY DEF CountsAsReview
<1>3. reviews' \in [PrCommit -> Nat]
  <2>1. reviews \in [PrCommit -> Nat]
    BY DEF ReadsInv, Books
  <2>2. [reviews EXCEPT ![job[p].sha] = @ + 1] \in [PrCommit -> Nat]
    BY <2>1, CountUp
  <2> QED
    BY <2>1, <2>2 DEF PostSucceeds
<1>4. Fits(p, j, prHead) /\ j.target = job[p].target
  BY <1>1, <1>2, LateFits
<1> HIDE DEF j, posted
<1>5. GraphRead'
  BY <1>1, GraphReadStill DEF ReadsInv
<1>6. Books'
  BY <1>1, <1>3 DEF ReadsInv, Books
<1>7. EvidenceNamesWhatWasRead'
  BY <1>1 DEF ReadsInv, EvidenceNamesWhatWasRead
<1> QED
  BY <1>1, <1>4, <1>5, <1>6, <1>7, FoundNow, OneStep

\* A process stops, whatever it leaves in the books.
LEMMA StopReads ==
  ASSUME ReadsInv, NEW p \in Process, job' = [job EXCEPT ![p] = Idle],
         UNCHANGED <<graphVars, prHead, pending>>,
         Books', EvidenceNamesWhatWasRead',
         \A q \in queue' : Found(q.target)
  PROVE  ReadsInv'
<1>1. GraphRead'
  BY GraphReadStill DEF ReadsInv
<1>2. Fits(p, Idle, prHead) /\ Found(Idle.target)
  BY IdleFits, IdleFields, AgentAssumption DEF Found
<1> QED
  BY <1>1, <1>2, FoundNow, OneStep

LEMMA PostErrsReads ==
  ASSUME ReadsInv, NEW p \in Process, PostErrs(p)
  PROVE  ReadsInv'
<1>1. UNCHANGED <<graphVars, prHead, pending, queue, rows, mode>>
      /\ job[p] # Idle /\ EndsWithout(p)
  BY IdleFields DEF PostErrs
<1>2. budget' \in [EventKinds -> Nat]
  BY SpendTyped DEF ReadsInv, PostErrs
<1>3. reviews' \in [PrCommit -> Nat] /\ unrecorded' \in [PrCommit -> Nat]
  <2>1. reviews \in [PrCommit -> Nat] /\ unrecorded \in [PrCommit -> Nat]
    BY DEF ReadsInv, Books
  <2>2. /\ [reviews EXCEPT ![job[p].sha] = @ + 1] \in [PrCommit -> Nat]
        /\ [unrecorded EXCEPT ![job[p].sha] = @ + 1] \in [PrCommit -> Nat]
    BY <2>1, CountUp
  <2> QED
    BY <2>1, <2>2 DEF PostErrs
<1>4. /\ ended' \subseteq PR \cup Issue /\ excused' \subseteq PR
      /\ job' = [job EXCEPT ![p] = Idle]
  BY <1>1, EndsTyped DEF ReadsInv
<1>5. Books'
  BY <1>1, <1>2, <1>3, <1>4 DEF ReadsInv, Books
<1>6. EvidenceNamesWhatWasRead'
  BY <1>1 DEF ReadsInv, EvidenceNamesWhatWasRead
<1> QED
  BY <1>1, <1>4, <1>5, <1>6, FoundNow, StopReads

\* The row that a job adds is one of what it has read.
LEMMA RowIs ==
  ASSUME ReadsInv, NEW p \in Process, job[p].pc = "commit"
  PROVE  /\ RowOf(p) \in ReviewRow
         /\ RowOf(p).sha # None /\ ~RowOf(p).moved => RowOf(p).read \subseteq {RowOf(p).sha}
<1> DEFINE w == job[p]
           agent == AgentOf(w)
           sha == IF p = Worker THEN w.sha ELSE None
           read == {w.hunks[i].of : i \in DOMAIN w.hunks}
<1>1. w \in Job /\ JobShape(p, w) /\ Settled(w) /\ w # Idle
  BY JobFits, SettledNow, IdleFields DEF ReadsInv
<1>2. w.target \in PR \cup Issue
  BY <1>1, TargetOf DEF ReadsInv
<1>3. w.text \in Texts /\ w.moved \in BOOLEAN /\ w.sha \in Heads
  BY <1>1 DEF JobShape, Job
<1>4. agent \in {"pr_reviewer", "onboarding"}
  BY DEF AgentOf
<1>5. sha \in Heads /\ (sha # None => sha = w.sha)
  BY <1>3 DEF Heads
<1>6. read \subseteq PrCommit
  <2>1. w.hunks \in Seq(Listed)
    BY <1>1 DEF Job
  <2>2. \A i \in DOMAIN w.hunks : w.hunks[i] \in Listed
    BY <2>1
  <2> QED
    BY <2>2 DEF Listed
<1>7. ~w.moved => read \subseteq {w.sha}
  BY <1>1 DEF Settled, OfHead
<1>8. RowOf(p) = [agent |-> agent, target |-> w.target, text |-> w.text, sha |-> sha,
                  read |-> read, moved |-> w.moved]
  BY DEF RowOf
<1> HIDE DEF agent, sha, read
<1> QED
  BY <1>2, <1>3, <1>4, <1>5, <1>6, <1>7, <1>8 DEF ReviewRow

LEMMA RecordReads ==
  ASSUME ReadsInv, NEW p \in Process, Record(p)
  PROVE  ReadsInv'
<1>1. UNCHANGED <<graphVars, prHead, pending, queue, mode, reviews, budget>>
      /\ job[p] # Idle /\ job[p].pc = "commit"
  BY IdleFields DEF Record
<1>2. unrecorded \in [PrCommit -> Nat] /\ excused \subseteq PR /\ rows \subseteq ReviewRow
  BY DEF ReadsInv, Books
<1>3. [unrecorded EXCEPT ![job[p].sha] = @ + 1] \in [PrCommit -> Nat]
  BY <1>2, CountUp
<1>4. unrecorded' \in [PrCommit -> Nat]
  BY <1>2, <1>3 DEF Record
<1>5. /\ ended' \subseteq PR \cup Issue /\ excused' \subseteq PR
      /\ job' = [job EXCEPT ![p] = Idle]
  BY <1>1, <1>2, EndsTyped DEF ReadsInv, Record
<1>6. rows' = rows \/ rows' = rows \cup {RowOf(p)}
  BY DEF Record
<1>7. rows' \subseteq ReviewRow /\ EvidenceNamesWhatWasRead'
  BY <1>1, <1>2, <1>6, RowIs DEF ReadsInv, EvidenceNamesWhatWasRead
<1>8. Books'
  BY <1>1, <1>4, <1>5, <1>7 DEF ReadsInv, Books
<1> QED
  BY <1>1, <1>5, <1>7, <1>8, FoundNow, StopReads

LEMMA FailsReads ==
  ASSUME ReadsInv, NEW p \in Process, Fails(p)
  PROVE  ReadsInv'
<1> DEFINE again == [target |-> job[p].target, tries |-> job[p].tries + 1]
<1>1. UNCHANGED <<graphVars, prHead, pending, rows, mode, reviews>> /\ job[p] # Idle
  BY DEF Fails
<1>2. unrecorded \in [PrCommit -> Nat] /\ excused \subseteq PR /\ queue \subseteq Asked
      /\ ended \subseteq PR \cup Issue
  BY DEF ReadsInv, Books
<1>3. [unrecorded EXCEPT ![job[p].sha] = @ + 1] \in [PrCommit -> Nat]
  BY <1>2, CountUp
<1>4. unrecorded' \in [PrCommit -> Nat]
  BY <1>2, <1>3 DEF Fails
<1>5. budget' \in [EventKinds -> Nat]
  BY SpendTyped DEF ReadsInv, Fails
<1>6. job[p] \in Job /\ job[p].target \in PR \cup Issue
  BY <1>1, JobFits, TargetOf DEF ReadsInv
<1>7. /\ ended' \subseteq PR \cup Issue /\ excused' \subseteq PR
      /\ job' = [job EXCEPT ![p] = Idle]
  BY <1>1, <1>2, EndsTyped DEF ReadsInv, Fails, Becomes
<1>8. TriedAgain(job[p]) => again \in Asked
  <2>1. job[p].tries \in 0..(MaxTries - 1)
    BY <1>6 DEF Job
  <2>2. TriedAgain(job[p]) => job[p].tries + 1 \in 0..(MaxTries - 1)
    BY <2>1, AgentAssumption DEF TriedAgain
  <2> QED
    BY <1>6, <2>2 DEF Asked
<1>9. /\ queue' = queue \/ (queue' = queue \cup {again} /\ TriedAgain(job[p]))
      /\ again.target = job[p].target
  BY DEF Fails
<1> HIDE DEF again
<1>10. queue' \subseteq Asked
  BY <1>2, <1>8, <1>9
<1>11. \A q \in queue' : Found(q.target)
  BY <1>9, FoundNow
<1>12. Books'
  BY <1>1, <1>4, <1>5, <1>7, <1>10 DEF ReadsInv, Books
<1>13. EvidenceNamesWhatWasRead'
  BY <1>1 DEF ReadsInv, EvidenceNamesWhatWasRead
<1> QED
  BY <1>1, <1>7, <1>11, <1>12, <1>13, StopReads

LEMMA MovedFits ==
  ASSUME JobsRead, NEW pr \in PR, NEW h \in PrCommit, NEW q \in Process,
         prHead \in [PR -> Heads]
  PROVE  LET heads == [prHead EXCEPT ![pr] = h]
             j == IF job[q].target = pr /\ job[q].pc = "files" /\ h # prHead[pr]
                  THEN [job[q] EXCEPT !.moved = TRUE] ELSE job[q]
         IN Fits(q, j, heads) /\ j.target = job[q].target
<1> DEFINE heads == [prHead EXCEPT ![pr] = h]
           w == job[q]
           m == [w EXCEPT !.moved = TRUE]
           hit == w.target = pr /\ w.pc = "files" /\ h # prHead[pr]
           j == IF hit THEN m ELSE w
<1>1. w \in Job /\ JobShape(q, w) /\ ReadOK(w, prHead)
  BY JobFits
<1>2. heads[pr] = h /\ \A other \in PR \ {pr} : heads[other] = prHead[other]
  OBVIOUS
<1> HIDE DEF heads
<1>3. CASE hit
  <2>1. /\ m \in Job /\ m.kind = w.kind /\ m.target = w.target /\ m.sha = w.sha
        /\ m.page = w.page /\ m.hunks = w.hunks /\ m.moved = TRUE /\ m.found = w.found
        /\ m.posted = w.posted /\ m.text = w.text /\ m.pc = "files"
    BY <1>1, <1>3 DEF Job
  <2>2. j = m /\ w.pc = "files"
    BY <1>3
  <2> HIDE DEF m, j, hit
  <2>3. JobShape(q, m)
    BY <1>1, <2>1, <2>2, IdleFields DEF JobShape
  <2>4. ReadOK(m, heads)
    BY <1>1, <2>1, <2>2 DEF ReadOK
  <2>5. Fits(q, j, heads) /\ j.target = w.target
    BY <2>1, <2>2, <2>3, <2>4 DEF Fits
  <2> QED
    BY <2>5 DEF heads, j, m, hit
<1>4. CASE ~hit
  <2>1. j = w
    BY <1>4
  <2>2. w.pc = "files" /\ ~w.moved => PagesRead(w, heads)
    <3> SUFFICES ASSUME w.pc = "files", ~w.moved PROVE PagesRead(w, heads)
      OBVIOUS
    <3>1. PagesRead(w, prHead) /\ w.target \in PR
      BY <1>1 DEF ReadOK, JobShape
    <3>2. heads[w.target] = prHead[w.target]
      BY <1>2, <1>4, <3>1
    <3> QED
      BY <3>1, <3>2 DEF PagesRead
  <2> HIDE DEF j, hit
  <2>3. ReadOK(w, heads)
    BY <1>1, <2>2 DEF ReadOK
  <2>4. Fits(q, j, heads) /\ j.target = w.target
    BY <1>1, <2>1, <2>3 DEF Fits
  <2> QED
    BY <2>4 DEF heads, j, hit
<1> QED
  BY <1>3, <1>4

LEMMA MoveReads ==
  ASSUME ReadsInv, NEW pr \in PR, NEW h \in PrCommit, MoveHead(pr, h)
  PROVE  ReadsInv'
<1>1. /\ UNCHANGED <<graphVars, queue, ended, rows, mode, reviews, unrecorded>>
      /\ prHead' = [prHead EXCEPT ![pr] = h] /\ pending' = pending \cup {pr}
      /\ excused' = excused \ {pr}
  BY DEF MoveHead
<1>2. prHead \in [PR -> Heads] /\ JobsRead
  BY DEF ReadsInv, Books
<1> DEFINE after(q) == IF job[q].target = pr /\ job[q].pc = "files" /\ h # prHead[pr]
                       THEN [job[q] EXCEPT !.moved = TRUE] ELSE job[q]
<1>3. job' = [q \in Process |-> after(q)]
  BY DEF MoveHead
<1>4. \A q \in Process : Fits(q, after(q), prHead') /\ after(q).target = job[q].target
  BY <1>1, <1>2, MovedFits
<1> HIDE DEF after
<1>5. \A q \in Process : Fits(q, job'[q], prHead') /\ job'[q].target = job[q].target
  BY <1>3, <1>4
<1>6. job' \in [Process -> Job]
  BY <1>3, <1>4 DEF Fits
<1>7. JobsRead'
  BY <1>5, <1>6 DEF JobsRead
<1>8. /\ prHead' \in [PR -> Heads] /\ h # None
      /\ \A other \in PR : prHead'[other] = IF other = pr THEN h ELSE prHead[other]
  <2>1. h \in Heads /\ h # None
    BY AgentAssumption DEF Heads
  <2> QED
    BY <1>1, <1>2, <2>1
<1>9. CallersFind'
  <2>1. \A other \in PR : other \in Callers' => other \in Callers \cup {pr}
    BY <1>1, <1>5 DEF Callers
  <2> QED
    BY <1>8, <2>1 DEF ReadsInv, CallersFind
<1>10. budget' \in [EventKinds -> Nat]
  BY SpendTyped DEF ReadsInv, MoveHead
<1>11. Books'
  BY <1>1, <1>8, <1>10 DEF ReadsInv, Books
<1>12. EvidenceNamesWhatWasRead'
  BY <1>1 DEF ReadsInv, EvidenceNamesWhatWasRead
<1>13. GraphRead'
  BY <1>1, GraphReadStill DEF ReadsInv
<1> QED
  BY <1>7, <1>9, <1>11, <1>12, <1>13 DEF ReadsInv

LEMMA DedupedReads ==
  ASSUME ReadsInv, NEW p \in Process, PostDeduped(p)
  PROVE  ReadsInv'
BY IdleFields, EndsReading DEF PostDeduped

LEMMA QuietReads ==
  ASSUME ReadsInv, UNCHANGED vars
  PROVE  ReadsInv'
<1>1. UNCHANGED <<graphVars, prHead, job, pending, queue>>
      /\ UNCHANGED <<rows, ended, mode, reviews, unrecorded, excused, budget>>
  BY DEF vars, jobVars
<1>2. GraphRead'
  BY <1>1, GraphReadStill DEF ReadsInv
<1>3. Books' /\ EvidenceNamesWhatWasRead'
  BY <1>1 DEF ReadsInv, Books, EvidenceNamesWhatWasRead
<1> QED
  BY <1>1, <1>2, <1>3, FoundNow, NoJobStep

LEMMA InitReads == Init => ReadsInv
<1> SUFFICES ASSUME Init PROVE ReadsInv
  OBVIOUS
<1>1. GraphRead
  BY GraphReadInit DEF Init
<1>2. Books
  <2>1. budget \in [EventKinds -> Nat]
    BY AgentAssumption DEF Init
  <2>2. prHead \in [PR -> Heads]
    BY DEF Init, Heads
  <2> QED
    BY <2>1, <2>2 DEF Init, Books
<1>3. JobsRead
  <2>1. \A p \in Process : job[p] = Idle /\ Fits(p, job[p], prHead)
    BY IdleFits DEF Init
  <2>2. job \in [Process -> Job]
    BY <2>1, IdleFits DEF Init, Fits
  <2> QED
    BY <2>1, <2>2 DEF JobsRead
<1>4. CallersFind
  <2>1. \A p \in Process : job[p].target = None
    BY IdleFields DEF Init
  <2> QED
    BY <2>1, AgentAssumption DEF Init, CallersFind, Callers
<1>5. EvidenceNamesWhatWasRead
  BY DEF Init, EvidenceNamesWhatWasRead
<1> QED
  BY <1>1, <1>2, <1>3, <1>4, <1>5 DEF ReadsInv

LEMMA StepReads ==
  ASSUME ReadsInv, IInv, IInv', [Next]_vars
  PROVE  ReadsInv'
<1>0. GraphOK /\ GraphOK'
  BY DEF IInv
<1>1. CASE PushBase \/ IndexRuns
  BY <1>0, <1>1, GraphMoves
<1>2. CASE Take
  BY <1>2, TakeReads
<1>3. CASE Quiet \/ UNCHANGED vars
  BY <1>3, QuietReads DEF Quiet
<1>4. ASSUME NEW pr \in PR, NEW h \in PrCommit, MoveHead(pr, h) PROVE ReadsInv'
  BY <1>4, MoveReads
<1>5. ASSUME NEW i \in Issue, OpenIssue(i) PROVE ReadsInv'
  BY <1>5, OpenReads
<1>6. ASSUME NEW t \in PR \cup Issue, Deliver(t) \/ DeliveryStopped(t) PROVE ReadsInv'
  BY <1>6, DeliveryReads
<1>7. ASSUME NEW p \in Process,
             \/ ResolveRepo(p) \/ Review(p) \/ Onboard(p) \/ Post(p) \/ Fails(p)
             \/ \E pr \in PR : CliReviews(p, pr)
      PROVE  ReadsInv'
  <2>1. CASE ResolveRepo(p)
    BY <2>1, ResolveReads
  <2>2. CASE Review(p)
    BY <2>2, ReadPrReads, ReadFilesReads, SkipReads, AnalyzeReads, VerifyReads, PrintReads
       DEF Review
  <2>3. CASE Onboard(p)
    BY <1>0, <2>3, PickReads, BodiesReads, VerifyOnboardingReads, GroupReads DEF Onboard
  <2>4. CASE Post(p)
    BY <2>4, DedupedReads, PostSucceedsReads, PostErrsReads, RecordReads DEF Post
  <2>5. CASE Fails(p)
    BY <2>5, FailsReads
  <2>6. CASE \E pr \in PR : CliReviews(p, pr)
    BY <2>6, CliReads
  <2> QED
    BY <1>7, <2>1, <2>2, <2>3, <2>4, <2>5, <2>6
<1> QED
  BY <1>1, <1>2, <1>3, <1>4, <1>5, <1>6, <1>7 DEF Next

\* What jobs have read, know and claim, in every state.
THEOREM Reads == Spec => []ReadsInv
<1>1. ReadsInv /\ IInv /\ IInv' /\ [Next]_vars => ReadsInv'
  BY StepReads
<1> QED
  BY <1>1, InitReads, Invariant, PTL DEF Spec

\* The types of AgentJobs, down to the fields of a job at each step, what
\* stands in a row and that confidences are percentages.
THEOREM TypesHold == Spec => []TypeOK
BY Reads, TypesOfReads, PTL

\* The evidence of an agent_actions row is the head that was reviewed, unless
\* the head moved while the pages of get_pr_files were fetched.
THEOREM EvidenceHolds == Spec => []EvidenceNamesWhatWasRead
<1>1. ReadsInv => EvidenceNamesWhatWasRead
  BY DEF ReadsInv
<1> QED
  BY <1>1, Reads, PTL


\* Pages of get_pr_files add up to the files of the head, each once and in
\* order, whatever their number and the size of a page.
THEOREM PagesAddUp == Spec => []PagesAreComplete
<1>1. ReadsInv => PagesAreComplete
  <2> SUFFICES ASSUME ReadsInv, NEW p \in Process,
                      job[p].kind = "review", job[p].pc \in {"skip", "analyze"}, ~job[p].moved
               PROVE  [i \in DOMAIN job[p].hunks |-> job[p].hunks[i].file] = PrFiles[job[p].sha]
    BY DEF PagesAreComplete
  <2> DEFINE hunks == job[p].hunks
             s == PrFiles[job[p].sha]
             files == [i \in DOMAIN hunks |-> hunks[i].file]
  <2>1. job[p] \in Job /\ JobShape(p, job[p]) /\ ReadOK(job[p], prHead)
    BY JobFits DEF ReadsInv
  <2>2. hunks \in Seq(Listed) /\ job[p].sha \in PrCommit
    BY <2>1 DEF Job, JobShape
  <2>3. s \in Seq(File)
    BY <2>2, ListedFiles
  <2>4. FirstFiles(hunks, s, Len(s))
    BY <2>1 DEF ReadOK
  <2> HIDE DEF hunks, s
  <2>5. DOMAIN hunks = 1..Len(s) /\ \A i \in 1..Len(s) : hunks[i].file = s[i]
    BY <2>2, <2>4 DEF FirstFiles
  <2>6. s = [i \in 1..Len(s) |-> s[i]]
    BY <2>3
  <2>7. files = s
    BY <2>5, <2>6
  <2> QED
    BY <2>7 DEF hunks, s
<1> QED
  BY <1>1, Reads, PTL

\* A line in a range of the diff is a line of the new version.
LEMMA DiffLines ==
  ASSUME NEW x \in Finding, x.line > 0, NEW hunks \in Seq(Listed), AsListed(hunks),
         InDiffRanges(x, hunks)
  PROVE  \E i \in DOMAIN hunks :
           LET new == HeadTree[hunks[i].of][x.file] IN new # None /\ x.line <= LinesOf[new]
<1>1. PICK i \in DOMAIN hunks :
        /\ hunks[i].file = x.file
        /\ \E k \in DOMAIN hunks[i].ranges : x.line <= RangeEnd(hunks[i].ranges[k])
  BY DEF InDiffRanges
<1> DEFINE h == hunks[i].of
           old == TreeOf[BaseOf[h]][x.file]
           new == HeadTree[h][x.file]
           ranges == PatchOf[<<old, new>>]
<1>2. h \in PrCommit /\ x.file \in File /\ x.line \in Nat
  <2>1. hunks[i] \in Listed
    OBVIOUS
  <2> QED
    BY <2>1 DEF Listed, Finding
<1>3. hunks[i] = Hunk(x.file, h)
  BY <1>1 DEF AsListed
<1>4. hunks[i].ranges = ranges
  BY <1>3 DEF Hunk
<1>5. old \in Content \cup {None} /\ new \in Content \cup {None}
  BY <1>2, AgentAssumption, TreeType
<1> HIDE DEF old, new, h
<1>6. \A k \in DOMAIN ranges : RangeEnd(ranges[k]) <= IF new = None THEN 0 ELSE LinesOf[new]
  <2> DEFINE length == IF new = None THEN 0 ELSE LinesOf[new]
  <2>1. \A k \in DOMAIN ranges : /\ ranges[k].start <= length
                                 /\ ranges[k].start + ranges[k].count - 1 <= length
    BY <1>5, PatchAssumption
  <2> HIDE DEF ranges, length
  <2>2. \A k \in DOMAIN ranges : RangeEnd(ranges[k]) <= length
    BY <2>1 DEF RangeEnd
  <2> QED
    BY <2>2 DEF length
<1>7. \A k \in DOMAIN ranges : RangeEnd(ranges[k]) \in Int
  <2>1. ranges \in Seq(LineRange)
    BY <1>5, PatchAssumption
  <2> HIDE DEF ranges
  <2>2. \A k \in DOMAIN ranges : ranges[k] \in LineRange
    BY <2>1
  <2> QED
    BY <2>2 DEF LineRange, RangeEnd
<1>8. PICK k \in DOMAIN ranges : x.line <= RangeEnd(ranges[k])
  BY <1>1, <1>4
<1>9. new # None => LinesOf[new] \in Nat
  BY <1>5, GuardrailsAssumption
<1>10. new # None /\ x.line <= LinesOf[new]
  BY <1>2, <1>6, <1>7, <1>8, <1>9
<1> QED
  BY <1>10 DEF new, h

\* Findings that both guards let pass cite lines that exist.
LEMMA CitedLines ==
  ASSUME ReadsInv, NEW p \in Process, Verify(p) \/ VerifyOnboarding(p),
         NEW x \in ToSet(job'[p].kept)
  PROVE  \/ x.line <= LinesOf[table[x.file].content]
         \/ \E i \in DOMAIN job[p].hunks :
              LET new == HeadTree[job[p].hunks[i].of][x.file]
              IN new # None /\ x.line <= LinesOf[new]
<1> DEFINE w == job[p]
<1>1. w \in Job /\ Settled(w) /\ job \in [Process -> Job]
  BY JobFits, SettledNow DEF ReadsInv, JobsRead
<1>2. w.found \in Seq(Finding) /\ w.hunks \in Seq(Listed) /\ AsListed(w.hunks)
  BY <1>1 DEF Job, Settled
<1>3. PICK hunks \in {w.hunks, <<>>} : job'[p].kept = Verified(w.found, hunks)
  <2>1. CASE Verify(p)
    <3>1. PICK c \in Confidences, t \in Texts :
            Becomes(p, [w EXCEPT !.kept = Verified(w.found, w.hunks), !.text = t,
                          !.pc = "post",
                          !.conf = Blended(Len(w.found), Len(Verified(w.found, w.hunks)), c)])
      BY <2>1 DEF Verify
    <3>2. job'[p].kept = Verified(w.found, w.hunks)
      BY <1>1, <3>1 DEF Becomes, Job
    <3> QED
      BY <3>2
  <2>2. CASE VerifyOnboarding(p)
    <3>1. job'[p].kept = Verified(w.found, <<>>)
      BY <1>1, <2>2 DEF VerifyOnboarding, Becomes, Job
    <3> QED
      BY <3>1
  <2> QED
    BY <2>1, <2>2
<1> DEFINE kept == Verified(w.found, hunks)
<1>4. PICK n \in DOMAIN kept : x = kept[n]
  BY <1>3 DEF ToSet
<1>5. PICK i \in DOMAIN w.found : x = w.found[i] /\ Survives(w.found[i], hunks)
  BY <1>2, <1>4, VerifiedIs
<1>6. x \in Finding /\ x.line > 0
  BY <1>1, <1>2, <1>5 DEF Settled
<1>7. x.line <= LinesOf[table[x.file].content] \/ InDiffRanges(x, hunks)
  BY <1>5 DEF Survives
<1>8. InDiffRanges(x, hunks) => hunks = w.hunks
  BY DEF InDiffRanges
<1>9. InDiffRanges(x, hunks) =>
        \E k \in DOMAIN w.hunks :
          LET new == HeadTree[w.hunks[k].of][x.file] IN new # None /\ x.line <= LinesOf[new]
  BY <1>2, <1>6, <1>8, DiffLines
<1> QED
  BY <1>7, <1>9

\* No hallucinated line survives: for any diff git can make, any index and any
\* answer of the LLM.
THEOREM CitationsHold == Spec => CitedLinesExist
<1>1. ReadsInv /\ [Next]_vars =>
        [\A p \in Process : Verify(p) \/ VerifyOnboarding(p) =>
           \A x \in ToSet(job'[p].kept) :
             \/ x.line <= LinesOf[table[x.file].content]
             \/ \E i \in DOMAIN job[p].hunks :
                  LET new == HeadTree[job[p].hunks[i].of][x.file]
                  IN new # None /\ x.line <= LinesOf[new]]_vars
  BY CitedLines, Zenon
<1> QED
  BY <1>1, Reads, PTL DEF Spec, CitedLinesExist

\* What the gate executes as a comment kept enough of its findings.
LEMMA HeldBack ==
  ASSUME ReadsInv, NEW p \in Process, PostSucceeds(p), PostsAsRequested(job[p])
  PROVE  100 * Len(job[p].kept) >= CommentThreshold * Len(job[p].found)
<1> DEFINE w == job[p]
<1>1. w \in Job /\ ReadOK(w, prHead) /\ w.pc = "post" /\ w.conf >= CommentThreshold
  BY JobFits DEF ReadsInv, PostSucceeds, PostsAsRequested
<1>2. Len(w.found) \in Nat /\ Len(w.kept) \in Nat
  BY <1>1 DEF Job
<1>3. PICK c \in 0..100 : w.conf = Blended(Len(w.found), Len(w.kept), c)
  BY <1>1 DEF ReadOK
<1> QED
  BY <1>1, <1>2, <1>3, BlendedIs

\* structural_confidence keeps a discredited review below the threshold of
\* the gate, for any number of findings and any confidence the LLM claims.
THEOREM DiscreditedHeldBack == Spec => DiscreditedIsHeldBack
<1>1. ReadsInv /\ [Next]_vars =>
        [\A p \in Process : PostSucceeds(p) /\ PostsAsRequested(job[p]) =>
           100 * Len(job[p].kept) >= CommentThreshold * Len(job[p].found)]_vars
  BY HeldBack, Zenon
<1> QED
  BY <1>1, Reads, PTL DEF Spec, DiscreditedIsHeldBack


\* Off the diff the index at the base tells what the head is.
LEMMA ExactOffTheDiff ==
  ASSUME ReadsInv, GraphOK, NEW p \in Process, Verify(p),
         repoHead = BaseOf[job[p].sha], ~job[p].moved, NEW x \in ToSet(job[p].found),
         x.file \in Indexable \ ToSet(PrFiles[job[p].sha])
  PROVE  LET there == HeadTree[job[p].sha][x.file]
         IN x \in ToSet(job'[p].kept) <=>
              /\ there # None
              /\ x.line <= LinesOf[there]
              /\ x.syntax => ~ParsesCleanly(x.file, there)
              /\ ~x.banned
<1> DEFINE w == job[p]
           f == x.file
           there == HeadTree[w.sha][f]
           kept == Verified(w.found, w.hunks)
<1>1. w \in Job /\ Settled(w) /\ w.sha \in PrCommit /\ job \in [Process -> Job]
  BY JobFits, SettledNow DEF ReadsInv, JobsRead, Verify, JobShape
<1>2. w.found \in Seq(Finding) /\ w.hunks \in Seq(Listed)
  BY <1>1 DEF Job
<1>3. f \in File /\ f \in Indexable
  BY GraphAssumption
<1>4. there = TreeOf[repoHead][f]
  BY <1>1, <1>3, ListedFiles
<1>5. table[f] # None <=> there # None
  <2>1. repoHead # None
    BY <1>1, AgentAssumption, GraphAssumption
  <2>2. there # None => table[f] # None
    BY <1>3, <1>4, <2>1 DEF ReadsInv, GraphRead, IndexFull, Indexed
  <2>3. table[f] # None => there # None
    <3> SUFFICES ASSUME table[f] # None PROVE there # None
      OBVIOUS
    <3>1. f \in Indexed
      BY <1>3 DEF Indexed
    <3>2. TreeOf[repoHead][f] = table[f].content /\ table[f] \in Row
      BY <3>1, RowTypes DEF ReadsInv
    <3> QED
      BY <1>4, <3>2, RowNotNone
  <2> QED
    BY <2>2, <2>3
<1>6. table[f] # None => table[f].content = there
  BY <1>3, <1>4 DEF GraphOK, EdgesAreAsOfTheirRow, Indexed
<1>7. ~InDiffRanges(x, w.hunks)
  <2>1. \A i \in DOMAIN w.hunks : w.hunks[i].file \in ToSet(PrFiles[w.sha])
    BY <1>1 DEF Settled, OfHead
  <2> QED
    BY <2>1 DEF InDiffRanges
<1>8. Survives(x, w.hunks) <=> /\ there # None
                               /\ x.line <= LinesOf[there]
                               /\ x.syntax => ~ParsesCleanly(f, there)
                               /\ ~x.banned
  BY <1>5, <1>6, <1>7 DEF Survives
<1>9. job'[p].kept = kept
  <2>1. PICK c \in Confidences, t \in Texts :
          Becomes(p, [w EXCEPT !.kept = kept, !.text = t, !.pc = "post",
                        !.conf = Blended(Len(w.found), Len(kept), c)])
    BY DEF Verify
  <2> QED
    BY <1>1, <2>1 DEF Becomes, Job
<1>10. x \in ToSet(kept) <=> Survives(x, w.hunks)
  <2>1. PICK i \in DOMAIN w.found : x = w.found[i]
    BY DEF ToSet
  <2> DEFINE found == w.found
             hunks == w.hunks
  <2>2. found \in Seq(Finding) /\ x = found[i] /\ i \in DOMAIN found
    BY <1>2, <2>1
  <2> HIDE DEF found, hunks
  <2> DEFINE all == Verified(found, hunks)
  <2>3. /\ \A n \in DOMAIN all : \E k \in DOMAIN found : all[n] = found[k] /\ Survives(found[k], hunks)
        /\ \A k \in DOMAIN found : Survives(found[k], hunks) => \E n \in DOMAIN all : all[n] = found[k]
    BY <2>2, VerifiedIs
  <2> HIDE DEF all
  <2>4. x \in ToSet(all) <=> Survives(x, hunks)
    BY <2>2, <2>3 DEF ToSet
  <2> QED
    BY <2>4 DEF found, hunks, all
<1> QED
  BY <1>8, <1>9, <1>10

\* On the files that a pull request leaves alone verify_findings neither drops
\* a true finding nor keeps a false one, whatever the LLM returned.
THEOREM GuardrailsAreExact == Spec => GuardrailsExactOffTheDiff
<1>1. ReadsInv /\ IInv /\ [Next]_vars =>
        [\A p \in Process : Verify(p) /\ repoHead = BaseOf[job[p].sha] /\ ~job[p].moved =>
           \A x \in ToSet(job[p].found) :
             x.file \in Indexable \ ToSet(PrFiles[job[p].sha]) =>
               LET there == HeadTree[job[p].sha][x.file]
               IN x \in ToSet(job'[p].kept) <=>
                    /\ there # None
                    /\ x.line <= LinesOf[there]
                    /\ x.syntax => ~ParsesCleanly(x.file, there)
                    /\ ~x.banned]_vars
  BY ExactOffTheDiff, Zenon DEF IInv
<1> QED
  BY <1>1, Reads, Invariant, PTL DEF Spec, GuardrailsExactOffTheDiff

\* diff_context_view shows what the first hunk of a file touches.
THEOREM SymbolsShown == Spec => []FirstHunkSymbolsShown
<1>1. ReadsInv /\ GraphOK => FirstHunkSymbolsShown
  <2> SUFFICES ASSUME ReadsInv, GraphOK, NEW h \in PrCommit, repoHead = BaseOf[h],
                      NEW f \in ToSet(PrFiles[h]) \cap Indexed,
                      Hunk(f, h).ranges # <<>>,
                      Hunk(f, h).ranges[1].count >= Hunk(f, h).ranges[1].oldCount,
                      Hunk(f, h).ranges[1].oldCount > 0,
                      NEW y \in SymbolsIn[TreeOf[BaseOf[h]][f]],
                      y.from < Hunk(f, h).ranges[1].oldStart + Hunk(f, h).ranges[1].oldCount,
                      y.to >= Hunk(f, h).ranges[1].oldStart
               PROVE  y \in FileContext(Hunk(f, h)).near
    BY DEF FirstHunkSymbolsShown
  <2> DEFINE hunk == Hunk(f, h)
             ranges == hunk.ranges
             first == ranges[1]
             c == table[f].content
             new == HeadTree[h][f]
  <2>1. f \in File /\ TreeOf[repoHead][f] = c /\ c \in Content
    BY RowTypes DEF ReadsInv
  <2>2. ranges = PatchOf[<<c, new>>] /\ hunk.file = f
    BY <2>1 DEF Hunk
  <2>3. new \in Content \cup {None}
    BY <2>1, AgentAssumption
  <2>4. /\ ranges \in Seq(LineRange)
        /\ ranges # <<>> /\ first.count > 0 /\ first.oldCount > 0 => first.start = first.oldStart
    BY <2>1, <2>2, <2>3, PatchAssumption
  <2>5. ranges # <<>> /\ first.count >= first.oldCount /\ first.oldCount > 0
        /\ y.from < first.oldStart + first.oldCount /\ y.to >= first.oldStart
    OBVIOUS
  <2>6. y \in SymbolsIn[c] /\ y.from \in Nat /\ y.to \in Nat
    BY <2>1, ViewAssumption
  <2>7. FileContext(hunk).near = SymbolsNearChanges(c, ranges)
    BY <2>2 DEF FileContext
  <2> HIDE DEF ranges, hunk
  <2>8. first \in LineRange /\ 1 \in DOMAIN ranges
    BY <2>4, <2>5
  <2>9. Overlaps(y, ranges)
    <3> HIDE DEF first
    <3>1. /\ first.count \in Nat /\ first.start \in Nat /\ first.oldStart \in Nat
          /\ first.oldCount \in Nat
      BY <2>8 DEF LineRange
    <3>2. first.count > 0 /\ first.start = first.oldStart
      BY <2>4, <2>5, <3>1
    <3>3. RangeEnd(first) = first.start + first.count - 1
      BY <3>1, <3>2 DEF RangeEnd
    <3>4. y.from <= RangeEnd(first) /\ y.to >= first.start
      BY <2>5, <2>6, <3>1, <3>2, <3>3
    <3> QED
      BY <2>8, <3>4 DEF Overlaps, first
  <2> QED
    BY <2>6, <2>7, <2>9 DEF SymbolsNearChanges, hunk
<1>2. IInv => GraphOK
  BY DEF IInv
<1> QED
  BY <1>1, <1>2, Reads, Invariant, PTL


-----------------------------------------------------------------------------
(* The views follow the tree.                                              *)

LEMMA StatementsAre ==
  ASSUME NEW s \in Sha
  PROVE  /\ \A g \in RowsAt(s, File) : \A i \in DOMAIN ImportsIn[TreeOf[s][g]] :
              <<g, i>> \in DOMAIN TargetsAt[s]
         /\ \A st \in DOMAIN TargetsAt[s] :
              /\ st = <<st[1], st[2]>>
              /\ st[1] \in RowsAt(s, File)
              /\ st[2] \in DOMAIN ImportsIn[TreeOf[s][st[1]]]
              /\ TargetsAt[s][st] =
                   {Resolve(ImportsIn[TreeOf[s][st[1]]][st[2]], st[1], roots, Disk(s)) :
                      roots \in RootsAt[s]}
<1> DEFINE all == UNION {{<<g, i>> : i \in DOMAIN ImportsIn[TreeOf[s][g]]} :
                           g \in RowsAt(s, File)}
           target(st) == {Resolve(ImportsIn[TreeOf[s][st[1]]][st[2]], st[1], roots, Disk(s)) :
                            roots \in RootsAt[s]}
<1>1. TargetsAt[s] = [st \in all |-> target(st)]
  BY DEF TargetsAt
<1>2. \A st \in all : /\ st = <<st[1], st[2]>> /\ st[1] \in RowsAt(s, File)
                      /\ st[2] \in DOMAIN ImportsIn[TreeOf[s][st[1]]]
  OBVIOUS
<1>3. \A g \in RowsAt(s, File) : \A i \in DOMAIN ImportsIn[TreeOf[s][g]] : <<g, i>> \in all
  OBVIOUS
<1> HIDE DEF all, target
<1>4. DOMAIN TargetsAt[s] = all /\ \A st \in all : TargetsAt[s][st] = target(st)
  BY <1>1
<1> QED
  BY <1>2, <1>3, <1>4 DEF target

\* While the set of files stays the same, edges and import statements of the
\* indexed commit correspond one to one, wherever resolve_import may point.
Matched ==
  /\ \A e \in edges : /\ <<e.src, e.at>> \in Statements
                      /\ e.dst \in Targets(<<e.src, e.at>>)
                      /\ e.src \in Indexed
  /\ \A e, d \in edges : e.src = d.src /\ e.at = d.at => e = d
  /\ \A st \in Statements : \E e \in edges : <<e.src, e.at>> = st
  /\ \A st \in Statements : st = <<st[1], st[2]>>

LEMMA EdgesMatch ==
  ASSUME GraphOK, GraphRead, steady
  PROVE  Matched
<1> DEFINE s == repoHead
           stmts(g) == ImportsIn[TreeOf[s][g]]
<1>1. s \in Sha /\ \A f \in Indexed : Disk(table[f].sha) = Disk(s)
  BY DEF GraphRead, RowsSteady
<1>2. RowsAt(s, File) = Indexed
  <2>1. \A f \in Indexed : f \in File /\ f \in Indexable /\ TreeOf[s][f] # None
    <3> TAKE f \in Indexed
    <3>1. TreeOf[s][f] = table[f].content /\ table[f] \in Row /\ f \in File
      BY RowTypes
    <3> QED
      BY <3>1, RowNotNone DEF GraphOK
  <2>2. \A f \in RowsAt(s, File) : f \in Indexed
    BY <1>1, GraphAssumption DEF RowsAt, GraphRead, IndexFull
  <2> QED
    BY <2>1, <2>2 DEF RowsAt
<1>3. ASSUME NEW f \in Indexed
      PROVE  \E roots \in RootsAt[s] :
               {e \in edges : e.src = f} =
                 {[src |-> f, at |-> i, dst |-> Resolve(stmts(f)[i], f, roots, Disk(s))] :
                    i \in DOMAIN stmts(f)}
  <2>1. PICK roots \in RootsAt[table[f].sha] :
          {e \in edges : e.src = f} = EdgesOf(f, table[f].sha, roots)
    BY DEF GraphOK, EdgesAreAsOfTheirRow
  <2>2. /\ TreeOf[table[f].sha][f] = TreeOf[s][f] /\ Disk(table[f].sha) = Disk(s)
        /\ table[f].sha \in Sha
    BY <1>1, RowTypes
  <2>3. RootsAt[table[f].sha] = RootsAt[s]
    BY <1>1, <2>2 DEF RootsAt
  <2> QED
    BY <2>1, <2>2, <2>3 DEF EdgesOf
<1>4. \A e \in edges : e.src \in Indexed
  BY DEF GraphOK, EdgesAreAsOfTheirRow
<1>5. /\ \A g \in Indexed : \A i \in DOMAIN stmts(g) : <<g, i>> \in Statements
      /\ \A st \in Statements :
           /\ st = <<st[1], st[2]>> /\ st[1] \in Indexed /\ st[2] \in DOMAIN stmts(st[1])
           /\ Targets(st) = {Resolve(stmts(st[1])[st[2]], st[1], roots, Disk(s)) :
                               roots \in RootsAt[s]}
  BY <1>1, <1>2, StatementsAre DEF Statements, Targets
<1> HIDE DEF stmts
<1>6. ASSUME NEW e \in edges
      PROVE  /\ <<e.src, e.at>> \in Statements
             /\ e.dst \in Targets(<<e.src, e.at>>)
             /\ \A d \in edges : e.src = d.src /\ e.at = d.at => e = d
  <2> DEFINE f == e.src
  <2>1. f \in Indexed
    BY <1>4
  <2>2. PICK roots \in RootsAt[s] :
          {d \in edges : d.src = f} =
            {[src |-> f, at |-> i, dst |-> Resolve(stmts(f)[i], f, roots, Disk(s))] :
               i \in DOMAIN stmts(f)}
    BY <1>3, <2>1
  <2> DEFINE edge(i) == [src |-> f, at |-> i, dst |-> Resolve(stmts(f)[i], f, roots, Disk(s))]
  <2>3. \A d \in edges : d.src = f => d.at \in DOMAIN stmts(f) /\ d = edge(d.at)
    <3> SUFFICES ASSUME NEW d \in edges, d.src = f
                 PROVE  d.at \in DOMAIN stmts(f) /\ d = edge(d.at)
      OBVIOUS
    <3>1. PICK i \in DOMAIN stmts(f) : d = edge(i)
      BY <2>2
    <3> QED
      BY <3>1
  <2>4. e.at \in DOMAIN stmts(f) /\ e.dst = Resolve(stmts(f)[e.at], f, roots, Disk(s))
    BY <2>3
  <2>5. <<f, e.at>> \in Statements
    BY <1>5, <2>1, <2>4
  <2>6. e.dst \in Targets(<<f, e.at>>)
    BY <1>5, <2>4, <2>5
  <2>7. \A d \in edges : f = d.src /\ e.at = d.at => e = d
    BY <2>3, Zenon
  <2> QED
    BY <2>5, <2>6, <2>7
<1>7. ASSUME NEW st \in Statements PROVE \E e \in edges : <<e.src, e.at>> = st
  <2> DEFINE f == st[1]
  <2>1. f \in Indexed /\ st[2] \in DOMAIN stmts(f) /\ st = <<f, st[2]>>
    BY <1>5
  <2> HIDE DEF f
  <2>2. PICK roots \in RootsAt[s] :
          {d \in edges : d.src = f} =
            {[src |-> f, at |-> i, dst |-> Resolve(stmts(f)[i], f, roots, Disk(s))] :
               i \in DOMAIN stmts(f)}
    BY <1>3, <2>1
  <2> DEFINE e == [src |-> f, at |-> st[2],
                   dst |-> Resolve(stmts(f)[st[2]], f, roots, Disk(s))]
  <2>3. e \in edges /\ e.src = f /\ e.at = st[2]
    BY <2>1, <2>2
  <2> QED
    BY <2>1, <2>3
<1>8. \A st \in Statements : st = <<st[1], st[2]>>
  BY <1>5
<1> QED
  BY <1>4, <1>6, <1>7, <1>8 DEF Matched


LEMMA StatementsFinite ==
  ASSUME GraphOK, GraphRead, Matched
  PROVE  IsFiniteSet(Statements)
<1> DEFINE g == [e \in edges |-> <<e.src, e.at>>]
           all == {g[e] : e \in edges}
<1>1. DOMAIN g = edges /\ g = [e \in edges |-> g[e]]
  OBVIOUS
<1>2. \A e \in edges : g[e] = <<e.src, e.at>>
  OBVIOUS
<1> HIDE DEF g
<1>3. IsFiniteSet(all)
  BY <1>1, EdgesFinite, ImageFinite
<1>4. Statements \in SUBSET all
  BY <1>2 DEF Matched
<1> HIDE DEF all
<1> QED
  BY <1>3, <1>4, FS_Subset

\* The in-degree of a file counts the statements that import it.
LEMMA DegreesMatch ==
  ASSUME GraphOK, GraphRead, Matched, NEW f
  PROVE  /\ Cardinality(MustImport(f)) \in Nat /\ Cardinality(MayImport(f)) \in Nat
         /\ Cardinality(MustImport(f)) <= InDegree(f)
         /\ InDegree(f) <= Cardinality(MayImport(f))
<1> DEFINE in == {e \in edges : e.dst = f}
           g == [e \in in |-> <<e.src, e.at>>]
           image == {g[e] : e \in in}
           must == MustImport(f)
           may == MayImport(f)
<1>1. in \in SUBSET edges /\ \A e \in in : e.dst = f
  OBVIOUS
<1>2. IsFiniteSet(in)
  BY <1>1, EdgesFinite, FS_Subset
<1>3. must \in SUBSET Statements /\ may \in SUBSET Statements
  BY DEF MustImport, MayImport
<1>4. IsFiniteSet(must) /\ IsFiniteSet(may)
  BY <1>3, StatementsFinite, FS_Subset
<1>5. DOMAIN g = in /\ g = [e \in in |-> g[e]] /\ \A e \in in : g[e] = <<e.src, e.at>>
  OBVIOUS
<1>6. must \in SUBSET image
  <2> SUFFICES ASSUME NEW st \in must PROVE st \in image
    OBVIOUS
  <2>1. st \in Statements /\ Targets(st) = {f}
    BY DEF MustImport
  <2>2. PICK e \in edges : <<e.src, e.at>> = st
    BY <2>1 DEF Matched
  <2>3. e.dst = f
    BY <2>1, <2>2 DEF Matched
  <2> QED
    BY <1>5, <2>2, <2>3
<1>7. \A e \in in : g[e] \in may
  BY <1>1, <1>5 DEF Matched, MayImport
<1>8. \A d, e \in in : g[d] = g[e] => d = e
  BY <1>1, <1>5 DEF Matched
<1> HIDE DEF in, g
<1>9. IsFiniteSet(image) /\ Cardinality(image) <= Cardinality(in)
  BY <1>2, <1>5, ImageFinite
<1> HIDE DEF image, must, may
<1>10. Cardinality(must) <= Cardinality(image)
  BY <1>6, <1>9, FS_Subset
<1>11. g \in Injection(in, may)
  <2>1. g \in [in -> may]
    BY <1>5, <1>7
  <2> QED
    BY <1>5, <1>8, <2>1 DEF Injection, IsInjective
<1>12. Cardinality(in) <= Cardinality(may)
  BY <1>4, <1>11, FS_Injection
<1>13. /\ Cardinality(must) \in Nat /\ Cardinality(may) \in Nat
       /\ Cardinality(in) \in Nat /\ Cardinality(image) \in Nat
  BY <1>2, <1>4, <1>9, FS_CardinalityType
<1>14. InDegree(f) = Cardinality(in)
  BY DEF InDegree, in
<1> QED
  BY <1>9, <1>10, <1>12, <1>13, <1>14 DEF must, may

\* load_bearing_view ranks files by the import statements of the indexed
\* commit that point at them, several of one file and its own among them, for
\* any order of package roots and any limit.
THEOREM RanksCount == Spec => []RanksCountStatements
<1>1. GraphOK /\ GraphRead => RanksCountStatements
  <2> DEFINE listed == LoadBearing(ListLimit)
  <2> SUFFICES ASSUME GraphOK, GraphRead, steady, NEW i \in DOMAIN listed
               PROVE  /\ Cardinality(MustImport(listed[i])) <= InDegree(listed[i])
                      /\ InDegree(listed[i]) <= Cardinality(MayImport(listed[i]))
                      /\ \A g \in Indexed \ ToSet(listed) :
                           Cardinality(MustImport(g)) <= Cardinality(MayImport(listed[i]))
    BY DEF RanksCountStatements
  <2>1. Matched
    BY EdgesMatch
  <2>2. /\ Len(listed) \in Nat
        /\ Len(listed) = IF ListLimit <= Cardinality(Indexed) THEN ListLimit
                         ELSE Cardinality(Indexed)
        /\ DOMAIN listed = 1..Len(listed)
        /\ \A n \in 1..Len(listed) : listed[n] \in Indexed /\ RankOf(listed[n]) = n - 1
    BY ViewAssumption, LoadBearingIs
  <2> HIDE DEF listed
  <2>3. ASSUME NEW g \in Indexed \ ToSet(listed)
        PROVE  InDegree(g) <= InDegree(listed[i])
    <3>1. g # listed[i] /\ i \in 1..Len(listed) /\ listed[i] \in Indexed
      BY <2>2 DEF ToSet
    <3>2. RankOf(g) \in Nat /\ RankOf(listed[i]) = i - 1
      BY <2>2, <3>1, RanksAre
    <3>3. RankOf(g) >= Len(listed)
      <4> SUFFICES ASSUME RankOf(g) < Len(listed) PROVE FALSE
        BY <2>2, <3>2
      <4> DEFINE n == RankOf(g) + 1
      <4>1. n \in 1..Len(listed) /\ n - 1 = RankOf(g)
        BY <2>2, <3>2
      <4> HIDE DEF n
      <4>2. listed[n] \in Indexed /\ RankOf(listed[n]) = RankOf(g)
        BY <2>2, <4>1
      <4>3. listed[n] # g
        BY <2>2, <4>1 DEF ToSet
      <4> QED
        BY <3>2, <4>2, <4>3, RanksAre
    <3>4. ~(RankOf(g) < RankOf(listed[i]))
      BY <2>2, <3>1, <3>2, <3>3
    <3>5. Before(listed[i], g)
      BY <3>1, <3>4, RanksAre
    <3>6. InDegree(g) \in Nat /\ InDegree(listed[i]) \in Nat
      BY DegreeIs
    <3> DEFINE at(h) == CHOOSE k \in DOMAIN PathOrder : PathOrder[k] = h
    <3>7. (InDegree(listed[i]) > InDegree(g))
            \/ (InDegree(listed[i]) = InDegree(g) /\ at(listed[i]) < at(g))
      BY <3>5 DEF Before
    <3> HIDE DEF at
    <3> QED
      BY <3>6, <3>7
  <2>4. \A f : /\ Cardinality(MustImport(f)) \in Nat /\ Cardinality(MayImport(f)) \in Nat
               /\ InDegree(f) \in Nat
               /\ Cardinality(MustImport(f)) <= InDegree(f)
               /\ InDegree(f) <= Cardinality(MayImport(f))
    BY <2>1, DegreesMatch, DegreeIs
  <2> QED
    BY <2>3, <2>4
<1>2. IInv => GraphOK
  BY DEF IInv
<1>3. ReadsInv => GraphRead
  BY DEF ReadsInv
<1> QED
  BY <1>1, <1>2, <1>3, Reads, Invariant, PTL

LEMMA CutIs ==
  ASSUME NEW es, NEW k \in Cut(es)
  PROVE  /\ k \subseteq es
         /\ Cardinality(es) <= MaxNeighbors => k = es
BY DEF Cut

\* neighborhood_view reports only what is in the indexed commit, and leaves out
\* an import only where its cut allows.
THEOREM NeighborsFollow == Spec => []NeighborsFollowTheTree
<1>1. GraphOK /\ GraphRead => NeighborsFollowTheTree
  <2> SUFFICES ASSUME GraphOK, GraphRead, steady, NEW f \in Indexed
               PROVE  LET own == {st \in Statements : st[1] = f}
                          sure == {g \in Indexed : \E st \in own : Targets(st) = {g}}
                      IN /\ \A shown \in NeighborImports(f) :
                              /\ shown \subseteq UNION {Targets(st) : st \in own}
                              /\ Cardinality(own) <= MaxNeighbors => sure \subseteq shown
                         /\ \A shown \in NeighborImportedBy(f) :
                              shown \subseteq {st[1] : st \in MayImport(f)}
                         /\ \A i \in Unresolved(f) : None \in Targets(<<f, i>>)
    BY DEF NeighborsFollowTheTree
  <2> DEFINE own == {st \in Statements : st[1] = f}
             sure == {g \in Indexed : \E st \in own : Targets(st) = {g}}
             out == {e \in edges : e.src = f /\ e.dst # None}
             in == {e \in edges : e.dst = f}
  <2>1. Matched
    BY EdgesMatch
  <2>2. \A e \in edges : e.src = f => <<f, e.at>> \in own /\ e.dst \in Targets(<<f, e.at>>)
    BY <2>1 DEF Matched
  <2>3. Cardinality(own) <= MaxNeighbors => Cardinality(out) <= MaxNeighbors
    <3> DEFINE g == [e \in out |-> <<e.src, e.at>>]
    <3>1. DOMAIN g = out /\ \A e \in out : g[e] = <<f, e.at>>
      OBVIOUS
    <3>2. \A e \in out : g[e] \in own
      BY <2>2, <3>1
    <3>3. \A d, e \in out : g[d] = g[e] => d = e
      BY <2>1, <3>1 DEF Matched
    <3>4. g = [e \in out |-> g[e]]
      OBVIOUS
    <3>5. own \in SUBSET Statements /\ out \in SUBSET edges
      OBVIOUS
    <3> HIDE DEF g, out, own
    <3>6. IsFiniteSet(own) /\ IsFiniteSet(out)
      BY <2>1, <3>5, StatementsFinite, EdgesFinite, FS_Subset
    <3>7. g \in Injection(out, own)
      BY <3>1, <3>2, <3>3, <3>4 DEF Injection, IsInjective
    <3>8. Cardinality(out) <= Cardinality(own)
      BY <3>6, <3>7, FS_Injection
    <3>9. Cardinality(out) \in Nat /\ Cardinality(own) \in Nat /\ MaxNeighbors \in Nat
      BY <3>6, FS_CardinalityType, ViewAssumption
    <3> QED
      BY <3>8, <3>9
  <2>4. ASSUME NEW shown \in NeighborImports(f)
        PROVE  /\ shown \subseteq UNION {Targets(st) : st \in own}
               /\ Cardinality(own) <= MaxNeighbors => sure \subseteq shown
    <3>1. PICK k \in Cut(out) : shown = {e.dst : e \in k} \cap Indexed
      BY DEF NeighborImports
    <3>2. k \subseteq out /\ (Cardinality(out) <= MaxNeighbors => k = out)
      BY CutIs
    <3>3. shown \subseteq UNION {Targets(st) : st \in own}
      <4> SUFFICES ASSUME NEW g \in shown PROVE \E st \in own : g \in Targets(st)
        OBVIOUS
      <4>1. PICK e \in k : g = e.dst
        BY <3>1
      <4> QED
        BY <2>2, <3>2, <4>1
    <3>4. Cardinality(own) <= MaxNeighbors => sure \subseteq shown
      <4> SUFFICES ASSUME k = out, NEW g \in sure PROVE g \in shown
        BY <2>3, <3>2
      <4>1. g \in Indexed
        OBVIOUS
      <4>2. PICK st \in own : Targets(st) = {g}
        OBVIOUS
      <4>3. PICK e \in edges : <<e.src, e.at>> = st
        BY <2>1, <4>2 DEF Matched
      <4>4. e.src = f /\ e.dst = g
        BY <2>1, <4>2, <4>3 DEF Matched
      <4>5. g # None
        BY <4>1, GraphAssumption DEF Indexed
      <4> QED
        BY <3>1, <4>1, <4>4, <4>5
    <3> QED
      BY <3>3, <3>4
  <2>5. ASSUME NEW shown \in NeighborImportedBy(f)
        PROVE  shown \subseteq {st[1] : st \in MayImport(f)}
    <3>1. PICK k \in Cut(in) : shown = {e.src : e \in k} \cap Indexed
      BY DEF NeighborImportedBy
    <3>2. k \subseteq in
      BY CutIs
    <3> SUFFICES ASSUME NEW g \in shown PROVE \E st \in MayImport(f) : g = st[1]
      OBVIOUS
    <3>3. PICK e \in k : g = e.src
      BY <3>1
    <3>4. e \in edges /\ e.dst = f
      BY <3>2
    <3>5. <<g, e.at>> \in MayImport(f)
      BY <2>1, <3>3, <3>4 DEF Matched, MayImport
    <3> QED
      BY <3>5
  <2>6. \A i \in Unresolved(f) : None \in Targets(<<f, i>>)
    BY <2>2 DEF Unresolved
  <2> QED
    BY <2>4, <2>5, <2>6
<1>2. IInv => GraphOK
  BY DEF IInv
<1>3. ReadsInv => GraphRead
  BY DEF ReadsInv
<1> QED
  BY <1>1, <1>2, <1>3, Reads, Invariant, PTL
=============================================================================
