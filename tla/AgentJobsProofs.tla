--------------------------- MODULE AgentJobsProofs --------------------------
(***************************************************************************)
(* Theorems about AgentJobs and the import graph it runs on, for any       *)
(* repository and history of commits, any pull requests, any answers of    *)
(* the LLM and any number of CLI processes.                                *)
(***************************************************************************)
EXTENDS AgentJobs, TLAPS

-----------------------------------------------------------------------------
(* The import graph.                                                       *)

GraphOK ==
  /\ head \in Sha /\ repoHead \in Sha \cup {None}
  /\ table \in [File -> Row \cup {None}]
  /\ Indexed \subseteq Indexable
  /\ Indexed # {} => repoHead \in Sha
  /\ EdgesAreAsOfTheirRow

LEMMA GraphInitOK == GraphInit => GraphOK
<1> SUFFICES ASSUME GraphInit PROVE GraphOK
  OBVIOUS
<1>1. Indexed = {}
  BY DEF GraphInit, Indexed
<1> QED
  BY <1>1 DEF GraphInit, GraphOK, EdgesAreAsOfTheirRow

LEMMA TreeType ==
  ASSUME NEW s \in Sha, NEW f \in File
  PROVE  TreeOf[s][f] \in Content \cup {None}
BY GraphAssumption

\* What a run stores of the files it parses.
LEMMA ParseMeaning ==
  ASSUME GraphOK, NEW files \in SUBSET File, table' = Parse(RowsAt(head, files), head)
  PROVE  /\ table' \in [File -> Row \cup {None}]
         /\ \A f \in RowsAt(head, files) :
              /\ table'[f] \in Row
              /\ table'[f].content = TreeOf[head][f] /\ table'[f].sha = head
         /\ \A f \in File \ RowsAt(head, files) :
              table'[f] = IF TreeOf[head][f] = None THEN None ELSE table[f]
<1> DEFINE new(f) == [content |-> TreeOf[head][f], sha |-> head]
<1>1. \A f \in RowsAt(head, files) : f \in File /\ new(f) \in Row
  BY TreeType DEF RowsAt, Row, GraphOK
<1>2. \A f : new(f).content = TreeOf[head][f] /\ new(f).sha = head
  OBVIOUS
<1>3. table' = [f \in File |-> IF f \in RowsAt(head, files) THEN new(f)
                             ELSE IF TreeOf[head][f] = None THEN None ELSE table[f]]
  BY DEF Parse
<1> HIDE DEF new
<1>4. \A f \in RowsAt(head, files) : table'[f] = new(f)
  BY <1>1, <1>3
<1>5. \A f \in File \ RowsAt(head, files) :
        table'[f] = IF TreeOf[head][f] = None THEN None ELSE table[f]
  BY <1>3
<1>6. table' \in [File -> Row \cup {None}]
  BY <1>1, <1>3 DEF GraphOK
<1> QED
  BY <1>1, <1>2, <1>4, <1>5, <1>6

LEMMA RowNotNone ==
  ASSUME NEW r \in Row
  PROVE  r # None /\ r.content \in Content /\ r.content # None /\ r.sha \in Sha
BY GraphAssumption DEF Row

\* The edges built for a set of files, seen from one file.
LEMMA BuiltFor ==
  ASSUME NEW files, NEW s, NEW roots, NEW f
  PROVE  {e \in BuildEdges(files, s, roots) : e.src = f} =
           IF f \in files THEN EdgesOf(f, s, roots) ELSE {}
<1>1. \A g : \A e \in EdgesOf(g, s, roots) : e.src = g
  BY DEF EdgesOf
<1> HIDE DEF EdgesOf
<1> QED
  BY <1>1 DEF BuildEdges

LEMMA FullIndexOK ==
  ASSUME GraphOK, FullIndex
  PROVE  GraphOK'
<1> DEFINE parsed == RowsAt(head, File)
<1>1. PICK roots \in RootsAt[head] : edges' = BuildEdges(parsed, head, roots)
  BY DEF FullIndex
<1>2. table' = Parse(parsed, head) /\ repoHead' = head /\ head' = head
  BY DEF FullIndex
<1>3. /\ table' \in [File -> Row \cup {None}]
      /\ \A f \in parsed :
           /\ table'[f] \in Row
           /\ table'[f].content = TreeOf[head][f] /\ table'[f].sha = head
      /\ \A f \in File \ parsed :
           table'[f] = IF TreeOf[head][f] = None THEN None ELSE table[f]
  BY <1>2, ParseMeaning
<1>4. Indexed' \subseteq parsed
  <2> SUFFICES ASSUME NEW f \in File, table'[f] # None, f \notin parsed
               PROVE  FALSE
    BY DEF Indexed
  <2>1. TreeOf[head][f] # None /\ f \in Indexed
    BY <1>3 DEF Indexed
  <2> QED
    BY <2>1 DEF GraphOK, RowsAt
<1>5. parsed \subseteq Indexable /\ parsed \subseteq File
  BY DEF RowsAt
<1>6. EdgesAreAsOfTheirRow'
  <2>1. \A f \in Indexed' : table'[f].content = TreeOf[repoHead'][f] /\ table'[f].sha = head
    BY <1>2, <1>3, <1>4
  <2>2. \A f \in Indexed' : {e \in edges' : e.src = f} = EdgesOf(f, table'[f].sha, roots)
    BY <1>1, <1>4, <2>1, BuiltFor
  <2>3. \A e \in edges' : e.src \in parsed
    BY <1>1 DEF BuildEdges, EdgesOf
  <2>4. parsed \subseteq Indexed'
    <3> SUFFICES ASSUME NEW f \in parsed PROVE table'[f] # None
      BY <1>5 DEF Indexed
    <3> QED
      BY <1>3, RowNotNone
  <2> QED
    BY <1>1, <2>1, <2>2, <2>3, <2>4 DEF EdgesAreAsOfTheirRow
<1> QED
  BY <1>2, <1>3, <1>4, <1>5, <1>6 DEF GraphOK

\* Whatever files the diff leaves out keep the row and the edges of the run
\* that parsed them last.
LEMMA IncrementalIndexOK ==
  ASSUME GraphOK, IncrementalIndex
  PROVE  GraphOK'
<1> DEFINE changed == ChangedFiles(repoHead, head)
           parsed == RowsAt(head, changed)
<1>1. PICK roots \in RootsAt[head] :
        edges' = {e \in edges : e.src \notin Replaced(changed)}
                   \cup BuildEdges(parsed, head, roots)
  BY DEF IncrementalIndex
<1>2. table' = Parse(parsed, head) /\ repoHead' = head /\ head' = head
  BY DEF IncrementalIndex
<1>3. /\ changed \subseteq File
      /\ \A f \in File : f \in changed <=> TreeOf[repoHead][f] # TreeOf[head][f]
  BY DEF ChangedFiles
<1>4. \A f \in File : f \in parsed <=>
        f \in changed /\ f \in Indexable /\ TreeOf[head][f] # None
  BY DEF RowsAt
<1>5. parsed \subseteq File
  BY DEF RowsAt, ChangedFiles
<1>6. Replaced(changed) =
        {f \in changed : \/ TreeOf[head][f] = None
                         \/ TreeOf[repoHead][f] # None /\ f \in Indexable}
  BY DEF Replaced
<1>7. /\ table' \in [File -> Row \cup {None}]
      /\ \A f \in parsed :
           /\ table'[f] \in Row
           /\ table'[f].content = TreeOf[head][f] /\ table'[f].sha = head
      /\ \A f \in File \ parsed :
           table'[f] = IF TreeOf[head][f] = None THEN None ELSE table[f]
  BY <1>2, <1>3, ParseMeaning
<1> HIDE DEF changed, parsed
<1>8. \A f \in Indexed : /\ f \in File /\ f \in Indexable
                         /\ table[f].content = TreeOf[repoHead][f]
                         /\ TreeOf[repoHead][f] # None
  <2> SUFFICES ASSUME NEW f \in Indexed
               PROVE  /\ f \in File /\ f \in Indexable
                      /\ table[f].content = TreeOf[repoHead][f]
                      /\ TreeOf[repoHead][f] # None
    OBVIOUS
  <2>1. f \in File /\ table[f] \in Row
    BY DEF Indexed, GraphOK
  <2> QED
    BY <2>1, RowNotNone DEF GraphOK, EdgesAreAsOfTheirRow
\* What the rows of a file become.
<1>9. \A f \in parsed : f \in Indexed'
  <2> SUFFICES ASSUME NEW f \in parsed PROVE table'[f] # None
    BY <1>5 DEF Indexed
  <2> QED
    BY <1>7, RowNotNone
<1>10. \A f \in Indexed' \ parsed :
         /\ f \in Indexed /\ f \in File /\ TreeOf[head][f] # None
         /\ table'[f] = table[f] /\ f \notin changed
  BY <1>4, <1>7, <1>8 DEF Indexed
<1>11. \A f \in Indexed \ Indexed' : f \in Replaced(changed)
  <2> SUFFICES ASSUME NEW f \in Indexed, f \notin Indexed'
               PROVE  f \in Replaced(changed)
    OBVIOUS
  <2>1. f \in File /\ table[f] # None /\ table'[f] = None
    BY DEF Indexed
  <2>2. TreeOf[head][f] = None
    BY <1>7, <1>9, <2>1
  <2> QED
    BY <1>3, <1>6, <1>8, <2>1, <2>2
\* Its edges.
<1>12. \A f : {e \in edges' : e.src = f} =
               (IF f \in Replaced(changed) THEN {} ELSE {e \in edges : e.src = f})
                 \cup (IF f \in parsed THEN EdgesOf(f, head, roots) ELSE {})
  BY <1>1, BuiltFor
<1>13. \A e \in edges' : e.src \in Indexed'
  <2> SUFFICES ASSUME NEW e \in edges' PROVE e.src \in Indexed'
    OBVIOUS
  <2>1. CASE e \in edges /\ e.src \notin Replaced(changed)
    BY <1>11, <2>1 DEF GraphOK, EdgesAreAsOfTheirRow
  <2>2. CASE e \in BuildEdges(parsed, head, roots)
    BY <1>9, <2>2 DEF BuildEdges, EdgesOf
  <2> QED
    BY <1>1, <2>1, <2>2
<1>14. \A f \in Indexed' :
         /\ table'[f].content = TreeOf[repoHead'][f]
         /\ \E r \in RootsAt[table'[f].sha] :
              {e \in edges' : e.src = f} = EdgesOf(f, table'[f].sha, r)
  <2> TAKE f \in Indexed'
  <2>1. CASE f \in parsed
    <3>1. table'[f].content = TreeOf[head][f] /\ table'[f].sha = head
      BY <1>7, <2>1
    <3>2. {e \in edges : e.src = f} = {} \/ f \in Replaced(changed)
      <4>1. CASE f \in Indexed
        BY <1>4, <1>5, <1>6, <1>8, <2>1, <4>1
      <4>2. CASE f \notin Indexed
        BY <4>2 DEF GraphOK, EdgesAreAsOfTheirRow
      <4> QED
        BY <4>1, <4>2
    <3>3. {e \in edges' : e.src = f} = EdgesOf(f, head, roots)
      BY <1>12, <2>1, <3>2
    <3> QED
      BY <1>2, <3>1, <3>3
  <2>2. CASE f \notin parsed
    <3>1. f \in Indexed /\ table'[f] = table[f] /\ f \notin changed /\ f \in File
      BY <1>10, <2>2
    <3>2. {e \in edges' : e.src = f} = {e \in edges : e.src = f}
      BY <1>6, <1>12, <2>2, <3>1
    <3>3. TreeOf[repoHead][f] = TreeOf[head][f]
      BY <1>3, <3>1
    <3>4. /\ table[f].content = TreeOf[repoHead][f]
          /\ \E r \in RootsAt[table[f].sha] :
               {e \in edges : e.src = f} = EdgesOf(f, table[f].sha, r)
      BY <3>1 DEF GraphOK, EdgesAreAsOfTheirRow
    <3> QED
      BY <1>2, <3>1, <3>2, <3>3, <3>4
  <2> QED
    BY <2>1, <2>2
<1>15. Indexed' \subseteq Indexable
  BY <1>4, <1>5, <1>8, <1>10
<1>16. EdgesAreAsOfTheirRow'
  BY <1>13, <1>14 DEF EdgesAreAsOfTheirRow
<1> QED
  BY <1>2, <1>7, <1>15, <1>16 DEF GraphOK

-----------------------------------------------------------------------------
(* The worker's reviews.                                                   *)

Fields == {"kind", "target", "pc", "tries", "sha", "posted"}
Late == {"analyze", "read", "verify", "group", "post", "commit"}
HasRow(h) == \E r \in rows : r.agent = "pr_reviewer" /\ r.sha = h

\* What the record of process p says of itself.
JobOK(p, j) ==
  /\ Fields \subseteq DOMAIN j
  /\ j.kind = "review" <=> j.target \in PR
  /\ j.pc \in {"idle", "resolve", "pr"} => j.sha = None
  /\ j.posted \in BOOLEAN
  /\ j.posted => p = Worker /\ j.kind = "review" /\ j.pc = "commit"

\* The worker got past the sha skip: no row names the head it read.
Unreviewed(j) == j.kind = "review" /\ j.pc \in Late /\ j.sha # None => ~HasRow(j.sha)

InFlight(h) == job[Worker].posted /\ job[Worker].sha = h

\* A review of h has a row, has lost it, or is about to get one.
Counted(h) ==
  reviews[h] <= unrecorded[h] + (IF InFlight(h) \/ HasRow(h) THEN 1 ELSE 0)

\* The worker reads or reviews the head of pr.
InReview(pr) ==
  /\ job[Worker].target = pr /\ job[Worker].kind = "review"
  /\ job[Worker].pc \notin {"idle", "resolve", "pr"} /\ job[Worker].sha = prHead[pr]

Followed(pr) == pr \in pending \/ YetToRead(pr) \/ InReview(pr) \/ HasRow(prHead[pr])

JobsOK ==
  /\ job = [p \in Process |-> job[p]]
  /\ \A p \in Process : JobOK(p, job[p])
  /\ Unreviewed(job[Worker])
CountsOK ==
  /\ reviews \in [PrCommit -> Nat] /\ unrecorded \in [PrCommit -> Nat]
  /\ \A h \in PrCommit : Counted(h)
FollowedOK == \A pr \in PR \ excused : Followed(pr)

ReviewsOK == JobsOK /\ CountsOK /\ FollowedOK
IInv == GraphOK /\ ReviewsOK

\* A counter of one head goes up.
LEMMA CountUp ==
  ASSUME NEW S, NEW f \in [S -> Nat], NEW s
  PROVE  /\ [f EXCEPT ![s] = @ + 1] \in [S -> Nat]
         /\ \A h \in S : [f EXCEPT ![s] = @ + 1][h] = IF s = h THEN f[h] + 1 ELSE f[h]
<1>1. CASE s \in S
  BY <1>1
<1>2. CASE s \notin S
  <2>1. [f EXCEPT ![s] = @ + 1] = f
    BY <1>2
  <2> QED
    BY <1>2, <2>1
<1> QED
  BY <1>1, <1>2

LEMMA WorkerIsProcess == Worker \in Process /\ Worker \notin Clis
BY AgentAssumption DEF Process

LEMMA IdleOK == \A p : JobOK(p, Idle) /\ Unreviewed(Idle)
BY AgentAssumption DEF JobOK, Idle, Fields, Unreviewed, Late

LEMMA StartedOK ==
  ASSUME NEW t, NEW tries, NEW p
  PROVE  /\ JobOK(p, Started(t, tries)) /\ Unreviewed(Started(t, tries))
         /\ Started(t, tries).target = t /\ Started(t, tries).pc = "resolve"
         /\ ~Started(t, tries).posted
BY AgentAssumption DEF JobOK, Idle, Fields, Unreviewed, Late, Started

-----------------------------------------------------------------------------
(* Steps that only one kind of state follows.                              *)

\* Nothing of a review is lost while its record, its counters, the queue and
\* the deliveries stay as they are.
LEMMA StillStep ==
  ASSUME ReviewsOK,
         UNCHANGED <<job, rows, reviews, unrecorded, prHead, pending, queue, excused>>
  PROVE  ReviewsOK'
BY DEF ReviewsOK, JobsOK, CountsOK, FollowedOK, JobOK, Unreviewed, HasRow, Counted,
       InFlight, Followed, InReview, YetToRead

\* A process goes on with the same target, kind and head, or a later one.
LEMMA LocalStep ==
  ASSUME ReviewsOK, Local, NEW p \in Process, NEW j,
         job' = [job EXCEPT ![p] = j],
         excused \subseteq excused',
         JobOK(p, j), ~j.posted, ~job[p].posted,
         p = Worker => /\ Unreviewed(j)
                       /\ \A pr \in PR \ excused' :
                            /\ InReview(pr) => HasRow(prHead[pr])
                                 \/ /\ j.target = pr /\ j.kind = "review"
                                    /\ j.pc \notin {"idle", "resolve", "pr"}
                                    /\ j.sha = prHead[pr]
                            /\ job[Worker].target = pr /\ job[Worker].pc \in {"resolve", "pr"} =>
                                 /\ j.target = pr /\ j.kind = "review"
                                 /\ \/ j.pc \in {"resolve", "pr"}
                                    \/ j.pc # "idle" /\ j.sha = prHead[pr]
  PROVE  ReviewsOK'
<1>1. UNCHANGED <<rows, reviews, unrecorded, prHead, pending, queue>>
  BY DEF Local
<1>2. /\ job' = [q \in Process |-> job'[q]]
      /\ job'[p] = j /\ \A q \in Process \ {p} : job'[q] = job[q]
  BY DEF ReviewsOK, JobsOK
<1>3. Worker \in Process
  BY WorkerIsProcess
<1>4. JobsOK'
  <2>1. \A q \in Process : JobOK(q, job'[q])
    BY <1>2 DEF ReviewsOK, JobsOK
  <2>2. Unreviewed(job'[Worker])
    BY <1>2, <1>3 DEF ReviewsOK, JobsOK
  <2> QED
    BY <1>1, <1>2, <2>1, <2>2 DEF JobsOK, JobOK, Unreviewed, HasRow
<1>5. CountsOK'
  <2>1. \A h \in PrCommit : InFlight(h)' <=> InFlight(h)
    BY <1>2, <1>3 DEF InFlight
  <2> QED
    BY <1>1, <2>1 DEF ReviewsOK, CountsOK, Counted, HasRow
<1>6. FollowedOK'
  <2> SUFFICES ASSUME NEW pr \in PR, pr \notin excused' PROVE Followed(pr)'
    BY DEF FollowedOK
  <2>1. Followed(pr)
    BY DEF ReviewsOK, FollowedOK
  <2>2. CASE p # Worker
    BY <1>1, <1>2, <1>3, <2>1, <2>2 DEF Followed, YetToRead, InReview, HasRow
  <2>3. CASE p = Worker
    BY <1>1, <1>2, <2>1, <2>3 DEF Followed, YetToRead, InReview, HasRow
  <2> QED
    BY <2>2, <2>3
<1> QED
  BY <1>4, <1>5, <1>6 DEF ReviewsOK

LEMMA GoesOn ==
  ASSUME ReviewsOK, Local, NEW p \in Process, NEW j, Becomes(p, j), UNCHANGED excused,
         Fields \subseteq DOMAIN j,
         j.kind = job[p].kind, j.target = job[p].target, j.sha = job[p].sha,
         j.posted = job[p].posted,
         job[p].pc \notin {"idle", "resolve", "pr", "commit"},
         j.pc \notin {"idle", "resolve", "pr"},
         job[p].pc \in Late \/ j.pc \notin Late \/ j.kind # "review"
           \/ (p = Worker => ~HasRow(j.sha))
  PROVE  ReviewsOK'
<1>1. JobOK(p, job[p]) /\ (p = Worker => Unreviewed(job[p]))
  BY DEF ReviewsOK, JobsOK
<1>2. ~job[p].posted /\ JobOK(p, j)
  BY <1>1 DEF JobOK
<1>3. job' = [job EXCEPT ![p] = j]
  BY DEF Becomes
<1>4. p = Worker => Unreviewed(j)
  BY <1>1 DEF Unreviewed
<1>5. p = Worker => \A pr \in PR : InReview(pr) =>
        /\ j.target = pr /\ j.kind = "review" /\ j.sha = prHead[pr]
  BY DEF InReview
<1> QED
  BY <1>2, <1>3, <1>4, <1>5, LocalStep

\* A process stops, and if it was the worker with a review, the head has a row
\* or its pull request is excused.
LEMMA Stops ==
  ASSUME ReviewsOK, Local, NEW p \in Process, job' = [job EXCEPT ![p] = Idle],
         excused \subseteq excused', job[p].pc # "commit",
         p = Worker /\ job[p].kind = "review" =>
           \/ job[p].target \in excused'
           \/ job[p].sha \notin {None, prHead[job[p].target]}
           \/ job[p].pc \notin {"resolve", "pr"} /\ HasRow(job[p].sha)
  PROVE  ReviewsOK'
<1>1. JobOK(p, job[p])
  BY DEF ReviewsOK, JobsOK
<1>2. ~job[p].posted /\ ~Idle.posted
  BY <1>1 DEF JobOK, Idle
<1>3. p = Worker => \A pr \in PR \ excused' :
        /\ InReview(pr) => HasRow(prHead[pr])
        /\ ~(job[Worker].target = pr /\ job[Worker].pc \in {"resolve", "pr"})
  BY <1>1 DEF InReview, JobOK
<1> QED
  BY <1>2, <1>3, IdleOK, LocalStep

LEMMA GivesUp ==
  ASSUME ReviewsOK, Local, NEW p \in Process, EndsWithout(p), job[p].pc # "commit"
  PROVE  ReviewsOK'
<1>1. job' = [job EXCEPT ![p] = Idle]
  BY DEF EndsWithout, Ends
<1>2. CASE /\ p = Worker /\ job[p].kind = "review"
           /\ job[p].sha \in {None, prHead[job[p].target]}
  <2>1. excused' = excused \cup {job[p].target}
    BY <1>2 DEF EndsWithout
  <2> QED
    BY <1>1, <1>2, <2>1, Stops
<1>3. CASE ~(/\ p = Worker /\ job[p].kind = "review"
             /\ job[p].sha \in {None, prHead[job[p].target]})
  <2>1. excused' = excused
    BY <1>3 DEF EndsWithout
  <2> QED
    BY <1>1, <1>3, <2>1, Stops
<1> QED
  BY <1>2, <1>3

-----------------------------------------------------------------------------
(* The actions of a process.                                               *)

LEMMA ResolveOK ==
  ASSUME ReviewsOK, NEW p \in Process, ResolveRepo(p)
  PROVE  ReviewsOK'
<1>1. Local /\ job[p].pc = "resolve" /\ JobOK(p, job[p])
  BY DEF ResolveRepo, ReviewsOK, JobsOK
<1>2. CASE ~Registered
  BY <1>1, <1>2, GivesUp DEF ResolveRepo
<1>3. CASE Registered
  <2> DEFINE j == [job[p] EXCEPT !.pc = IF job[p].kind = "review" THEN "pr" ELSE "analyze"]
  <2>1. job' = [job EXCEPT ![p] = j] /\ UNCHANGED excused
    BY <1>3 DEF ResolveRepo, Becomes
  <2>2. /\ j.kind = job[p].kind /\ j.target = job[p].target /\ j.sha = None
        /\ j.posted = job[p].posted /\ Fields \subseteq DOMAIN j
        /\ j.pc = IF job[p].kind = "review" THEN "pr" ELSE "analyze"
    BY <1>1 DEF JobOK, Fields
  <2> HIDE DEF j
  <2>3. JobOK(p, j) /\ ~j.posted /\ ~job[p].posted /\ Unreviewed(j)
    BY <1>1, <2>2 DEF JobOK, Unreviewed
  <2>4. p = Worker => \A pr \in PR :
          /\ ~InReview(pr)
          /\ job[Worker].target = pr => /\ j.target = pr /\ j.kind = "review"
                                        /\ j.pc = "pr"
    BY <1>1, <2>2 DEF InReview, JobOK
  <2> QED
    BY <1>1, <2>1, <2>3, <2>4, LocalStep
<1> QED
  BY <1>2, <1>3

LEMMA ReadPrOK ==
  ASSUME ReviewsOK, NEW p \in Process, ReadPr(p)
  PROVE  ReviewsOK'
<1> DEFINE j == [job[p] EXCEPT !.sha = prHead[job[p].target], !.pc = "files"]
<1>1. Local /\ job[p].pc = "pr" /\ JobOK(p, job[p])
  BY DEF ReadPr, ReviewsOK, JobsOK
<1>2. job' = [job EXCEPT ![p] = j] /\ UNCHANGED excused
  BY DEF ReadPr, Becomes
<1>3. /\ j.kind = job[p].kind /\ j.target = job[p].target
      /\ j.sha = prHead[job[p].target] /\ j.pc = "files"
      /\ j.posted = job[p].posted /\ Fields \subseteq DOMAIN j
  BY <1>1 DEF JobOK, Fields
<1> HIDE DEF j
<1>4. JobOK(p, j) /\ ~j.posted /\ ~job[p].posted /\ Unreviewed(j)
  BY <1>1, <1>3 DEF JobOK, Unreviewed, Late
<1>5. p = Worker => \A pr \in PR :
        /\ ~InReview(pr)
        /\ job[Worker].target = pr => /\ j.target = pr /\ j.kind = "review"
                                      /\ j.pc # "idle" /\ j.sha = prHead[pr]
  BY <1>1, <1>3 DEF InReview, JobOK
<1> QED
  BY <1>1, <1>2, <1>4, <1>5, LocalStep

LEMMA ReadFilesOK ==
  ASSUME ReviewsOK, NEW p \in Process, ReadFiles(p)
  PROVE  ReviewsOK'
<1>1. Local /\ job[p].pc = "files" /\ JobOK(p, job[p]) /\ UNCHANGED excused
  BY DEF ReadFiles, ReviewsOK, JobsOK
<1>2. PICK hunks :
        \/ Becomes(p, [job[p] EXCEPT !.hunks = hunks, !.page = 1,
                         !.pc = IF p = Worker THEN "skip" ELSE "analyze"])
        \/ Becomes(p, [job[p] EXCEPT !.hunks = hunks, !.page = @ + 1])
  BY DEF ReadFiles
<1>3. CASE Becomes(p, [job[p] EXCEPT !.hunks = hunks, !.page = 1,
                         !.pc = IF p = Worker THEN "skip" ELSE "analyze"])
  <2> DEFINE j == [job[p] EXCEPT !.hunks = hunks, !.page = 1,
                     !.pc = IF p = Worker THEN "skip" ELSE "analyze"]
  <2>1. /\ j.kind = job[p].kind /\ j.target = job[p].target /\ j.sha = job[p].sha
        /\ j.pc = IF p = Worker THEN "skip" ELSE "analyze"
        /\ j.posted = job[p].posted /\ Fields \subseteq DOMAIN j
    BY <1>1 DEF JobOK, Fields
  <2>2. Becomes(p, j)
    BY <1>3
  <2> HIDE DEF j
  <2> QED
    BY <1>1, <2>1, <2>2, GoesOn DEF Late
<1>4. CASE Becomes(p, [job[p] EXCEPT !.hunks = hunks, !.page = @ + 1])
  <2> DEFINE j == [job[p] EXCEPT !.hunks = hunks, !.page = @ + 1]
  <2>1. /\ j.kind = job[p].kind /\ j.target = job[p].target /\ j.sha = job[p].sha
        /\ j.pc = job[p].pc
        /\ j.posted = job[p].posted /\ Fields \subseteq DOMAIN j
    BY <1>1 DEF JobOK, Fields
  <2>2. Becomes(p, j)
    BY <1>4
  <2> HIDE DEF j
  <2> QED
    BY <1>1, <2>1, <2>2, GoesOn DEF Late
<1> QED
  BY <1>2, <1>3, <1>4

LEMMA SkipOK ==
  ASSUME ReviewsOK, NEW p \in Process, SkipReviewed(p)
  PROVE  ReviewsOK'
<1>1. Local /\ job[p].pc = "skip" /\ JobOK(p, job[p]) /\ UNCHANGED excused
  BY DEF SkipReviewed, ReviewsOK, JobsOK
<1>2. AlreadyReviewed(job[p]) <=> HasRow(job[p].sha)
  BY DEF AlreadyReviewed, HasRow
<1>3. CASE AlreadyReviewed(job[p])
  <2>1. job' = [job EXCEPT ![p] = Idle]
    BY <1>3 DEF SkipReviewed, Ends
  <2> QED
    BY <1>1, <1>2, <1>3, <2>1, Stops
<1>4. CASE ~AlreadyReviewed(job[p])
  <2> DEFINE j == [job[p] EXCEPT !.pc = "analyze"]
  <2>1. /\ j.kind = job[p].kind /\ j.target = job[p].target /\ j.sha = job[p].sha
        /\ j.pc = "analyze" /\ j.posted = job[p].posted /\ Fields \subseteq DOMAIN j
    BY <1>1 DEF JobOK, Fields
  <2>2. Becomes(p, j)
    BY <1>4 DEF SkipReviewed
  <2> HIDE DEF j
  <2> QED
    BY <1>1, <1>2, <1>4, <2>1, <2>2, GoesOn
<1> QED
  BY <1>3, <1>4

\* A step past the sha skip that changes neither kind, target nor head.
LEMMA LateStep ==
  ASSUME ReviewsOK, Local, NEW p \in Process, NEW j, Becomes(p, j), UNCHANGED excused,
         job[p].pc \in Late \ {"commit"}, j.pc \in Late,
         DOMAIN j = DOMAIN job[p],
         j.kind = job[p].kind, j.target = job[p].target, j.sha = job[p].sha,
         j.posted = job[p].posted
  PROVE  ReviewsOK'
<1>1. Fields \subseteq DOMAIN j
  BY DEF ReviewsOK, JobsOK, JobOK
<1> QED
  BY <1>1, GoesOn DEF Late

LEMMA AnalyzeOK ==
  ASSUME ReviewsOK, NEW p \in Process, Analyze(p)
  PROVE  ReviewsOK'
<1>1. Local /\ job[p].pc = "analyze" /\ JobOK(p, job[p])
  BY DEF Analyze, ReviewsOK, JobsOK
<1>2. CASE ~Registered
  BY <1>1, <1>2, GivesUp DEF Analyze
<1>3. CASE Registered
  <2>1. UNCHANGED excused /\ \E hunks, found :
          Becomes(p, [job[p] EXCEPT !.hunks = hunks, !.found = found, !.pc = "verify"])
    BY <1>3 DEF Analyze
  <2>2. PICK hunks, found :
          Becomes(p, [job[p] EXCEPT !.hunks = hunks, !.found = found, !.pc = "verify"])
    BY <2>1
  <2> QED
    BY <1>1, <2>1, <2>2, LateStep DEF JobOK, Fields, Late
<1> QED
  BY <1>2, <1>3

LEMMA VerifyOK ==
  ASSUME ReviewsOK, NEW p \in Process, Verify(p)
  PROVE  ReviewsOK'
<1>1. Local /\ job[p].pc = "verify" /\ JobOK(p, job[p]) /\ UNCHANGED excused
  BY DEF Verify, ReviewsOK, JobsOK
<1>2. PICK kept, text, conf :
        Becomes(p, [job[p] EXCEPT !.kept = kept, !.text = text, !.pc = "post",
                      !.conf = conf])
  BY DEF Verify
<1> QED
  BY <1>1, <1>2, LateStep DEF JobOK, Fields, Late

LEMMA PrintOK ==
  ASSUME ReviewsOK, NEW p \in Process, PrintOnly(p)
  PROVE  ReviewsOK'
BY Stops, WorkerIsProcess DEF PrintOnly, Ends

LEMMA OnboardOK ==
  ASSUME ReviewsOK, NEW p \in Process, Onboard(p)
  PROVE  ReviewsOK'
<1>1. Local /\ UNCHANGED excused /\ JobOK(p, job[p])
  BY DEF Onboard, PickFiles, ReadBodies, VerifyOnboarding, Group, ReviewsOK, JobsOK
<1>2. CASE PickFiles(p)
  <2>1. CASE Indexed = {}
    BY <1>1, <1>2, <2>1, Stops DEF PickFiles, Ends
  <2>2. CASE Indexed # {}
    <3>1. PICK picked : Becomes(p, [job[p] EXCEPT !.pc = "read", !.picked = picked])
      BY <1>2, <2>2 DEF PickFiles
    <3>2. job[p].pc = "analyze"
      BY <1>2 DEF PickFiles
    <3> QED
      BY <1>1, <3>1, <3>2, LateStep DEF JobOK, Fields, Late
  <2> QED
    BY <2>1, <2>2
<1>3. CASE ReadBodies(p)
  <2>1. PICK found :
          Becomes(p, [job[p] EXCEPT !.found = found, !.picked = {}, !.pc = "verify"])
    BY <1>3 DEF ReadBodies
  <2>2. job[p].pc = "read"
    BY <1>3 DEF ReadBodies
  <2> QED
    BY <1>1, <2>1, <2>2, LateStep DEF JobOK, Fields, Late
<1>4. CASE VerifyOnboarding(p)
  <2>1. PICK kept : Becomes(p, [job[p] EXCEPT !.kept = kept, !.pc = "group"])
    BY <1>4 DEF VerifyOnboarding
  <2>2. job[p].pc = "verify"
    BY <1>4 DEF VerifyOnboarding
  <2> QED
    BY <1>1, <2>1, <2>2, LateStep DEF JobOK, Fields, Late
<1>5. CASE Group(p)
  <2>1. PICK text, conf :
          Becomes(p, [job[p] EXCEPT !.text = text, !.pc = "post", !.conf = conf])
    BY <1>5 DEF Group
  <2>2. job[p].pc = "group"
    BY <1>5 DEF Group
  <2> QED
    BY <1>1, <2>1, <2>2, LateStep DEF JobOK, Fields, Late
<1> QED
  BY <1>2, <1>3, <1>4, <1>5 DEF Onboard

\* A job that ends leaves its pull request excused, reviewed, or followed by
\* what is still to come.
LEMMA EndsFollowed ==
  ASSUME ReviewsOK, NEW p \in Process, EndsWithout(p),
         UNCHANGED <<prHead, pending, queue>>, \A h : HasRow(h) => HasRow(h)'
  PROVE  FollowedOK'
<1>1. /\ job'[p] = Idle /\ \A q \in Process \ {p} : job'[q] = job[q]
      /\ JobOK(p, job[p])
  BY DEF EndsWithout, Ends, ReviewsOK, JobsOK
<1>2. Worker \in Process
  BY WorkerIsProcess
<1> SUFFICES ASSUME NEW pr \in PR, pr \notin excused' PROVE Followed(pr)'
  BY DEF FollowedOK
<1>3. pr \notin excused
  BY DEF EndsWithout
<1>4. Followed(pr)
  BY <1>3 DEF ReviewsOK, FollowedOK
<1>5. CASE p # Worker
  BY <1>1, <1>2, <1>4, <1>5 DEF Followed, YetToRead, InReview
<1>6. CASE p = Worker /\ job[p].target # pr
  BY <1>4, <1>6 DEF Followed, YetToRead, InReview
<1>7. CASE p = Worker /\ job[p].target = pr
  <2>1. job[p].kind = "review"
    BY <1>1, <1>7 DEF JobOK
  <2>2. job[p].sha \notin {None, prHead[pr]}
    BY <1>7, <2>1 DEF EndsWithout
  <2> QED
    BY <1>1, <1>4, <1>7, <2>2 DEF Followed, YetToRead, InReview, JobOK
<1> QED
  BY <1>5, <1>6, <1>7

LEMMA EndsJobs ==
  ASSUME ReviewsOK, NEW p \in Process, job' = [job EXCEPT ![p] = Idle], UNCHANGED rows
  PROVE  JobsOK'
<1>1. /\ job' = [q \in Process |-> job'[q]]
      /\ job'[p] = Idle /\ \A q \in Process \ {p} : job'[q] = job[q]
  BY DEF ReviewsOK, JobsOK
<1>2. Worker \in Process
  BY WorkerIsProcess
<1>3. \A q \in Process : JobOK(q, job'[q])
  BY <1>1, IdleOK DEF ReviewsOK, JobsOK
<1>4. Unreviewed(job'[Worker])
  BY <1>1, <1>2, IdleOK DEF ReviewsOK, JobsOK
<1> QED
  BY <1>1, <1>3, <1>4 DEF JobsOK, JobOK, Unreviewed, HasRow

\* What a step that ends p's job may do to the counters.
LEMMA EndsCounts ==
  ASSUME ReviewsOK, NEW p \in Process, job' = [job EXCEPT ![p] = Idle], UNCHANGED rows,
         \/ ~job[p].posted /\ UNCHANGED <<reviews, unrecorded>>
         \/ /\ reviews' = reviews
            /\ job[p].posted
            /\ unrecorded' = [unrecorded EXCEPT ![job[p].sha] = @ + 1]
         \/ /\ ~job[p].posted
            /\ reviews' = [reviews EXCEPT ![job[p].sha] = @ + 1]
            /\ unrecorded' = [unrecorded EXCEPT ![job[p].sha] = @ + 1]
  PROVE  CountsOK'
<1> DEFINE s == job[p].sha
<1>1. job'[p] = Idle /\ \A q \in Process \ {p} : job'[q] = job[q]
  BY DEF ReviewsOK, JobsOK
<1>2. Worker \in Process
  BY WorkerIsProcess
<1>3. reviews \in [PrCommit -> Nat] /\ unrecorded \in [PrCommit -> Nat]
  BY DEF ReviewsOK, CountsOK
<1>4. \A h \in PrCommit : Counted(h)'
  <2> SUFFICES ASSUME NEW h \in PrCommit PROVE Counted(h)'
    OBVIOUS
  <2>1. Counted(h) /\ reviews[h] \in Nat /\ unrecorded[h] \in Nat
    BY <1>3 DEF ReviewsOK, CountsOK
  <2>2. HasRow(h)' <=> HasRow(h)
    BY DEF HasRow
  <2>3. InFlight(h) => InFlight(h)' \/ (job[p].posted /\ s = h)
    BY <1>1, <1>2 DEF InFlight
  <2>4. \/ ~job[p].posted /\ reviews'[h] = reviews[h] /\ unrecorded'[h] = unrecorded[h]
        \/ /\ reviews'[h] = reviews[h]
           /\ unrecorded'[h] = IF s = h THEN unrecorded[h] + 1 ELSE unrecorded[h]
        \/ /\ ~job[p].posted
           /\ reviews'[h] = IF s = h THEN reviews[h] + 1 ELSE reviews[h]
           /\ unrecorded'[h] = IF s = h THEN unrecorded[h] + 1 ELSE unrecorded[h]
    BY <1>3, CountUp
  <2> QED
    BY <2>1, <2>2, <2>3, <2>4 DEF Counted
<1>5. reviews' \in [PrCommit -> Nat] /\ unrecorded' \in [PrCommit -> Nat]
  BY <1>3, CountUp
<1> QED
  BY <1>4, <1>5 DEF CountsOK

\* The row is there, or the review is counted as one whose row is lost.
LEMMA RecordOK ==
  ASSUME ReviewsOK, NEW p \in Process, Record(p)
  PROVE  ReviewsOK'
<1> DEFINE j == job[p]
<1>0. PICK s : s = job[p].sha
  OBVIOUS
<1>1. /\ job[p].pc = "commit" /\ JobOK(p, job[p])
      /\ job' = [job EXCEPT ![p] = Idle]
      /\ UNCHANGED <<prHead, pending, queue, reviews>>
  BY DEF Record, EndsWithout, Ends, ReviewsOK, JobsOK
<1>2. /\ job' = [q \in Process |-> job'[q]]
      /\ job'[p] = Idle /\ \A q \in Process \ {p} : job'[q] = job[q]
  BY <1>1 DEF ReviewsOK, JobsOK
<1>3. Worker \in Process
  BY WorkerIsProcess
<1>4. \A h : HasRow(h) => HasRow(h)'
  BY DEF Record, HasRow
\* The only row that may be new.
<1>5. \A h \in PrCommit :
        HasRow(h)' => HasRow(h) \/ (p = Worker /\ j.kind = "review" /\ s = h)
  <2> SUFFICES ASSUME NEW h \in PrCommit, NEW r \in rows',
                      r.agent = "pr_reviewer", r.sha = h, r \notin rows
               PROVE  p = Worker /\ j.kind = "review" /\ s = h
    BY DEF HasRow
  <2>1. r = RowOf(p)
    BY DEF Record
  <2>2. r.agent = AgentOf(j) /\ r.sha = IF p = Worker THEN j.sha ELSE None
    BY <2>1 DEF RowOf
  <2> QED
    BY <1>0, <2>2, AgentAssumption DEF AgentOf
<1>6. JobsOK'
  <2>1. \A q \in Process : JobOK(q, job'[q])
    BY <1>2, IdleOK DEF ReviewsOK, JobsOK
  <2>2. CASE p = Worker
    BY <1>2, <2>1, <2>2 DEF JobsOK, JobOK, Unreviewed, Idle, Late
  <2>3. CASE p # Worker
    <3>1. Unreviewed(job[Worker]) /\ job'[Worker] = job[Worker]
      BY <1>2, <1>3, <2>3 DEF ReviewsOK, JobsOK
    <3>2. \A h : h # None /\ HasRow(h)' => HasRow(h)
      <4> SUFFICES ASSUME NEW r \in rows', r.sha # None PROVE r \in rows
        BY DEF HasRow
      <4>1. r \in rows \/ r = RowOf(p)
        BY DEF Record
      <4> QED
        BY <2>3, <4>1 DEF RowOf
    <3>3. Unreviewed(job[Worker])'
      BY <3>1, <3>2 DEF Unreviewed
    <3> QED
      BY <1>2, <2>1, <3>3 DEF JobsOK, JobOK
  <2> QED
    BY <2>2, <2>3
<1>7. CASE SameComment(j) = {}
  <2>1. rows' = rows \cup {RowOf(p)} /\ UNCHANGED <<unrecorded, excused>>
    BY <1>7 DEF Record
  <2>2. p = Worker /\ j.kind = "review" => HasRow(s)'
    <3> SUFFICES ASSUME p = Worker, j.kind = "review" PROVE HasRow(s)'
      OBVIOUS
    <3>1. RowOf(p).agent = "pr_reviewer" /\ RowOf(p).sha = s
      BY <1>0 DEF RowOf, AgentOf
    <3> QED
      BY <2>1, <3>1 DEF HasRow
  <2>3. CountsOK'
    <3>1. \A h \in PrCommit : InFlight(h) => InFlight(h)' \/ HasRow(h)'
      BY <1>0, <1>1, <1>2, <1>3, <2>2 DEF InFlight, JobOK
    <3>2. \A h \in PrCommit : Counted(h)'
      <4> SUFFICES ASSUME NEW h \in PrCommit PROVE Counted(h)'
        OBVIOUS
      <4>1. Counted(h) /\ reviews[h] \in Nat /\ unrecorded[h] \in Nat
        BY DEF ReviewsOK, CountsOK
      <4> QED
        BY <1>1, <1>4, <2>1, <3>1, <4>1 DEF Counted
    <3> QED
      BY <1>1, <2>1, <3>2 DEF ReviewsOK, CountsOK
  <2>4. FollowedOK'
    <3> SUFFICES ASSUME NEW pr \in PR, pr \notin excused' PROVE Followed(pr)'
      BY DEF FollowedOK
    <3>1. Followed(pr)
      BY <2>1 DEF ReviewsOK, FollowedOK
    <3>2. CASE p # Worker
      BY <1>1, <1>2, <1>3, <1>4, <3>1, <3>2 DEF Followed, YetToRead, InReview
    <3>3. CASE p = Worker
      BY <1>0, <1>1, <1>2, <1>4, <2>2, <3>1, <3>3 DEF Followed, YetToRead, InReview
    <3> QED
      BY <3>2, <3>3
  <2> QED
    BY <1>6, <2>3, <2>4 DEF ReviewsOK
<1>8. CASE SameComment(j) # {}
  <2>1. /\ EndsWithout(p) /\ rows' = rows
        /\ unrecorded' = IF j.posted THEN [unrecorded EXCEPT ![j.sha] = @ + 1]
                         ELSE unrecorded
    BY <1>8 DEF Record
  <2>2. CountsOK'
    BY <1>1, <2>1, EndsCounts
  <2>3. FollowedOK'
    BY <1>1, <1>4, <2>1, EndsFollowed
  <2> QED
    BY <1>6, <2>2, <2>3 DEF ReviewsOK
<1> QED
  BY <1>7, <1>8

\* The effect is counted before its row, and the skip saw no row of the head.
LEMMA PostSucceedsOK ==
  ASSUME ReviewsOK, NEW p \in Process, PostSucceeds(p)
  PROVE  ReviewsOK'
<1> DEFINE j == [job[p] EXCEPT !.pc = "commit", !.posted = CountsAsReview(p)]
           s == job[p].sha
<1>1. /\ job[p].pc = "post" /\ job' = [job EXCEPT ![p] = j]
      /\ UNCHANGED <<rows, prHead, pending, queue, unrecorded, excused>>
      /\ JobOK(p, job[p]) /\ ~job[p].posted
  BY DEF PostSucceeds, Becomes, ReviewsOK, JobsOK, JobOK
<1>2. /\ j.kind = job[p].kind /\ j.target = job[p].target /\ j.sha = s
      /\ j.pc = "commit" /\ j.posted = CountsAsReview(p) /\ Fields \subseteq DOMAIN j
  BY <1>1 DEF JobOK, Fields
<1>3. CountsAsReview(p) \in BOOLEAN
      /\ (CountsAsReview(p) => p = Worker /\ job[p].kind = "review")
  BY DEF CountsAsReview
<1> HIDE DEF j
<1>4. /\ job' = [q \in Process |-> job'[q]]
      /\ job'[p] = j /\ \A q \in Process \ {p} : job'[q] = job[q]
  BY <1>1 DEF ReviewsOK, JobsOK
<1>5. Worker \in Process
  BY WorkerIsProcess
<1>6. JobOK(p, j)
  BY <1>1, <1>2, <1>3 DEF JobOK
<1>7. p = Worker => Unreviewed(job[p]) /\ Unreviewed(j)
  BY <1>1, <1>2 DEF ReviewsOK, JobsOK, Unreviewed, Late
<1>8. JobsOK'
  <2>1. \A q \in Process : JobOK(q, job'[q])
    BY <1>4, <1>6 DEF ReviewsOK, JobsOK
  <2>2. Unreviewed(job'[Worker])
    BY <1>4, <1>5, <1>7 DEF ReviewsOK, JobsOK
  <2> QED
    BY <1>1, <1>4, <2>1, <2>2 DEF JobsOK, JobOK, Unreviewed, HasRow
<1>9. CountsOK'
  <2>1. reviews \in [PrCommit -> Nat] /\ unrecorded \in [PrCommit -> Nat]
    BY DEF ReviewsOK, CountsOK
  <2>2. reviews' = IF CountsAsReview(p) THEN [reviews EXCEPT ![s] = @ + 1] ELSE reviews
    BY DEF PostSucceeds
  <2>3. \A h \in PrCommit : Counted(h)'
    <3> SUFFICES ASSUME NEW h \in PrCommit PROVE Counted(h)'
      OBVIOUS
    <3>1. Counted(h) /\ reviews[h] \in Nat /\ unrecorded[h] \in Nat
      BY <2>1 DEF ReviewsOK, CountsOK
    <3>2. HasRow(h)' <=> HasRow(h)
      BY <1>1 DEF HasRow
    <3>3. InFlight(h) => InFlight(h)'
      BY <1>1, <1>4, <1>5 DEF InFlight
    <3>4. reviews'[h] = IF CountsAsReview(p) /\ s = h THEN reviews[h] + 1 ELSE reviews[h]
      BY <1>3, <2>1, <2>2, CountUp
    <3>5. CASE CountsAsReview(p) /\ s = h
      <4>1. ~InFlight(h) /\ InFlight(h)'
        BY <1>1, <1>2, <1>3, <1>4, <3>5 DEF InFlight
      <4>2. ~HasRow(h)
        BY <1>1, <1>3, <1>7, <3>5, AgentAssumption DEF Unreviewed, Late
      <4> QED
        BY <1>1, <3>1, <3>4, <3>5, <4>1, <4>2 DEF Counted
    <3>6. CASE ~(CountsAsReview(p) /\ s = h)
      BY <1>1, <3>1, <3>2, <3>3, <3>4, <3>6 DEF Counted
    <3> QED
      BY <3>5, <3>6
  <2>4. reviews' \in [PrCommit -> Nat]
    BY <2>1, <2>2, CountUp
  <2> QED
    BY <1>1, <2>1, <2>3, <2>4 DEF CountsOK
<1>10. FollowedOK'
  BY <1>1, <1>2, <1>4, <1>5 DEF ReviewsOK, FollowedOK, Followed, YetToRead, InReview, HasRow
<1> QED
  BY <1>8, <1>9, <1>10 DEF ReviewsOK

LEMMA PostErrsOK ==
  ASSUME ReviewsOK, NEW p \in Process, PostErrs(p)
  PROVE  ReviewsOK'
<1>1. /\ EndsWithout(p) /\ job' = [job EXCEPT ![p] = Idle]
      /\ UNCHANGED <<rows, prHead, pending, queue>>
  BY DEF PostErrs, EndsWithout, Ends
<1>2. ~job[p].posted
  BY DEF PostErrs, ReviewsOK, JobsOK, JobOK
<1>3. JobsOK'
  BY <1>1, EndsJobs
<1>4. CountsOK'
  BY <1>1, <1>2, EndsCounts DEF PostErrs
<1>5. FollowedOK'
  BY <1>1, EndsFollowed DEF HasRow
<1> QED
  BY <1>3, <1>4, <1>5 DEF ReviewsOK

LEMMA FailsOK ==
  ASSUME ReviewsOK, NEW p \in Process, Fails(p)
  PROVE  ReviewsOK'
<1>1. /\ job' = [job EXCEPT ![p] = Idle]
      /\ UNCHANGED <<rows, prHead, pending, reviews>>
      /\ unrecorded' = IF job[p].posted
                       THEN [unrecorded EXCEPT ![job[p].sha] = @ + 1] ELSE unrecorded
  BY DEF Fails, EndsWithout, Ends, Becomes
<1>2. JobsOK'
  BY <1>1, EndsJobs
<1>3. CountsOK'
  BY <1>1, EndsCounts
<1>4. FollowedOK'
  <2>1. CASE EndsWithout(p) /\ UNCHANGED queue
    BY <1>1, <2>1, EndsFollowed DEF HasRow
  <2>2. CASE /\ p = Worker /\ UNCHANGED excused
             /\ queue' = queue \cup {[target |-> job[p].target, tries |-> job[p].tries + 1]}
    <3> SUFFICES ASSUME NEW pr \in PR, pr \notin excused PROVE Followed(pr)'
      BY <2>2 DEF FollowedOK
    <3>1. Followed(pr)
      BY DEF ReviewsOK, FollowedOK
    <3>2. job[p].target = pr => YetToRead(pr)'
      <4> DEFINE again == [target |-> job[p].target, tries |-> job[p].tries + 1]
      <4>1. again \in queue' /\ again.target = job[p].target
        BY <2>2
      <4> HIDE DEF again
      <4> QED
        BY <4>1 DEF YetToRead
    <3>3. job[p].target # pr => (YetToRead(pr) => YetToRead(pr)') /\ ~InReview(pr)
      BY <2>2 DEF YetToRead, InReview
    <3> QED
      BY <1>1, <3>1, <3>2, <3>3 DEF Followed, HasRow
  <2> QED
    BY <2>1, <2>2 DEF Fails
<1> QED
  BY <1>2, <1>3, <1>4 DEF ReviewsOK

LEMMA PostOK ==
  ASSUME ReviewsOK, NEW p \in Process, Post(p)
  PROVE  ReviewsOK'
<1>1. CASE PostDeduped(p)
  BY <1>1, GivesUp DEF PostDeduped
<1> QED
  BY <1>1, PostSucceedsOK, PostErrsOK, RecordOK DEF Post

-----------------------------------------------------------------------------
(* Outside events, and jobs that start.                                    *)

\* A new head of pr leaves its delivery pending; no other one is touched.
LEMMA MoveHeadOK ==
  ASSUME ReviewsOK, NEW pr \in PR, NEW h \in PrCommit, MoveHead(pr, h)
  PROVE  ReviewsOK'
<1>1. /\ pending' = pending \cup {pr} /\ excused' = excused \ {pr}
      /\ prHead' = [prHead EXCEPT ![pr] = h]
      /\ UNCHANGED <<queue, rows, reviews, unrecorded>>
  BY DEF MoveHead
<1>2. /\ job' = [p \in Process |-> job'[p]]
      /\ \A p \in Process :
           job'[p] = job[p] \/ job'[p] = [job[p] EXCEPT !.moved = TRUE]
  BY DEF MoveHead
<1>3. \A p \in Process : /\ Fields \subseteq DOMAIN job'[p]
                         /\ \A x \in Fields : job'[p][x] = job[p][x]
  <2> SUFFICES ASSUME NEW p \in Process
               PROVE  /\ Fields \subseteq DOMAIN job'[p]
                      /\ \A x \in Fields : job'[p][x] = job[p][x]
    OBVIOUS
  <2>1. Fields \subseteq DOMAIN job[p]
    BY DEF ReviewsOK, JobsOK, JobOK
  <2> QED
    BY <1>2, <2>1 DEF Fields
<1>4. \A p \in Process : /\ job'[p].kind = job[p].kind /\ job'[p].target = job[p].target
                         /\ job'[p].pc = job[p].pc /\ job'[p].sha = job[p].sha
                         /\ job'[p].posted = job[p].posted
  BY <1>3 DEF Fields
<1>5. Worker \in Process
  BY WorkerIsProcess
<1>6. JobsOK'
  <2>1. \A p \in Process : JobOK(p, job'[p])
    BY <1>3, <1>4 DEF ReviewsOK, JobsOK, JobOK
  <2>2. Unreviewed(job[Worker])
    BY DEF ReviewsOK, JobsOK
  <2>3. Unreviewed(job[Worker])'
    BY <1>1, <1>4, <1>5, <2>2 DEF Unreviewed, HasRow
  <2> QED
    BY <1>2, <2>1, <2>3 DEF JobsOK, JobOK
<1>7. CountsOK'
  BY <1>1, <1>4, <1>5 DEF ReviewsOK, CountsOK, Counted, InFlight, HasRow
<1>8. FollowedOK'
  <2> SUFFICES ASSUME NEW r \in PR, r \notin excused' PROVE Followed(r)'
    BY DEF FollowedOK
  <2>1. CASE r = pr
    BY <1>1, <2>1 DEF Followed
  <2>2. CASE r # pr
    <3>1. prHead'[r] = prHead[r] /\ Followed(r)
      BY <1>1, <2>2 DEF ReviewsOK, FollowedOK
    <3> QED
      BY <1>1, <1>4, <1>5, <3>1 DEF Followed, YetToRead, InReview, HasRow
  <2> QED
    BY <2>1, <2>2
<1> QED
  BY <1>6, <1>7, <1>8 DEF ReviewsOK

\* A delivery is queued, or refused because a live job has yet to read the
\* head; any other refusal excuses the pull request.
LEMMA DeliveryOK ==
  ASSUME ReviewsOK, NEW t, Deliver(t) \/ DeliveryStopped(t)
  PROVE  ReviewsOK'
<1>1. /\ pending' = pending \ {t}
      /\ UNCHANGED <<prHead, job, rows, reviews, unrecorded>>
      /\ excused \subseteq excused' /\ queue \subseteq queue'
  BY DEF Deliver, DeliveryStopped
<1>2. JobsOK' /\ CountsOK'
  BY <1>1 DEF ReviewsOK, JobsOK, CountsOK, JobOK, Unreviewed, HasRow, Counted, InFlight
<1>3. t \in PR \ excused' => YetToRead(t)'
  <2> SUFFICES ASSUME t \in PR, t \notin excused' PROVE YetToRead(t)'
    OBVIOUS
  <2>1. CASE queue' = queue \cup {[target |-> t, tries |-> 0]}
    <3> DEFINE new == [target |-> t, tries |-> 0]
    <3>1. new \in queue' /\ new.target = t
      BY <2>1
    <3> HIDE DEF new
    <3> QED
      BY <3>1 DEF YetToRead
  <2>2. CASE excused' = IF YetToRead(t) THEN excused ELSE excused \cup ({t} \cap PR)
    BY <1>1, <2>2 DEF YetToRead
  <2>3. CASE excused' = excused \cup ({t} \cap PR)
    BY <2>3
  <2> QED
    BY <2>1, <2>2, <2>3 DEF Deliver, DeliveryStopped
<1>4. FollowedOK'
  <2> SUFFICES ASSUME NEW pr \in PR, pr \notin excused' PROVE Followed(pr)'
    BY DEF FollowedOK
  <2>1. Followed(pr)
    BY <1>1 DEF ReviewsOK, FollowedOK
  <2> QED
    BY <1>1, <1>3, <2>1 DEF Followed, YetToRead, InReview, HasRow
<1> QED
  BY <1>2, <1>4 DEF ReviewsOK

LEMMA OpenIssueOK ==
  ASSUME ReviewsOK, NEW i, OpenIssue(i)
  PROVE  ReviewsOK'
<1>1. /\ pending \subseteq pending'
      /\ UNCHANGED <<prHead, queue, job, rows, reviews, unrecorded, excused>>
  BY DEF OpenIssue
<1> QED
  BY <1>1 DEF ReviewsOK, JobsOK, CountsOK, FollowedOK, JobOK, Unreviewed, HasRow,
       Counted, InFlight, Followed, InReview, YetToRead

\* An idle process gets a job; what it follows is at least what was queued.
LEMMA StartStep ==
  ASSUME ReviewsOK, NEW p \in Process, NEW j, job[p] = Idle,
         job' = [job EXCEPT ![p] = j], JobOK(p, j), Unreviewed(j), ~j.posted,
         UNCHANGED <<prHead, pending, rows, reviews, unrecorded, excused>>,
         \/ queue' = queue
         \/ /\ p = Worker /\ j.pc = "resolve"
            /\ \A q \in queue \ queue' : q.target = j.target
  PROVE  ReviewsOK'
<1>1. /\ job' = [q \in Process |-> job'[q]]
      /\ job'[p] = j /\ \A q \in Process \ {p} : job'[q] = job[q]
  BY DEF ReviewsOK, JobsOK
<1>2. Worker \in Process
  BY WorkerIsProcess
<1>3. Idle.pc = "idle" /\ ~Idle.posted
  BY DEF Idle
<1>4. JobsOK'
  <2>1. \A q \in Process : JobOK(q, job'[q])
    BY <1>1 DEF ReviewsOK, JobsOK
  <2>2. Unreviewed(job'[Worker])
    BY <1>1, <1>2 DEF ReviewsOK, JobsOK
  <2> QED
    BY <1>1, <2>1, <2>2 DEF JobsOK, JobOK, Unreviewed, HasRow
<1>5. CountsOK'
  <2>1. \A h \in PrCommit : InFlight(h)' <=> InFlight(h)
    BY <1>1, <1>2, <1>3 DEF InFlight
  <2> QED
    BY <2>1 DEF ReviewsOK, CountsOK, Counted, HasRow
<1>6. FollowedOK'
  <2> SUFFICES ASSUME NEW pr \in PR, pr \notin excused' PROVE Followed(pr)'
    BY DEF FollowedOK
  <2>1. Followed(pr)
    BY DEF ReviewsOK, FollowedOK
  <2>2. InReview(pr) => InReview(pr)'
    BY <1>1, <1>2, <1>3 DEF InReview
  <2>3. YetToRead(pr) => YetToRead(pr)'
    BY <1>1, <1>2, <1>3 DEF YetToRead
  <2> QED
    BY <2>1, <2>2, <2>3 DEF Followed, HasRow
<1> QED
  BY <1>4, <1>5, <1>6 DEF ReviewsOK

LEMMA TakeOK ==
  ASSUME ReviewsOK, Take
  PROVE  ReviewsOK'
<1>1. PICK q \in queue :
        queue' = queue \ {q} /\ job' = [job EXCEPT ![Worker] = Started(q.target, q.tries)]
  BY DEF Take
<1>2. /\ job[Worker] = Idle
      /\ UNCHANGED <<prHead, pending, rows, reviews, unrecorded, excused>>
  BY DEF Take
<1>3. \A x \in queue \ queue' : x.target = Started(q.target, q.tries).target
  BY <1>1, StartedOK
<1> QED
  BY <1>1, <1>2, <1>3, StartedOK, StartStep, WorkerIsProcess

LEMMA CliOK ==
  ASSUME ReviewsOK, NEW p \in Process, NEW pr \in PR, CliReviews(p, pr)
  PROVE  ReviewsOK'
<1> DEFINE start == Started(pr, 0)
           j == [start EXCEPT !.pc = "pr"]
<1>1. JobOK(p, start) /\ ~start.posted /\ start.pc = "resolve"
  BY StartedOK
<1> HIDE DEF start
<1>2. JobOK(p, j) /\ ~j.posted /\ Unreviewed(j)
  BY <1>1 DEF JobOK, Fields, Unreviewed, Late
<1>3. /\ job[p] = Idle /\ job' = [job EXCEPT ![p] = j]
      /\ UNCHANGED <<queue, prHead, pending, rows, reviews, unrecorded, excused>>
  BY DEF CliReviews, start
<1> QED
  BY <1>2, <1>3, StartStep

-----------------------------------------------------------------------------
(* The theorems.                                                           *)

LEMMA InitOK == Init => IInv
<1> SUFFICES ASSUME Init PROVE IInv
  OBVIOUS
<1>1. GraphOK
  BY GraphInitOK DEF Init
<1>2. /\ job = [p \in Process |-> Idle] /\ excused = PR
      /\ reviews = [h \in PrCommit |-> 0] /\ unrecorded = [h \in PrCommit |-> 0]
  BY DEF Init
<1>3. JobsOK
  BY <1>2, IdleOK, WorkerIsProcess DEF JobsOK
<1>4. CountsOK
  BY <1>2 DEF CountsOK, Counted
<1>5. FollowedOK
  BY <1>2 DEF FollowedOK
<1> QED
  BY <1>1, <1>3, <1>4, <1>5 DEF IInv, ReviewsOK

\* Only pushes and index runs touch the graph.
LEMMA GraphStill ==
  ASSUME GraphOK, UNCHANGED graphVars
  PROVE  GraphOK'
BY DEF GraphOK, EdgesAreAsOfTheirRow, Indexed, graphVars

LEMMA GraphStep ==
  ASSUME GraphOK, [Next]_vars
  PROVE  GraphOK'
<1>1. CASE PushBase
  <2>1. head' \in Sha /\ UNCHANGED <<repoHead, table, edges>>
    BY <1>1 DEF PushBase, Push
  <2> QED
    BY <2>1 DEF GraphOK, EdgesAreAsOfTheirRow, Indexed
<1>2. CASE IndexRuns
  BY <1>2, FullIndexOK, IncrementalIndexOK DEF IndexRuns
<1>3. CASE ~PushBase /\ ~IndexRuns
  <2>1. UNCHANGED graphVars
    <3>1. CASE Take \/ Quiet \/ UNCHANGED vars
      BY <3>1 DEF Take, Quiet, vars
    <3>2. CASE \/ \E pr \in PR, h \in PrCommit : MoveHead(pr, h)
               \/ \E i \in Issue : OpenIssue(i)
               \/ \E t \in PR \cup Issue : Deliver(t) \/ DeliveryStopped(t)
      BY <3>2 DEF MoveHead, OpenIssue, Deliver, DeliveryStopped
    <3>3. ASSUME NEW p \in Process,
                 \/ ResolveRepo(p) \/ Review(p) \/ Onboard(p) \/ Post(p) \/ Fails(p)
                 \/ \E pr \in PR : CliReviews(p, pr)
          PROVE  UNCHANGED graphVars
      <4>1. CASE ResolveRepo(p) \/ Review(p) \/ Onboard(p) \/ PostDeduped(p)
        BY <4>1 DEF ResolveRepo, Review, ReadPr, ReadFiles, SkipReviewed, Analyze,
             Verify, PrintOnly, Onboard, PickFiles, ReadBodies, VerifyOnboarding,
             Group, PostDeduped, Local
      <4>2. CASE PostSucceeds(p) \/ PostErrs(p) \/ Record(p) \/ Fails(p)
                 \/ \E pr \in PR : CliReviews(p, pr)
        BY <4>2 DEF PostSucceeds, PostErrs, Record, Fails, CliReviews
      <4> QED
        BY <3>3, <4>1, <4>2 DEF Post
    <3> QED
      BY <1>3, <3>1, <3>2, <3>3 DEF Next
  <2> QED
    BY <2>1, GraphStill
<1> QED
  BY <1>1, <1>2, <1>3

LEMMA ReviewsStep ==
  ASSUME ReviewsOK, [Next]_vars
  PROVE  ReviewsOK'
<1>1. CASE PushBase \/ IndexRuns \/ Quiet \/ UNCHANGED vars
  BY <1>1, StillStep DEF PushBase, IndexRuns, Quiet, vars, jobVars
<1>2. CASE \/ \E pr \in PR, h \in PrCommit : MoveHead(pr, h)
           \/ \E i \in Issue : OpenIssue(i)
           \/ \E t \in PR \cup Issue : Deliver(t) \/ DeliveryStopped(t)
  BY <1>2, MoveHeadOK, OpenIssueOK, DeliveryOK
<1>3. ASSUME NEW p \in Process,
             \/ ResolveRepo(p) \/ Review(p) \/ Onboard(p) \/ Post(p) \/ Fails(p)
             \/ \E pr \in PR : CliReviews(p, pr)
      PROVE  ReviewsOK'
  <2>1. CASE Review(p)
    BY <2>1, ReadPrOK, ReadFilesOK, SkipOK, AnalyzeOK, VerifyOK, PrintOK DEF Review
  <2> QED
    BY <1>3, <2>1, ResolveOK, OnboardOK, PostOK, FailsOK, CliOK
<1> QED
  BY <1>1, <1>2, <1>3, TakeOK DEF Next

THEOREM Invariant == Spec => []IInv
<1>1. Init => IInv
  BY InitOK
<1>2. IInv /\ [Next]_vars => IInv'
  BY GraphStep, ReviewsStep DEF IInv
<1> QED
  BY <1>1, <1>2, PTL DEF Spec

\* Over any sequence of full and incremental runs, pushes and commits in which
\* files come and go, a row of code_index is the file of the indexed commit,
\* and its edges are those a run resolved when it parsed the row.
THEOREM EdgesAsOfTheirRow == Spec => []EdgesAreAsOfTheirRow
<1>1. IInv => EdgesAreAsOfTheirRow
  BY DEF IInv, GraphOK
<1> QED
  BY <1>1, Invariant, PTL

\* The sha skip posts one review of a head for any number of pull requests
\* that share it, deliveries, retries and CLI reviews beside the worker, as
\* long as the worker is the only one of its kind.
THEOREM OneReviewForEachHead == Spec => []OneReviewPerHead
<1>1. IInv => OneReviewPerHead
  <2> SUFFICES ASSUME IInv, NEW h \in PrCommit PROVE reviews[h] <= 1 + unrecorded[h]
    BY DEF OneReviewPerHead
  <2>1. Counted(h) /\ reviews[h] \in Nat /\ unrecorded[h] \in Nat
    BY DEF IInv, ReviewsOK, CountsOK
  <2> QED
    BY <2>1 DEF Counted
<1> QED
  BY <1>1, Invariant, PTL

\* No head is forgotten without one of the reasons that HeadsAreSettled lists,
\* for any number of heads, deliveries, retries and refusals.
THEOREM HeadsSettle == Spec => []HeadsAreSettled
<1>1. IInv => HeadsAreSettled
  <2> SUFFICES ASSUME IInv, NEW pr \in PR \ excused, pr \notin pending, ~Live(pr)
               PROVE  \E r \in rows : r.agent = "pr_reviewer" /\ r.sha = prHead[pr]
    BY DEF HeadsAreSettled
  <2>1. Followed(pr)
    BY DEF IInv, ReviewsOK, FollowedOK
  <2> QED
    BY <2>1 DEF Followed, YetToRead, InReview, Live, HasRow
<1> QED
  BY <1>1, Invariant, PTL
=============================================================================
