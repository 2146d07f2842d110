------------------------- MODULE TestGenClaimsProofs ------------------------
(***************************************************************************)
(* What TestGen says about attempts and claims: a file is attempted once,  *)
(* and a pull request shows what its body claims.                          *)
(***************************************************************************)
EXTENDS TestGenProofs

(* What a step leaves of each process's job.                               *)

Kept(p) ==
  LET w == job[p]
      v == job'[p]
  IN /\ v.kind = w.kind /\ v.file = w.file /\ v.sha = w.sha /\ v.text = w.text
     /\ v.existing = w.existing /\ v.rows = w.rows /\ v.made = w.made
     /\ v.pc = w.pc /\ v.chosen = w.chosen /\ v.outcome = w.outcome
     /\ v.sent # "no" => w.sent # "no" \/ mode # "shadow"

Begun(p) ==
  /\ job'[p].pc \in {"idle", "sync", "generate"}
  /\ job'[p].rows = {} /\ ~job'[p].made /\ job'[p].existing = None

Decided(p) ==
  /\ InChain(p)
  /\ \/ \E outcome :
          Moved(p, outcome, job[p].rows) /\ (outcome \in Progress => Signed(p))
     \/ /\ job[p].outcome \in Recordable
        /\ Moved(p, IF Taken(p) THEN "DEDUPED" ELSE job[p].outcome, RowsAfter(p))

Heard(p) ==
  /\ InChain(p) /\ job[p].outcome = "none"
  /\ \E outcome \in Recordable :
       /\ Told(p, outcome)
       /\ outcome = "SHADOW_LOGGED" => mode = "shadow"
       /\ outcome = "EXECUTED" => Accepts(job[p]) /\ TakesEffect(p)

LEMMA KeptOther ==
  ASSUME TypeOK, NEW p \in Process, NEW j, Becomes(p, j), NEW o \in Process, o # p
  PROVE  Kept(o)
<1>1. job'[o] = job[o]
  BY DEF TypeOK, Becomes
<1> QED
  BY <1>1 DEF Kept

LEMMA BegunIdle ==
  ASSUME TypeOK, NEW p \in Process, Becomes(p, Idle)
  PROVE  Begun(p) /\ job'[p] = Idle
<1>1. job'[p] = Idle
  BY DEF TypeOK, Becomes
<1> QED
  BY <1>1 DEF Begun, Idle

LEMMA WaitingKeeps ==
  ASSUME NEW p \in Process, Waiting(p),
         job'[p].sent # "no" => job[p].sent # "no" \/ mode # "shadow"
  PROVE  Kept(p)
BY DEF Waiting, Kept

LEMMA TickKeeps ==
  ASSUME TypeOK, NEW p \in Process, Tick(p)
  PROVE  Kept(p)
<1> DEFINE sent == IF job[p].sent = "sent" THEN "late" ELSE job[p].sent
<1>1. Becomes(p, [job[p] EXCEPT !.sent = sent])
  BY DEF Tick
<1>2. sent # "no" => job[p].sent # "no"
  OBVIOUS
<1> HIDE DEF sent
<1>3. Waiting(p) /\ job'[p].sent = sent
  BY <1>1, SentWaits
<1> QED
  BY <1>2, <1>3, WaitingKeeps

\* An answer comes to a job that had none.
LEMMA ChainHears ==
  ASSUME TypeOK, NEW p \in Process, ChainStep(p), ~Commit(p)
  PROVE  Kept(p) \/ Decided(p) \/ Heard(p)
<1>1. InChain(p)
  BY ChainMoves
<1>2. CASE Authorize(p)
  <2>1. mode # "shadow"
    BY <1>2 DEF Authorize
  <2> QED
    BY <1>2, <2>1, ChainMoves, WaitingKeeps
<1>3. CASE Deduped(p) \/ Downgraded(p) \/ Refused(p) \/ Lost(p)
  <2>1. Deduped(p) => Signed(p)
    BY DEF Deduped
  <2>2. \/ Signed(p) /\ Moved(p, "DEDUPED", job[p].rows)
        \/ Moved(p, "DOWNGRADED", job[p].rows)
        \/ Moved(p, "ERROR", job[p].rows)
    BY <1>3, <2>1, ChainMoves
  <2> QED
    BY <1>1, <2>2 DEF Decided, Progress
<1>4. CASE Inserted(p)
  BY <1>4, BecomesInserted DEF Decided
<1>5. CASE ShadowLogged(p) \/ Landed(p) \/ Executed(p)
  <2>1. job[p].outcome = "none"
    <3>1. job[p].sent # "no" => job[p].outcome = "none"
      BY <1>1, ChainLater, InLater
    <3> QED
      BY <1>5, <3>1 DEF ShadowLogged, Undecided, Landed, Executed
  <2>2. PICK outcome \in Recordable :
          /\ Told(p, outcome)
          /\ outcome = "SHADOW_LOGGED" => mode = "shadow"
          /\ outcome = "EXECUTED" => Executed(p)
    <3>1. CASE ShadowLogged(p) \/ Landed(p)
      BY <3>1, ChainMoves DEF Recordable
    <3>2. CASE Executed(p)
      BY <3>2, ChainMoves DEF Recordable
    <3> QED
      BY <1>5, <3>1, <3>2
  <2> QED
    BY <1>1, <2>1, <2>2 DEF Heard, Executed
<1> QED
  BY <1>2, <1>3, <1>4, <1>5 DEF ChainStep

LEMMA TakeBegins ==
  ASSUME TypeOK, Take
  PROVE  \E q \in queue : /\ queue' = queue \ {q}
                          /\ job'[Worker].kind = q.kind /\ job'[Worker].file = q.file
                          /\ Begun(Worker) /\ Becomes(Worker, job'[Worker])
<1>1. PICK q \in queue :
        /\ queue' = queue \ {q}
        /\ Becomes(Worker, [Idle EXCEPT !.kind = q.kind, !.file = q.file, !.sha = q.sha,
            !.tries = q.tries, !.pc = IF q.kind = "reindex" THEN "sync" ELSE "generate"])
  BY DEF Take
<1> DEFINE j == [Idle EXCEPT !.kind = q.kind, !.file = q.file, !.sha = q.sha,
            !.tries = q.tries, !.pc = IF q.kind = "reindex" THEN "sync" ELSE "generate"]
<1>2. /\ j.kind = q.kind /\ j.file = q.file /\ j.pc \in {"sync", "generate"}
      /\ j.rows = {} /\ ~j.made /\ j.existing = None
  BY DEF Idle
<1>3. job'[Worker] = j
  BY <1>1 DEF Becomes, TypeOK, Process
<1> HIDE DEF j
<1> QED
  BY <1>1, <1>2, <1>3 DEF Begun, j

LEMMA CliBegins ==
  ASSUME TypeOK, NEW p \in Process, NEW f \in File, CliGenerates(p, f)
  PROVE  Begun(p) /\ p # Worker /\ Becomes(p, job'[p])
<1> DEFINE j == [Idle EXCEPT !.kind = "generate", !.file = f, !.pc = "generate"]
<1>1. Becomes(p, j) /\ p # Worker
  BY TestGenAssumption DEF CliGenerates
<1>2. j.pc = "generate" /\ j.rows = {} /\ ~j.made /\ j.existing = None
  BY DEF Idle
<1>3. job'[p] = j
  BY <1>1 DEF Becomes, TypeOK
<1> HIDE DEF j
<1> QED
  BY <1>1, <1>2, <1>3 DEF Begun

PlannedOn == \E pc \in Planning : \E chosen : Planned(pc, chosen)

LEMMA ReindexPlans ==
  ASSUME TypeOK, Reindex, ~ReindexEnds
  PROVE  PlannedOn
BY ReindexMoves DEF PlannedOn, Planning, Reindex

LEMMA JobSteps ==
  ASSUME TypeOK, [Next]_vars, NEW p \in Process
  PROVE  \/ Kept(p) \/ Begun(p) \/ Prepared(p) \/ Decided(p) \/ Heard(p)
         \/ p = Worker /\ PlannedOn
<1>0. Worker \in Process
  BY DEF Process
<1>1. CASE Push \/ Quiet \/ UNCHANGED vars
  BY <1>1 DEF Push, Quiet, vars, Kept
<1>2. CASE Take
  <2>1. Begun(Worker) /\ Becomes(Worker, job'[Worker])
    BY <1>2, TakeBegins
  <2> QED
    BY <1>0, <2>1, KeptOther
<1>3. CASE Reindex
  <2>1. CASE ReindexEnds
    <3>1. Becomes(Worker, Idle)
      BY <2>1 DEF ReindexEnds, Ends
    <3> QED
      BY <1>0, <3>1, KeptOther, BegunIdle
  <2>2. CASE ~ReindexEnds
    <3>1. PlannedOn
      BY <1>3, <2>2, ReindexPlans
    <3>2. Becomes(Worker, job'[Worker])
      BY <3>1 DEF PlannedOn, Planned
    <3> QED
      BY <1>0, <3>1, <3>2, KeptOther
  <2> QED
    BY <2>1, <2>2
<1>4. ASSUME NEW o \in Process, Generation(o)
      PROVE  Kept(p) \/ Begun(p) \/ Prepared(p)
  <2>1. CASE Becomes(o, Idle)
    BY <2>1, KeptOther, BegunIdle
  <2>2. CASE Prepared(o)
    <3>1. Becomes(o, job'[o])
      BY <2>2 DEF Prepared
    <3> QED
      BY <2>2, <3>1, KeptOther
  <2> QED
    BY <1>4, <2>1, <2>2, GenerationMoves
<1>5. ASSUME NEW o \in Process, ChainStep(o)
      PROVE  Kept(p) \/ Begun(p) \/ Decided(p) \/ Heard(p)
  <2>1. CASE Commit(o)
    <3>1. Becomes(o, Idle)
      BY <2>1 DEF Commit, Ends
    <3> QED
      BY <3>1, KeptOther, BegunIdle
  <2>2. CASE ~Commit(o)
    <3>1. Becomes(o, job'[o]) /\ (Kept(o) \/ Decided(o) \/ Heard(o))
      BY <1>5, <2>2, ChainMoves, ChainHears
    <3> QED
      BY <3>1, KeptOther
  <2> QED
    BY <2>1, <2>2
<1>6. ASSUME NEW o \in Process, Tick(o)
      PROVE  Kept(p)
  <2>1. \E j : Becomes(o, j)
    BY <1>6 DEF Tick
  <2> QED
    BY <1>6, <2>1, TickKeeps, KeptOther
<1>7. ASSUME NEW o \in Process, Crash(o)
      PROVE  Kept(p) \/ Begun(p)
  <2>1. Becomes(o, Idle)
    BY <1>7 DEF Crash, Ends
  <2> QED
    BY <2>1, KeptOther, BegunIdle
<1>8. ASSUME NEW o \in Process, NEW f \in File, CliGenerates(o, f)
      PROVE  Kept(p) \/ Begun(p)
  BY <1>8, CliBegins, KeptOther
<1> QED
  BY <1>1, <1>2, <1>3, <1>4, <1>5, <1>6, <1>7, <1>8 DEF Next

-----------------------------------------------------------------------------
(* The rows a process has not committed yet.                               *)

\* A job has made its branch from the answer to its first decision on.
RowsInv ==
  \A p \in Process :
    /\ job[p].pc \notin {"write", "open", "commit"} =>
         /\ job[p].rows = {}
         /\ job[p].made => job[p].pc = "create" /\ job[p].outcome = "EXECUTED"
    /\ job[p].pc = "write" => \A a \in job[p].rows : a.action = "create"
    /\ \A a \in job[p].rows : a.action = "create" => a.file = job[p].file

LEMMA RowsStep ==
  ASSUME TypeOK, RowsInv, [Next]_vars
  PROVE  RowsInv'
<1> SUFFICES ASSUME NEW p \in Process
             PROVE  /\ job'[p].pc \notin {"write", "open", "commit"} =>
                         /\ job'[p].rows = {}
                         /\ job'[p].made => /\ job'[p].pc = "create"
                                            /\ job'[p].outcome = "EXECUTED"
                    /\ job'[p].pc = "write" => \A a \in job'[p].rows : a.action = "create"
                    /\ \A a \in job'[p].rows : a.action = "create" => a.file = job'[p].file
  BY DEF RowsInv
<1>1. CASE Kept(p)
  BY <1>1 DEF Kept, RowsInv
<1>2. CASE Begun(p)
  BY <1>2 DEF Begun
<1>3. CASE Prepared(p)
  BY <1>3 DEF Prepared, RowsInv
<1>4. CASE p = Worker /\ PlannedOn
  <2>1. job[p].pc \notin {"write", "open", "commit"}
    BY <1>4 DEF PlannedOn, Planned, Planning
  <2> QED
    BY <1>4, <2>1 DEF PlannedOn, Planned, Planning, RowsInv
<1>5. CASE Decided(p)
  <2>1. job[p].pc \in {"create", "write", "open"}
    BY <1>5, ChainLater DEF Decided
  <2> DEFINE row == RowOf(job[p], job[p].outcome)
  <2>2. row.action = job[p].pc /\ (job[p].pc = "create" => row.file = job[p].file)
    BY DEF RowOf
  <2>3. \E outcome, rows : rows \in {job[p].rows, RowsAfter(p)} /\ Moved(p, outcome, rows)
    <3>1. CASE \E outcome : Moved(p, outcome, job[p].rows)
      BY <3>1
    <3>2. CASE Moved(p, IF Taken(p) THEN "DEDUPED" ELSE job[p].outcome, RowsAfter(p))
      BY <3>2
    <3> QED
      BY <1>5, <3>1, <3>2, Zenon DEF Decided
  <2>4. job'[p].rows \subseteq job[p].rows \cup {row}
    BY <2>3 DEF Moved, RowsAfter
  <2>5. /\ job'[p].pc \in {"write", "open", "commit"} /\ job'[p].file = job[p].file
        /\ job'[p].pc = "write" => job[p].pc = "create"
    BY <2>3 DEF Moved
  <2> HIDE DEF RowsInv
  <2>6. /\ \A a \in job[p].rows : a.action = "create" => a.file = job[p].file
        /\ job[p].pc = "create" => job[p].rows = {}
    BY DEF RowsInv
  <2> HIDE DEF row
  <2> QED
    BY <2>1, <2>2, <2>4, <2>5, <2>6
<1>6. CASE Heard(p)
  BY <1>6 DEF Heard, Told, RowsInv
<1> QED
  BY <1>1, <1>2, <1>3, <1>4, <1>5, <1>6, JobSteps

LEMMA RowsHold == Spec => []RowsInv
<1>1. Init => RowsInv
  BY DEF Init, RowsInv, Idle
<1>2. TypeOK /\ RowsInv /\ [Next]_vars => RowsInv'
  BY RowsStep
<1> QED
  BY <1>1, <1>2, TypesHold, PTL DEF Spec
-----------------------------------------------------------------------------
(* Attempts.                                                               *)

Attempts(f) == {b \in DOMAIN branches : branches[b].by = Worker /\ branches[b].for = f}
QueuedFor(f) == {q \in queue : q.kind = "generate" /\ q.file = f}

\* 1 if the worker has a job of f that has not made its branch.
Attempting(f) ==
  IF job[Worker].kind = "generate" /\ job[Worker].file = f /\ ~job[Worker].made THEN 1 ELSE 0

\* 1 if there is a row of an attempt at f, or one to come.
Attempted(f) ==
  IF PriorAttempt(f) \/ (job[Worker].made /\ job[Worker].file = f) THEN 1 ELSE 0

Finite == IsFiniteSet(queue) /\ IsFiniteSet(DOMAIN branches)

\* Each job of f is paid for: by the first attempt that anything may have, or by
\* a reason for one more; and a file whose attempt left no row, or that the
\* trigger has chosen, has no attempt that is not.
Paid(f) ==
  /\ Cardinality(Attempts(f)) + Cardinality(QueuedFor(f)) + Attempting(f) <= again[f] + 1
  /\ Cardinality(Attempts(f)) <= again[f] + Attempted(f)
  /\ job[Worker].pc = "enqueue" /\ f \in ToSet(job[Worker].chosen) /\ QueuedFor(f) = {} =>
       Cardinality(Attempts(f)) <= again[f]

AttemptInv == Finite /\ \A f \in File : Paid(f)

LEMMA Counts ==
  ASSUME Finite, TypeOK, NEW f \in File
  PROVE  /\ IsFiniteSet(Attempts(f)) /\ Cardinality(Attempts(f)) \in Nat
         /\ IsFiniteSet(QueuedFor(f)) /\ Cardinality(QueuedFor(f)) \in Nat
         /\ Attempting(f) \in {0, 1} /\ Attempted(f) \in {0, 1} /\ again[f] \in Nat
<1>1. IsFiniteSet(Attempts(f)) /\ IsFiniteSet(QueuedFor(f))
  BY FS_Subset DEF Finite, Attempts, QueuedFor
<1>2. Attempting(f) \in {0, 1} /\ Attempted(f) \in {0, 1} /\ again[f] \in Nat
  BY DEF Attempting, Attempted, TypeOK
<1> QED
  BY <1>1, <1>2, FS_CardinalityType

\* The branch a job makes.
Makes(p, f) ==
  /\ p = Worker /\ job[p].file = f /\ job[p].pc = "create" /\ ~job[p].made
  /\ \E b : b \notin Attempts(f) /\ Attempts(f)' = Attempts(f) \cup {b}

\* Only a request of the worker that makes a branch adds to the attempts.
LEMMA AttemptsGrow ==
  ASSUME TypeOK, RowsInv, NEW p \in Process, InChain(p), job[p].sent # "no",
         Accepts(job[p]), TakesEffect(p), NEW f \in File
  PROVE  /\ Makes(p, f) \/ Attempts(f)' = Attempts(f)
         /\ IsFiniteSet(DOMAIN branches) => IsFiniteSet(DOMAIN branches')
<1> DEFINE j == job[p]
           c == BranchOf(j.file, j.sha)
           new == [base |-> j.sha, by |-> p, for |-> j.file, files |-> <<>>]
           path == TestPath(j.file)
           written == [text |-> j.text, at |-> j.at, by |-> p]
<1>1. j.pc \in {"create", "write", "open"}
  BY ChainLater
<1>2. CASE j.pc = "create"
  <2>0. ~j.made
    BY <1>2, ChainLater, InLater DEF RowsInv
  <2>1. branches' = [x \in DOMAIN branches \cup {c} |-> IF x = c THEN new ELSE branches[x]]
        /\ c \notin DOMAIN branches
    BY <1>2 DEF TakesEffect, Accepts
  <2>2. new.by = p /\ new.for = j.file
    OBVIOUS
  <2> HIDE DEF new, c
  <2>3. DOMAIN branches' = DOMAIN branches \cup {c} /\ branches'[c] = new
        /\ \A x \in DOMAIN branches : branches'[x] = branches[x]
    BY <2>1
  <2>4. CASE p = Worker /\ j.file = f
    <3>1. Attempts(f)' = Attempts(f) \cup {c} /\ c \notin Attempts(f)
      BY <2>1, <2>2, <2>3, <2>4 DEF Attempts
    <3> QED
      BY <1>2, <2>0, <2>3, <2>4, <3>1, FS_AddElement DEF Makes
  <2>5. CASE ~(p = Worker /\ j.file = f)
    <3>1. Attempts(f)' = Attempts(f)
      BY <2>1, <2>2, <2>3, <2>5 DEF Attempts
    <3> QED
      BY <2>3, <3>1, FS_AddElement
  <2> QED
    BY <2>4, <2>5
<1>3. CASE j.pc = "write"
  <2> DEFINE old == branches[c].files
             files == [x \in DOMAIN old \cup {path} |-> IF x = path THEN written ELSE old[x]]
  <2>1. c \in DOMAIN branches /\ branches' = [branches EXCEPT ![c].files = files]
    BY <1>3 DEF TakesEffect, Accepts
  <2>2. BranchShape(c) /\ branches = [x \in DOMAIN branches |-> branches[x]]
    BY <2>1 DEF TypeOK
  <2> HIDE DEF files
  <2>3. branches[c] \in [base : Sha, by : Process, for : File, files : {old}]
    BY <2>2 DEF BranchShape
  <2>4. /\ DOMAIN branches' = DOMAIN branches
        /\ \A x \in DOMAIN branches : x # c => branches'[x] = branches[x]
        /\ branches'[c] = [branches[c] EXCEPT !.files = files]
    BY <2>1, <2>2
  <2>5. branches'[c].by = branches[c].by /\ branches'[c].for = branches[c].for
    BY <2>3, <2>4
  <2>6. \A x \in DOMAIN branches :
          branches'[x].by = branches[x].by /\ branches'[x].for = branches[x].for
    BY <2>4, <2>5
  <2>7. Attempts(f)' = Attempts(f)
    BY <2>4, <2>6 DEF Attempts
  <2> QED
    BY <2>4, <2>7
<1>4. CASE j.pc = "open"
  BY <1>4 DEF TakesEffect, Attempts
<1> QED
  BY <1>1, <1>2, <1>3, <1>4

\* A step that makes nothing and asks for nothing.
LEMMA NothingNew ==
  ASSUME TypeOK, TypeOK', Finite, Finite', NEW f \in File, Paid(f),
         Attempts(f)' = Attempts(f), QueuedFor(f)' = QueuedFor(f),
         Attempting(f)' <= Attempting(f), again'[f] >= again[f],
         \/ Attempted(f)' >= Attempted(f)
         \/ again'[f] > again[f],
         job'[Worker].pc = "enqueue" /\ f \in ToSet(job'[Worker].chosen) =>
           /\ job[Worker].pc = "enqueue" /\ f \in ToSet(job[Worker].chosen)
  PROVE  Paid(f)'
<1>1. /\ Cardinality(Attempts(f)) \in Nat /\ Cardinality(QueuedFor(f)) \in Nat
      /\ Attempting(f) \in {0, 1} /\ Attempted(f) \in {0, 1} /\ again[f] \in Nat
  BY Counts
<1>2. /\ (Cardinality(Attempts(f)))' = Cardinality(Attempts(f))
      /\ (Cardinality(QueuedFor(f)))' = Cardinality(QueuedFor(f))
      /\ Attempting(f)' \in {0, 1} /\ Attempted(f)' \in {0, 1} /\ again'[f] \in Nat
  BY DEF Attempting, Attempted, TypeOK
<1> QED
  BY <1>1, <1>2 DEF Paid

\* Steps after which the worker's job is the same, and no job of the queue and
\* no branch of the worker comes or goes.
LEMMA OthersPay ==
  ASSUME TypeOK, TypeOK', AttemptInv, Finite', Kept(Worker), acts \subseteq acts',
         \A f \in File : again'[f] >= again[f] /\ Attempts(f)' = Attempts(f)
                         /\ QueuedFor(f)' = QueuedFor(f)
  PROVE  AttemptInv'
<1> SUFFICES ASSUME NEW f \in File PROVE Paid(f)'
  BY DEF AttemptInv
<1>1. Attempting(f)' = Attempting(f)
  BY DEF Attempting, Kept
<1>2. Attempted(f)' >= Attempted(f)
  <2>1. PriorAttempt(f) => PriorAttempt(f)'
    BY DEF PriorAttempt
  <2> QED
    BY <2>1 DEF Attempted, Kept
<1>3. Attempting(f) \in {0, 1}
  BY DEF Attempting
<1> QED
  BY <1>1, <1>2, <1>3, NothingNew DEF AttemptInv, Kept

\* A step of the worker's generation job that makes no branch.
LEMMA WorkerGoesOn ==
  ASSUME TypeOK, TypeOK', AttemptInv, Finite', acts \subseteq acts',
         \A f \in File : again'[f] >= again[f] /\ Attempts(f)' = Attempts(f)
                         /\ QueuedFor(f)' = QueuedFor(f),
         job'[Worker].kind = job[Worker].kind, job'[Worker].file = job[Worker].file,
         job[Worker].made => job'[Worker].made, job'[Worker].pc # "enqueue"
  PROVE  AttemptInv'
<1> SUFFICES ASSUME NEW f \in File PROVE Paid(f)'
  BY DEF AttemptInv
<1>1. Attempting(f)' <= Attempting(f)
  BY DEF Attempting
<1>2. Attempted(f)' >= Attempted(f)
  <2>1. PriorAttempt(f) => PriorAttempt(f)'
    BY DEF PriorAttempt
  <2> QED
    BY <2>1 DEF Attempted
<1> QED
  BY <1>1, <1>2, NothingNew DEF AttemptInv

\* The worker's job ends.  A branch it made has a row, or is a reason for one
\* more.
LEMMA WorkerStops ==
  ASSUME TypeOK, TypeOK', AttemptInv, UNCHANGED <<branches, queue>>, acts \subseteq acts',
         job'[Worker] = Idle,
         \A f \in File : again'[f] >= again[f],
         job[Worker].made => \/ \E a \in acts' : a.action = "create" /\ a.file = job[Worker].file
                             \/ again'[job[Worker].file] > again[job[Worker].file]
  PROVE  AttemptInv'
<1>1. Finite'
  BY DEF AttemptInv, Finite
<1> SUFFICES ASSUME NEW f \in File PROVE Paid(f)'
  BY <1>1 DEF AttemptInv
<1>2. Attempts(f)' = Attempts(f) /\ QueuedFor(f)' = QueuedFor(f)
  BY DEF Attempts, QueuedFor
<1>3. Idle.kind = "none" /\ Idle.pc = "idle" /\ ~Idle.made
  BY DEF Idle
<1>4. Attempting(f)' <= Attempting(f)
  BY <1>3 DEF Attempting
<1>5. Attempted(f)' >= Attempted(f) \/ again'[f] > again[f]
  <2>1. PriorAttempt(f) => PriorAttempt(f)'
    BY DEF PriorAttempt
  <2>2. PriorAttempt(f)' => Attempted(f)' = 1
    BY DEF Attempted
  <2>3. Attempted(f) \in {0, 1} /\ Attempted(f)' \in {0, 1}
    BY DEF Attempted
  <2>4. CASE PriorAttempt(f)
    BY <2>1, <2>2, <2>3, <2>4
  <2>5. CASE job[Worker].made /\ job[Worker].file = f
    <3>1. (\E a \in acts' : a.action = "create" /\ a.file = f) => PriorAttempt(f)'
      BY DEF PriorAttempt
    <3> QED
      BY <2>2, <2>3, <2>5, <3>1
  <2>6. CASE ~PriorAttempt(f) /\ ~(job[Worker].made /\ job[Worker].file = f)
    <3>1. Attempted(f) = 0
      BY <2>6 DEF Attempted
    <3> QED
      BY <2>3, <3>1
  <2> QED
    BY <2>4, <2>5, <2>6
<1> QED
  BY <1>1, <1>2, <1>3, <1>4, <1>5, NothingNew DEF AttemptInv

LEMMA MoreOften ==
  ASSUME TypeOK, NEW g, \/ UNCHANGED again
                        \/ again' = [again EXCEPT ![g] = @ + 1]
  PROVE  \A f \in File : again'[f] >= again[f]
BY DEF TypeOK

LEMMA Unpaid ==
  ASSUME TypeOK, NEW p \in Process, Unrecorded(p)
  PROVE  /\ \A f \in File : again'[f] >= again[f]
         /\ job[p].made /\ job[p].file \in File => again'[job[p].file] > again[job[p].file]
BY DEF TypeOK, Unrecorded

LEMMA PushPays ==
  ASSUME TypeOK, TypeOK', AttemptInv, Push
  PROVE  AttemptInv'
<1>0. PICK s \in Sha :
        \E e \in Enqueued("reindex", None, s) \cup {<<queue, "refused">>} : queue' = e[1]
  BY DEF Push
<1> DEFINE q == [kind |-> "reindex", file |-> None, sha |-> s, tries |-> 0]
<1>1. queue' = queue \/ queue' = queue \cup {q}
  <2>1. PICK e \in Enqueued("reindex", None, s) \cup {<<queue, "refused">>} : queue' = e[1]
    BY <1>0
  <2>2. CASE e \in Enqueued("reindex", None, s)
    BY <2>1, <2>2, EnqueuedIs
  <2>3. CASE e = <<queue, "refused">>
    BY <2>1, <2>3
  <2> QED
    BY <2>1, <2>2, <2>3
<1>2. q.kind = "reindex"
  OBVIOUS
<1> HIDE DEF q
<1>3. \A f : QueuedFor(f)' = QueuedFor(f)
  BY <1>1, <1>2 DEF QueuedFor
<1>4. UNCHANGED <<branches, job, again, acts>>
  BY DEF Push, ghosts
<1>5. Finite' /\ Kept(Worker) /\ \A f : Attempts(f)' = Attempts(f)
  BY <1>1, <1>4, FS_AddElement DEF Finite, AttemptInv, Kept, Attempts
<1>6. \A f \in File : again'[f] >= again[f]
  BY <1>4, MoreOften
<1> QED
  BY <1>3, <1>4, <1>5, <1>6, OthersPay

LEMMA TakePays ==
  ASSUME TypeOK, TypeOK', AttemptInv, Take
  PROVE  AttemptInv'
<1>1. PICK q \in queue : /\ queue' = queue \ {q}
                         /\ job'[Worker].kind = q.kind /\ job'[Worker].file = q.file
                         /\ Begun(Worker)
  BY TakeBegins
<1>2. UNCHANGED <<branches, again, acts>>
  BY DEF Take, github, ghosts
<1>3. Finite'
  BY <1>1, <1>2, FS_RemoveElement DEF Finite, AttemptInv
<1>4. job[Worker].kind = "none" /\ ~job[Worker].made
  BY DEF Take, Idle
<1> SUFFICES ASSUME NEW f \in File PROVE Paid(f)'
  BY <1>3 DEF AttemptInv
<1>5. Attempts(f)' = Attempts(f)
  BY <1>2 DEF Attempts
<1>6. Attempted(f)' = Attempted(f)
  BY <1>1, <1>2, <1>4 DEF Attempted, Begun, PriorAttempt
<1>7. Attempting(f) = 0 /\ job'[Worker].pc # "enqueue"
  BY <1>1, <1>4 DEF Attempting, Begun
<1>8. CASE q.kind = "generate" /\ q.file = f
  <2>1. QueuedFor(f)' = QueuedFor(f) \ {q} /\ q \in QueuedFor(f)
    BY <1>1, <1>8 DEF QueuedFor
  <2>2. Cardinality(QueuedFor(f)') = Cardinality(QueuedFor(f)) - 1
    BY <2>1, Counts, FS_RemoveElement DEF AttemptInv
  <2>3. Attempting(f)' = 1
    BY <1>1, <1>8 DEF Attempting, Begun
  <2>4. /\ Cardinality(Attempts(f)) \in Nat /\ Cardinality(QueuedFor(f)) \in Nat
        /\ Attempted(f) \in {0, 1} /\ again[f] \in Nat
    BY Counts DEF AttemptInv
  <2>5. Paid(f)
    BY DEF AttemptInv
  <2> QED
    BY <1>2, <1>5, <1>6, <1>7, <2>2, <2>3, <2>4, <2>5 DEF Paid
<1>9. CASE ~(q.kind = "generate" /\ q.file = f)
  <2>1. QueuedFor(f)' = QueuedFor(f)
    BY <1>1, <1>9 DEF QueuedFor
  <2>2. Attempting(f)' = 0
    BY <1>1, <1>9 DEF Attempting
  <2>3. Paid(f) /\ Attempted(f) \in {0, 1} /\ again[f] \in Nat
    BY Counts DEF AttemptInv
  <2> QED
    BY <1>2, <1>3, <1>5, <1>6, <1>7, <2>1, <2>2, <2>3, NothingNew DEF AttemptInv
<1> QED
  BY <1>8, <1>9

LEMMA ReindexPays ==
  ASSUME TypeOK, TypeOK', RowsInv, AttemptInv, Reindex
  PROVE  AttemptInv'
<1> DEFINE w == job[Worker]
           v == job'[Worker]
<1>0. Worker \in Process /\ w \in Job /\ JobShape(Worker, w)
  BY JobOf DEF Process
<1>1. w.pc \in Planning /\ w.kind = "reindex" /\ ~w.made
  <2>1. w.pc \in Planning
    BY DEF Reindex, Sync, Index, Trigger, Enqueue, ReindexEnds, Planning
  <2> QED
    BY <1>0, <2>1 DEF JobShape, Planning, RowsInv
<1>2. \A f \in File : Attempting(f) = 0
  BY <1>1 DEF Attempting
<1>3. PlannedOn => \A f \in File : Attempting(f)' = 0
  BY DEF PlannedOn, Planned, Attempting
<1>4. PlannedOn => ~v.made
  BY <1>1 DEF PlannedOn, Planned
<1>5. ASSUME PlannedOn, UNCHANGED <<branches, queue, acts, again>>, NEW f \in File,
             v.pc = "enqueue" /\ f \in ToSet(v.chosen) =>
               w.pc = "enqueue" /\ f \in ToSet(w.chosen)
      PROVE  Paid(f)'
  <2>1. Attempts(f)' = Attempts(f) /\ QueuedFor(f)' = QueuedFor(f)
    BY <1>5 DEF Attempts, QueuedFor
  <2>2. Attempted(f)' = Attempted(f)
    BY <1>1, <1>4, <1>5 DEF Attempted, PriorAttempt
  <2>3. Finite' /\ Attempted(f) \in {0, 1} /\ again[f] \in Nat
    BY <1>5, Counts DEF AttemptInv, Finite
  <2> QED
    BY <1>2, <1>3, <1>5, <2>1, <2>2, <2>3, NothingNew DEF AttemptInv
<1>6. CASE Sync \/ Index
  <2>1. UNCHANGED <<branches, queue, acts, again>>
    BY <1>6 DEF Sync, Index, github, ghosts
  <2>2. PlannedOn /\ v.pc \in {"index", "trigger"}
    BY <1>6, ReindexMoves DEF PlannedOn, Planned, Planning, Reindex
  <2>3. Finite'
    BY <2>1 DEF AttemptInv, Finite
  <2> QED
    BY <1>5, <2>1, <2>2, <2>3 DEF AttemptInv
<1>7. CASE Trigger
  <2>1. UNCHANGED <<branches, queue, acts, again>>
    BY <1>7 DEF Trigger, github, ghosts
  <2>2. PICK files : /\ Eligible(files)
                     /\ Planned("enqueue", <<>>) \/ Planned("enqueue", Selected(files))
    BY <1>7, ReindexMoves
  <2>3. PlannedOn /\ (v.chosen = <<>> \/ v.chosen = Selected(files))
    BY <2>2 DEF PlannedOn, Planned, Planning
  <2>4. Finite'
    BY <2>1 DEF AttemptInv, Finite
  <2> SUFFICES ASSUME NEW f \in File PROVE Paid(f)'
    BY <2>4 DEF AttemptInv
  <2>5. CASE f \in ToSet(v.chosen)
    <3>1. ToSet(<<>>) = {}
      BY DEF ToSet
    <3>2. f \in files
      BY <2>3, <2>5, <3>1, SelectedIs
    <3>3. ~PriorAttempt(f)
      BY <2>2, <3>2 DEF Eligible, IsFeasible
    <3>4. Attempted(f) = 0 /\ Attempted(f)' = 0
      BY <1>1, <1>4, <2>1, <2>3, <3>3 DEF Attempted, PriorAttempt
    <3>5. Attempts(f)' = Attempts(f) /\ QueuedFor(f)' = QueuedFor(f)
      BY <2>1 DEF Attempts, QueuedFor
    <3>6. Paid(f) /\ Cardinality(Attempts(f)) \in Nat /\ again[f] \in Nat
      BY Counts DEF AttemptInv
    <3> QED
      BY <1>2, <1>3, <2>1, <2>3, <3>4, <3>5, <3>6 DEF Paid
  <2>6. CASE f \notin ToSet(v.chosen)
    BY <1>5, <2>1, <2>3, <2>6
  <2> QED
    BY <2>5, <2>6
<1>8. CASE ReindexEnds
  <2>1. Becomes(Worker, Idle) /\ UNCHANGED <<branches, queue, acts, again>>
    BY <1>8 DEF ReindexEnds, Ends, github, ghosts
  <2>2. v = Idle /\ \A f \in File : again'[f] >= again[f]
    BY <1>0, <2>1, BecomesOther, MoreOften
  <2> QED
    BY <1>1, <2>1, <2>2, WorkerStops
<1>9. CASE Enqueue
  <2> DEFINE g == Head(w.chosen)
             q == [kind |-> "generate", file |-> g, sha |-> repoHead, tries |-> 0]
  <2>1. w.pc = "enqueue" /\ w.chosen # <<>> /\ UNCHANGED <<branches, acts>>
    BY <1>9 DEF Enqueue, github
  <2>2. /\ g \in ToSet(w.chosen) /\ ToSet(Tail(w.chosen)) \subseteq ToSet(w.chosen)
        /\ g \in File
    <3>1. w.chosen \in Seq(File)
      BY <1>0 DEF Job
    <3> QED
      BY <2>1, <3>1, HeadTail DEF ToSet
  <2>3. PlannedOn /\ v.pc = "enqueue" /\ v.chosen = Tail(w.chosen)
    BY <1>9, ReindexMoves DEF PlannedOn, Planned, Planning
  <2>4. \/ UNCHANGED <<queue, again>>
        \/ /\ queue' = queue \cup {q} /\ IdOf(q) \notin LiveIds
           /\ again' = IF AttemptLive(g) THEN [again EXCEPT ![g] = @ + 1] ELSE again
    <3>1. \/ UNCHANGED <<queue, again>>
          \/ \E e \in Enqueued("generate", g, repoHead) :
               /\ queue' = e[1]
               /\ again' = IF e[2] = "taken" /\ AttemptLive(g)
                           THEN [again EXCEPT ![g] = @ + 1] ELSE again
      BY <1>9 DEF Enqueue
    <3> QED
      BY <3>1, EnqueuedIs
  <2>5. q.kind = "generate" /\ q.file = g
    OBVIOUS
  <2> HIDE DEF q, g
  <2>6. Finite'
    BY <2>1, <2>4, FS_AddElement DEF AttemptInv, Finite
  <2>7. \A f \in File : again'[f] >= again[f]
    BY <2>4, MoreOften
  <2> SUFFICES ASSUME NEW f \in File PROVE Paid(f)'
    BY <2>6 DEF AttemptInv
  <2>8. Attempts(f)' = Attempts(f)
    BY <2>1 DEF Attempts
  <2>9. Attempted(f)' = Attempted(f) /\ Attempted(f) \in {0, 1} /\ again[f] \in Nat
    BY <1>1, <1>4, <2>1, <2>3, Counts DEF Attempted, PriorAttempt, AttemptInv
  <2>10. CASE QueuedFor(f)' = QueuedFor(f)
    BY <1>2, <1>3, <2>1, <2>2, <2>3, <2>6, <2>7, <2>8, <2>9, <2>10, NothingNew DEF AttemptInv
  <2>11. CASE QueuedFor(f)' # QueuedFor(f)
    <3>1. f = g /\ queue' = queue \cup {q} /\ q \notin queue
          /\ again' = IF AttemptLive(g) THEN [again EXCEPT ![g] = @ + 1] ELSE again
      BY <2>4, <2>5, <2>11 DEF QueuedFor
    <3>2. QueuedFor(f)' = QueuedFor(f) \cup {q} /\ q \notin QueuedFor(f)
      BY <2>5, <3>1 DEF QueuedFor
    <3>3. Cardinality(QueuedFor(f)') = Cardinality(QueuedFor(f)) + 1
      BY <3>2, Counts, FS_AddElement DEF AttemptInv
    <3>4. /\ Cardinality(Attempts(f)) \in Nat /\ Cardinality(QueuedFor(f)) \in Nat
      BY Counts DEF AttemptInv
    <3>5. Paid(f)
      BY DEF AttemptInv
    <3>6. CASE AttemptLive(g)
      <4>1. again'[f] = again[f] + 1
        BY <3>1, <3>6 DEF TypeOK
      <4> QED
        BY <1>2, <1>3, <2>3, <2>8, <2>9, <3>2, <3>3, <3>4, <3>5, <4>1 DEF Paid
    <3>7. CASE ~AttemptLive(g)
      <4>1. \A e \in queue : ~(e.kind = "generate" /\ e.file = g)
        <5> SUFFICES ASSUME NEW e \in queue, e.kind = "generate", e.file = g
                     PROVE  AttemptLive(g)
          BY <3>7
        <5>1. IdOf(e) \in LiveIds
          BY DEF LiveIds
        <5>2. IdOf(e)[1] = "generate" /\ IdOf(e)[2] = g
          BY DEF IdOf
        <5> QED
          BY <5>1, <5>2 DEF AttemptLive
      <4>2. QueuedFor(f) = {}
        BY <3>1, <4>1 DEF QueuedFor
      <4>3. Cardinality(QueuedFor(f)) = 0
        BY <4>2, FS_EmptySet
      <4>4. Cardinality(Attempts(f)) <= again[f]
        BY <2>1, <2>2, <3>1, <3>5, <4>2 DEF Paid
      <4> QED
        BY <1>2, <1>3, <2>3, <2>8, <2>9, <3>1, <3>2, <3>3, <3>4, <3>5, <3>7, <4>3, <4>4
        DEF Paid
    <3> QED
      BY <3>6, <3>7
  <2> QED
    BY <2>10, <2>11
<1> QED
  BY <1>6, <1>7, <1>8, <1>9 DEF Reindex

LEMMA GenerationPays ==
  ASSUME TypeOK, TypeOK', RowsInv, AttemptInv, NEW p \in Process, Generation(p)
  PROVE  AttemptInv'
<1>0. Worker \in Process
  BY DEF Process
<1>1. UNCHANGED <<branches, queue, acts, again>>
  BY DEF Generation, ReadRow, GenerateNothing, Generate, ReadRef, ReadContents, Fails,
         github, ghosts
<1>2. Finite' /\ \A f \in File : /\ again'[f] >= again[f] /\ Attempts(f)' = Attempts(f)
                                 /\ QueuedFor(f)' = QueuedFor(f)
  BY <1>1, MoreOften DEF AttemptInv, Finite, Attempts, QueuedFor
<1>3. CASE p # Worker
  <2>1. \E j : Becomes(p, j)
    BY GenerationMoves DEF Prepared
  <2>2. Kept(Worker)
    BY <1>0, <1>3, <2>1, KeptOther
  <2> QED
    BY <1>1, <1>2, <2>2, OthersPay
<1>4. CASE p = Worker /\ Becomes(p, Idle)
  <2>1. job'[Worker] = Idle
    BY <1>0, <1>4, BegunIdle
  <2>2. job[Worker].pc \in {"generate", "ask", "ref", "contents"}
    BY <1>4 DEF Generation, ReadRow, GenerateNothing, Generate, ReadRef, ReadContents, Fails
  <2>3. ~job[Worker].made
    BY <1>0, <2>2 DEF RowsInv
  <2> QED
    BY <1>1, <1>2, <2>1, <2>3, WorkerStops
<1>5. CASE p = Worker /\ Prepared(p)
  BY <1>1, <1>2, <1>5, WorkerGoesOn DEF Prepared
<1> QED
  BY <1>3, <1>4, <1>5, GenerationMoves

\* The branch that a request of the worker makes is paid for by its job, or,
\* when the answer is lost, by one more.
LEMMA MakingPays ==
  ASSUME TypeOK, TypeOK', RowsInv, AttemptInv, UNCHANGED <<queue, acts>>, Finite',
         \A f \in File : again'[f] >= again[f],
         NEW g \in File, Makes(Worker, g), job[Worker].kind = "generate",
         \A f \in File : f # g => Attempts(f)' = Attempts(f),
         job'[Worker].kind = "generate", job'[Worker].file = g, job'[Worker].pc # "enqueue",
         job'[Worker].made \/ again'[g] = again[g] + 1
  PROVE  AttemptInv'
<1>1. ~job[Worker].made /\ job[Worker].file = g
  BY DEF Makes
<1> SUFFICES ASSUME NEW f \in File PROVE Paid(f)'
  BY DEF AttemptInv
<1>2. QueuedFor(f)' = QueuedFor(f)
  BY DEF QueuedFor
<1>3. CASE f # g
  <2>1. Attempting(f)' = 0 /\ Attempting(f) = 0
    BY <1>1, <1>3 DEF Attempting
  <2>2. Attempted(f)' = Attempted(f)
    BY <1>1, <1>3 DEF Attempted, PriorAttempt
  <2>3. Attempted(f) \in {0, 1}
    BY DEF Attempted
  <2> QED
    BY <1>2, <1>3, <2>1, <2>2, <2>3, NothingNew DEF AttemptInv
<1>4. CASE f = g
  <2>1. PICK b : b \notin Attempts(f) /\ Attempts(f)' = Attempts(f) \cup {b}
    BY <1>4 DEF Makes
  <2>2. /\ Cardinality(Attempts(f)) \in Nat /\ Cardinality(QueuedFor(f)) \in Nat
        /\ Attempted(f) \in {0, 1} /\ again[f] \in Nat /\ IsFiniteSet(Attempts(f))
    BY Counts DEF AttemptInv
  <2>3. Cardinality(Attempts(f)') = Cardinality(Attempts(f)) + 1
    <3> DEFINE old == Attempts(f)
    <3>1. IsFiniteSet(old) /\ b \notin old
      BY <2>1, <2>2
    <3> HIDE DEF old
    <3>2. Cardinality(old \cup {b}) = Cardinality(old) + 1
      BY <3>1, FS_AddElement
    <3> QED
      BY <2>1, <3>2 DEF old
  <2>4. Attempting(f) = 1 /\ Paid(f)
    BY <1>1, <1>4 DEF Attempting, AttemptInv
  <2>5. again'[f] \in Nat /\ again'[f] >= again[f]
    BY DEF TypeOK
  <2>6. CASE job'[Worker].made
    <3>1. Attempting(f)' = 0 /\ Attempted(f)' = 1
      BY <1>4, <2>6 DEF Attempting, Attempted
    <3> QED
      BY <1>2, <2>3, <2>2, <2>4, <2>5, <3>1 DEF Paid
  <2>7. CASE ~job'[Worker].made
    <3>1. again'[f] = again[f] + 1
      BY <1>4, <2>7
    <3>2. Attempting(f)' = 1
      BY <1>4, <2>7 DEF Attempting
    <3>3. Attempted(f)' = Attempted(f)
      BY <1>1, <2>7 DEF Attempted, PriorAttempt
    <3> QED
      BY <1>2, <2>3, <2>2, <2>4, <3>1, <3>2, <3>3 DEF Paid
  <2> QED
    BY <2>6, <2>7
<1> QED
  BY <1>3, <1>4

LEMMA ChainPays ==
  ASSUME TypeOK, TypeOK', RowsInv, AttemptInv, NEW p \in Process, ChainStep(p)
  PROVE  AttemptInv'
<1>0. Worker \in Process
  BY DEF Process
<1>1. CASE Commit(p)
  <2>1. /\ Becomes(p, Idle) /\ UNCHANGED <<branches, queue>> /\ acts' = acts \cup job[p].rows
        /\ \/ (\E a \in job[p].rows : a.action = "create") /\ UNCHANGED again
           \/ Unrecorded(p)
    BY <1>1 DEF Commit, Ends, github
  <2>2. \A f \in File : again'[f] >= again[f]
    BY <2>1, Unpaid, MoreOften
  <2>3. CASE p # Worker
    <3>1. Kept(Worker)
      BY <1>0, <2>1, <2>3, KeptOther
    <3>2. Finite' /\ \A f : Attempts(f)' = Attempts(f) /\ QueuedFor(f)' = QueuedFor(f)
      BY <2>1 DEF AttemptInv, Finite, Attempts, QueuedFor
    <3> QED
      BY <2>1, <2>2, <3>1, <3>2, OthersPay
  <2>4. CASE p = Worker
    <3>1. job'[Worker] = Idle
      BY <2>1, <2>4, BegunIdle
    <3>2. job[Worker].file \in File
      BY <1>0, <1>1, <2>4, InLater DEF Commit, Later
    <3>3. CASE \E a \in job[p].rows : a.action = "create"
      <4>1. PICK a \in job[Worker].rows : a.action = "create"
        BY <2>4, <3>3
      <4>2. a.file = job[Worker].file /\ a \in acts'
        BY <1>0, <2>1, <2>4, <4>1 DEF RowsInv
      <4> QED
        BY <2>1, <2>2, <3>1, <4>1, <4>2, WorkerStops
    <3>4. CASE Unrecorded(p)
      <4>1. job[Worker].made => again'[job[Worker].file] > again[job[Worker].file]
        BY <1>0, <2>4, <3>2, <3>4, Unpaid
      <4> QED
        BY <2>1, <2>2, <3>1, <4>1, WorkerStops
    <3> QED
      BY <2>1, <3>3, <3>4
  <2> QED
    BY <2>3, <2>4
<1>2. CASE ~Commit(p)
  <2>1. InChain(p) /\ Becomes(p, job'[p])
    BY <1>2, ChainMoves
  <2>2. UNCHANGED <<queue, acts>>
    BY <1>2 DEF ChainStep, Deduped, ShadowLogged, Downgraded, Authorize, Executed, Landed,
                Refused, Lost, Inserted
  <2>3. \A f : QueuedFor(f)' = QueuedFor(f)
    BY <2>2 DEF QueuedFor
  <2>4. \A f \in File : again'[f] >= again[f]
    <3>1. UNCHANGED again \/ again' = [again EXCEPT ![job[p].file] = @ + 1]
      BY <1>2 DEF ChainStep, Deduped, ShadowLogged, Downgraded, Authorize, Executed, Landed,
                  Refused, Lost, Inserted, ghosts
    <3> QED
      BY <3>1, MoreOften
  <2>5. \/ UNCHANGED branches
        \/ /\ Accepts(job[p]) /\ TakesEffect(p) /\ job[p].sent # "no"
           /\ \/ Executed(p)
              \/ Lost(p) /\ (job[p].pc = "create" =>
                               again' = [again EXCEPT ![job[p].file] = @ + 1])
    BY <1>2 DEF ChainStep, Deduped, ShadowLogged, Downgraded, Authorize, Executed, Landed,
                Refused, Lost, Inserted, github
  <2>6. Finite'
    <3>1. IsFiniteSet(DOMAIN branches)
      BY DEF AttemptInv, Finite
    <3>2. CASE Accepts(job[p]) /\ TakesEffect(p) /\ job[p].sent # "no" /\ File # {}
      BY <2>1, <2>2, <3>1, <3>2, AttemptsGrow DEF AttemptInv, Finite
    <3>3. job[p].file \in File
      BY <2>1, ChainLater, InLater
    <3> QED
      BY <2>2, <2>5, <3>1, <3>2, <3>3 DEF AttemptInv, Finite
  <2>7. job[p].kind = "generate" /\ job[p].file \in File /\ job[p].pc # "enqueue"
    BY <2>1, ChainLater, InLater
  <2>8. ASSUME \A f \in File : Attempts(f)' = Attempts(f)
        PROVE  AttemptInv'
    <3>1. CASE p # Worker
      <4>1. Kept(Worker)
        BY <1>0, <2>1, <3>1, KeptOther
      <4> QED
        BY <2>2, <2>3, <2>4, <2>6, <2>8, <4>1, OthersPay
    <3>2. CASE p = Worker
      <4>1. /\ job'[Worker].kind = job[Worker].kind /\ job'[Worker].file = job[Worker].file
            /\ job[Worker].made => job'[Worker].made
            /\ job'[Worker].pc # "enqueue"
        <5>1. Kept(p) \/ Decided(p) \/ Heard(p)
          BY <1>2, ChainHears
        <5>2. CASE Kept(p)
          BY <2>7, <3>2, <5>2 DEF Kept
        <5>3. CASE Decided(p)
          BY <2>7, <3>2, <5>3 DEF Decided, Moved
        <5>4. CASE Heard(p)
          BY <2>7, <3>2, <5>4 DEF Heard, Told
        <5> QED
          BY <5>1, <5>2, <5>3, <5>4
      <4> QED
        BY <2>2, <2>3, <2>4, <2>6, <2>8, <4>1, WorkerGoesOn
    <3> QED
      BY <3>1, <3>2
  <2>9. CASE UNCHANGED branches
    BY <2>8, <2>9 DEF Attempts
  <2>10. CASE /\ Accepts(job[p]) /\ TakesEffect(p) /\ job[p].sent # "no"
              /\ \/ Executed(p)
                 \/ Lost(p) /\ (job[p].pc = "create" =>
                                  again' = [again EXCEPT ![job[p].file] = @ + 1])
    <3>1. \A f \in File : Makes(p, f) \/ Attempts(f)' = Attempts(f)
      BY <2>1, <2>10, AttemptsGrow
    <3>2. CASE \E g \in File : Makes(p, g)
      <4>1. PICK g \in File : Makes(p, g)
        BY <3>2
      <4>2. p = Worker /\ job[Worker].file = g /\ job[Worker].pc = "create"
        BY <4>1 DEF Makes
      <4>3. \A f \in File : f # g => Attempts(f)' = Attempts(f)
        BY <3>1, <4>2 DEF Makes
      <4>4. /\ job'[Worker].kind = "generate" /\ job'[Worker].file = g
            /\ job'[Worker].pc # "enqueue"
            /\ Executed(p) => job'[Worker].made
        BY <1>2, <2>7, <2>10, <4>2, ChainMoves DEF Moved, Told
      <4>5. job'[Worker].made \/ again'[g] = again[g] + 1
        BY <2>10, <4>2, <4>4 DEF TypeOK
      <4> QED
        BY <2>2, <2>4, <2>6, <2>7, <4>1, <4>2, <4>3, <4>4, <4>5, MakingPays
    <3> QED
      BY <2>8, <3>1, <3>2
  <2> QED
    BY <2>5, <2>9, <2>10
<1> QED
  BY <1>1, <1>2

LEMMA CrashPays ==
  ASSUME TypeOK, TypeOK', RowsInv, AttemptInv, NEW p \in Process, Crash(p)
  PROVE  AttemptInv'
<1>0. Worker \in Process
  BY DEF Process
<1>1. UNCHANGED <<branches, acts>> /\ Becomes(p, Idle) /\ Unrecorded(p)
  BY DEF Crash, Ends, github
<1>2. \A f \in File : again'[f] >= again[f] /\ Attempts(f)' = Attempts(f)
  BY <1>1, Unpaid DEF Attempts
<1>3. job[Worker].made => job[Worker].file \in File
  <2>1. job[Worker].made => job[Worker].pc \in Later
    BY <1>0 DEF RowsInv, Later
  <2> QED
    BY <1>0, <2>1, InLater
<1>4. CASE UNCHANGED queue
  <2>1. CASE p # Worker
    <3>1. Kept(Worker)
      BY <1>0, <1>1, <2>1, KeptOther
    <3>2. Finite' /\ \A f : QueuedFor(f)' = QueuedFor(f)
      BY <1>1, <1>4 DEF AttemptInv, Finite, QueuedFor
    <3> QED
      BY <1>1, <1>2, <3>1, <3>2, OthersPay
  <2>2. CASE p = Worker
    <3>1. job'[Worker] = Idle
      BY <1>0, <1>1, <2>2, BegunIdle
    <3>2. job[Worker].made => again'[job[Worker].file] > again[job[Worker].file]
      BY <1>0, <1>1, <1>3, <2>2, Unpaid
    <3> QED
      BY <1>1, <1>2, <1>4, <3>1, <3>2, WorkerStops
  <2> QED
    BY <2>1, <2>2
<1>5. CASE ~UNCHANGED queue
  <2> DEFINE w == job[Worker]
             q == [kind |-> w.kind, file |-> w.file, sha |-> w.sha, tries |-> w.tries + 1]
  <2>1. p = Worker /\ queue' = queue \cup {q}
    BY <1>5 DEF Crash
  <2>2. q.kind = w.kind /\ q.file = w.file /\ q \notin queue
    BY <1>5, <2>1
  <2>3. job'[Worker] = Idle
    BY <1>0, <1>1, <2>1, BegunIdle
  <2> HIDE DEF q
  <2>4. Finite'
    BY <1>1, <2>1, FS_AddElement DEF AttemptInv, Finite
  <2> SUFFICES ASSUME NEW f \in File PROVE Paid(f)'
    BY <2>4 DEF AttemptInv
  <2>5. Idle.kind = "none" /\ Idle.pc = "idle" /\ ~Idle.made
    BY DEF Idle
  <2>6. Attempting(f)' = 0
    BY <2>3, <2>5 DEF Attempting
  <2>7. CASE w.kind = "generate" /\ w.file = f
    <3>1. QueuedFor(f)' = QueuedFor(f) \cup {q} /\ q \notin QueuedFor(f)
      BY <2>1, <2>2, <2>7 DEF QueuedFor
    <3>2. Cardinality(QueuedFor(f)') = Cardinality(QueuedFor(f)) + 1
      BY <3>1, Counts, FS_AddElement DEF AttemptInv
    <3>3. /\ Cardinality(Attempts(f)) \in Nat /\ Cardinality(QueuedFor(f)) \in Nat
          /\ Attempted(f) \in {0, 1} /\ again[f] \in Nat /\ Paid(f)
      BY Counts DEF AttemptInv
    <3>4. again'[f] \in Nat /\ again'[f] >= again[f]
      BY <1>2 DEF TypeOK
    <3>5. Attempted(f)' \in {0, 1} /\ Attempting(f) \in {0, 1}
      BY DEF Attempted, Attempting
    <3>6. CASE w.made
      <4>1. again'[f] > again[f]
        BY <1>0, <1>1, <2>1, <2>7, <3>6, Unpaid
      <4> QED
        BY <1>2, <2>3, <2>5, <2>6, <3>2, <3>3, <3>4, <3>5, <4>1 DEF Paid
    <3>7. CASE ~w.made
      <4>1. Attempting(f) = 1
        BY <2>7, <3>7 DEF Attempting
      <4>2. Attempted(f)' = Attempted(f)
        BY <1>1, <2>3, <2>5, <3>7 DEF Attempted, PriorAttempt
      <4> QED
        BY <1>2, <2>3, <2>5, <2>6, <3>2, <3>3, <3>4, <4>1, <4>2 DEF Paid
    <3> QED
      BY <3>6, <3>7
  <2>8. CASE ~(w.kind = "generate" /\ w.file = f)
    <3>1. QueuedFor(f)' = QueuedFor(f)
      BY <2>1, <2>2, <2>8 DEF QueuedFor
    <3>2. w.made => w.kind = "generate"
      <4>1. w.made => w.pc \in Later
        BY <1>0 DEF RowsInv, Later
      <4> QED
        BY <1>0, <4>1, InLater
    <3>3. Attempted(f)' = Attempted(f) /\ Attempted(f) \in {0, 1} /\ again[f] \in Nat
      BY <1>1, <2>3, <2>5, <2>8, <3>2 DEF Attempted, PriorAttempt, TypeOK
    <3>4. Attempting(f) = 0
      BY <2>8 DEF Attempting
    <3> QED
      BY <1>2, <2>3, <2>4, <2>5, <2>6, <3>1, <3>3, <3>4, NothingNew DEF AttemptInv
  <2> QED
    BY <2>7, <2>8
<1> QED
  BY <1>4, <1>5

LEMMA AttemptStep ==
  ASSUME TypeOK, TypeOK', RowsInv, AttemptInv, [Next]_vars
  PROVE  AttemptInv'
<1>1. ASSUME UNCHANGED <<branches, queue, acts, again>>, Kept(Worker)
      PROVE  AttemptInv'
  <2>1. Finite' /\ \A f : Attempts(f)' = Attempts(f) /\ QueuedFor(f)' = QueuedFor(f)
    BY <1>1 DEF AttemptInv, Finite, Attempts, QueuedFor
  <2>2. \A f \in File : again'[f] >= again[f]
    BY <1>1, MoreOften
  <2> QED
    BY <1>1, <2>1, <2>2, OthersPay
<1>2. CASE Quiet \/ UNCHANGED vars
  BY <1>1, <1>2 DEF Quiet, vars, github, ghosts, Kept
<1>3. ASSUME NEW p \in Process, Tick(p)
      PROVE  AttemptInv'
  <2>1. \E j : Becomes(p, j)
    BY <1>3 DEF Tick
  <2>2. Kept(Worker)
    BY <1>3, <2>1, TickKeeps, KeptOther DEF Process
  <2> QED
    BY <1>1, <1>3, <2>2 DEF Tick, github, ghosts
<1>4. ASSUME NEW p \in Process, NEW f \in File, CliGenerates(p, f)
      PROVE  AttemptInv'
  <2>1. Kept(Worker)
    BY <1>4, CliBegins, KeptOther DEF Process
  <2> QED
    BY <1>1, <1>4, <2>1 DEF CliGenerates, github, ghosts
<1> QED
  BY <1>2, <1>3, <1>4, PushPays, TakePays, ReindexPays, GenerationPays, ChainPays, CrashPays
  DEF Next

\* A file that is renamed, reverted or pushed again and again costs one attempt,
\* and one more for each time the code gives a reason: a second job enqueued
\* while the first was live, an answer lost, a crash, a row rolled back.
THEOREM AttemptedOnce == Spec => []OneAttemptPerFile
<1>1. Init => AttemptInv
  <2> SUFFICES ASSUME Init PROVE AttemptInv
    OBVIOUS
  <2>1. /\ queue = {} /\ branches = <<>> /\ DOMAIN branches = {} /\ acts = {}
        /\ job[Worker] = Idle /\ again = [f \in File |-> 0]
    BY DEF Init, Process
  <2>2. Finite
    BY <2>1, FS_EmptySet DEF Finite
  <2>3. Idle.kind = "none" /\ Idle.pc = "idle" /\ ~Idle.made
    BY DEF Idle
  <2> SUFFICES ASSUME NEW f \in File PROVE Paid(f)
    BY <2>2 DEF AttemptInv
  <2>4. Attempts(f) = {} /\ QueuedFor(f) = {}
    BY <2>1 DEF Attempts, QueuedFor
  <2>5. Attempting(f) = 0 /\ Attempted(f) = 0 /\ again[f] = 0
    BY <2>1, <2>3 DEF Attempting, Attempted, PriorAttempt
  <2>6. Cardinality(Attempts(f)) = 0 /\ Cardinality(QueuedFor(f)) = 0
    BY <2>4, FS_EmptySet
  <2> QED
    BY <2>5, <2>6 DEF Paid
<1>2. TypeOK /\ TypeOK' /\ RowsInv /\ AttemptInv /\ [Next]_vars => AttemptInv'
  BY AttemptStep
<1>3. TypeOK /\ AttemptInv => OneAttemptPerFile
  <2> SUFFICES ASSUME TypeOK, AttemptInv, NEW f \in File
               PROVE  Cardinality(Attempts(f)) <= 1 + again[f]
    BY DEF OneAttemptPerFile, Attempts
  <2>1. /\ Cardinality(Attempts(f)) \in Nat /\ Cardinality(QueuedFor(f)) \in Nat
        /\ Attempting(f) \in {0, 1} /\ again[f] \in Nat /\ Paid(f)
    BY Counts DEF AttemptInv
  <2> QED
    BY <2>1 DEF Paid
<1> QED
  BY <1>1, <1>2, <1>3, TypesHold, RowsHold, PTL DEF Spec
-----------------------------------------------------------------------------
(* Claims.                                                                 *)

\* The three ways a claim of `text' at `path' on branch b is backed, when the
\* branches are br and the committed rows ac.
Shown(br, b, path, text) ==
  b \in DOMAIN br /\ path \in DOMAIN br[b].files /\ br[b].files[path].text = text
Merged(path, text) == path \in File /\ \E s \in Sha : TreeOf[s][path] = text
HeldBack(ac, b, path, text) ==
  \E a \in ac : Signature(a) = <<"write", b, path, text>> /\ a.outcome = "DOWNGRADED"
Backed(br, ac, b, path, text) ==
  Shown(br, b, path, text) \/ HeldBack(ac, b, path, text) \/ Merged(path, text)

ClaimsBacked == \A r \in prs : Backed(branches, acts, r.head, r.path, r.text)

\* Outside shadow mode a row of update_file is as good as the file: a later chain
\* that is DEDUPED against it opens its pull request on the strength of it.
RowsBacked ==
  /\ \A a \in acts : a.action = "write" => Backed(branches, acts, a.branch, a.path, a.text)
  /\ \A p \in Process :
       /\ \A a \in job[p].rows :
            a.action = "write" /\ a.outcome # "DOWNGRADED" =>
              Backed(branches, acts, a.branch, a.path, a.text)
       /\ job[p].pc = "open" => Backed(branches, acts, BranchOf(job[p].file, job[p].sha),
                                       TestPath(job[p].file), job[p].text)
       /\ job[p].pc = "write" /\ job[p].outcome \in Recordable \ {"DOWNGRADED"} =>
            Backed(branches, acts, BranchOf(job[p].file, job[p].sha), TestPath(job[p].file),
                   job[p].text)

\* What get_contents found was on the default branch.
FoundMerged ==
  \A p \in Process :
    job[p].existing # None => Merged(TestPath(job[p].file), job[p].existing)

SentAloud == \A p \in Process : job[p].sent # "no" => mode # "shadow"

ClaimInv ==
  /\ ClaimsBacked /\ FoundMerged /\ SentAloud
  /\ mode # "shadow" => RowsBacked

LEMMA ModeStays ==
  ASSUME [Next]_vars
  PROVE  mode' = mode
BY DEF Next, vars, Push, Take, Reindex, Sync, Index, Trigger, Enqueue, ReindexEnds, Quiet,
   Generation, ReadRow, GenerateNothing, Generate, ReadRef, ReadContents, Fails, ChainStep,
   Deduped, ShadowLogged, Downgraded, Authorize, Executed, Landed, Refused, Lost, Inserted,
   Commit, Tick, Crash, CliGenerates, local

LEMMA ActsGrow ==
  ASSUME [Next]_vars
  PROVE  acts' = acts \/ \E p \in Process : acts' = acts \cup job[p].rows
BY DEF Next, vars, Push, Take, Reindex, Sync, Index, Trigger, Enqueue, ReindexEnds, Quiet,
   Generation, ReadRow, GenerateNothing, Generate, ReadRef, ReadContents, Fails, ChainStep,
   Deduped, ShadowLogged, Downgraded, Authorize, Executed, Landed, Refused, Lost, Inserted,
   Commit, Tick, Crash, CliGenerates

\* A request GitHub takes makes a branch, writes one file, over nothing or over
\* what get_contents found, or opens a pull request.
LEMMA FilesStay ==
  ASSUME TypeOK, NEW p \in Process, InChain(p), Accepts(job[p]), TakesEffect(p),
         NEW b \in DOMAIN branches, NEW q \in DOMAIN branches[b].files
  PROVE  /\ b \in DOMAIN branches' /\ q \in DOMAIN branches'[b].files
         /\ \/ branches'[b].files[q] = branches[b].files[q]
            \/ /\ q = TestPath(job[p].file) /\ job[p].existing = branches[b].files[q].text
               /\ b = BranchOf(job[p].file, job[p].sha)
<1> DEFINE j == job[p]
           c == BranchOf(j.file, j.sha)
           new == [base |-> j.sha, by |-> p, for |-> j.file, files |-> <<>>]
           path == TestPath(j.file)
           written == [text |-> j.text, at |-> j.at, by |-> p]
<1>1. j.pc \in {"create", "write", "open"}
  BY ChainLater
<1>2. CASE j.pc = "create"
  <2>1. branches' = [x \in DOMAIN branches \cup {c} |-> IF x = c THEN new ELSE branches[x]]
        /\ c \notin DOMAIN branches
    BY <1>2 DEF TakesEffect, Accepts
  <2> HIDE DEF new, c
  <2>2. b \in DOMAIN branches' /\ branches'[b] = branches[b]
    BY <2>1
  <2> QED
    BY <2>2
<1>3. CASE j.pc = "write"
  <2> DEFINE old == branches[c].files
             files == [x \in DOMAIN old \cup {path} |-> IF x = path THEN written ELSE old[x]]
  <2>1. c \in DOMAIN branches /\ branches' = [branches EXCEPT ![c].files = files]
        /\ BlobAt(c, path) = j.existing
    BY <1>3 DEF TakesEffect, Accepts
  <2>2. BranchShape(c) /\ branches = [x \in DOMAIN branches |-> branches[x]]
    BY <2>1 DEF TypeOK
  <2> HIDE DEF files
  <2>3. branches[c] \in [base : Sha, by : Process, for : File, files : {old}]
    BY <2>2 DEF BranchShape
  <2>4. /\ DOMAIN branches' = DOMAIN branches
        /\ \A x \in DOMAIN branches : x # c => branches'[x] = branches[x]
        /\ branches'[c] = [branches[c] EXCEPT !.files = files]
    BY <2>1, <2>2
  <2>5. branches'[c].files = files
    BY <2>3, <2>4
  <2>6. CASE b # c
    BY <2>4, <2>6
  <2>7. CASE b = c /\ q # path
    BY <2>4, <2>5, <2>7 DEF files
  <2>8. CASE b = c /\ q = path
    <3>1. branches[b].files[q].text = j.existing
      BY <2>1, <2>8 DEF BlobAt
    <3>2. q \in DOMAIN branches'[b].files
      BY <2>5, <2>8 DEF files
    <3> QED
      BY <2>4, <2>8, <3>1, <3>2
  <2> QED
    BY <2>6, <2>7, <2>8
<1>4. CASE j.pc = "open"
  BY <1>4 DEF TakesEffect
<1> QED
  BY <1>1, <1>2, <1>3, <1>4

\* A file that was written is there.
LEMMA WrittenShows ==
  ASSUME TypeOK, NEW p \in Process, InChain(p), job[p].pc = "write", Accepts(job[p]),
         TakesEffect(p)
  PROVE  Shown(branches', BranchOf(job[p].file, job[p].sha), TestPath(job[p].file), job[p].text)
<1> DEFINE j == job[p]
           c == BranchOf(j.file, j.sha)
           path == TestPath(j.file)
           written == [text |-> j.text, at |-> j.at, by |-> p]
           old == branches[c].files
           files == [x \in DOMAIN old \cup {path} |-> IF x = path THEN written ELSE old[x]]
<1>1. c \in DOMAIN branches /\ branches' = [branches EXCEPT ![c].files = files]
  BY DEF TakesEffect, Accepts
<1>2. BranchShape(c) /\ branches = [x \in DOMAIN branches |-> branches[x]]
  BY <1>1 DEF TypeOK
<1>3. path \in DOMAIN files /\ files[path].text = j.text
  OBVIOUS
<1> HIDE DEF files
<1>4. branches[c] \in [base : Sha, by : Process, for : File, files : {old}]
  BY <1>2 DEF BranchShape
<1>5. c \in DOMAIN branches' /\ branches'[c] = [branches[c] EXCEPT !.files = files]
  BY <1>1, <1>2
<1>6. branches'[c].files = files
  BY <1>4, <1>5
<1> QED
  BY <1>3, <1>5, <1>6 DEF Shown

\* What backs a claim is there to stay: a file is only overwritten if it is what
\* somebody had merged.
LEMMA BackingStays ==
  ASSUME TypeOK, FoundMerged, [Next]_vars, NEW b, NEW path, NEW text,
         Backed(branches, acts, b, path, text)
  PROVE  Backed(branches', acts', b, path, text)
<1>1. acts \subseteq acts'
  BY ActsGrow
<1>2. CASE HeldBack(acts, b, path, text) \/ Merged(path, text)
  BY <1>1, <1>2 DEF Backed, HeldBack
<1>3. CASE Shown(branches, b, path, text)
  <2>1. CASE UNCHANGED <<branches, prs>>
    BY <1>3, <2>1 DEF Backed
  <2>2. ASSUME NEW p \in Process, InChain(p), Accepts(job[p]), TakesEffect(p)
        PROVE  Backed(branches', acts', b, path, text)
    <3>1. /\ b \in DOMAIN branches' /\ path \in DOMAIN branches'[b].files
          /\ \/ branches'[b].files[path] = branches[b].files[path]
             \/ /\ path = TestPath(job[p].file)
                /\ job[p].existing = branches[b].files[path].text
      BY <1>3, <2>2, FilesStay DEF Shown
    <3>2. CASE branches'[b].files[path] = branches[b].files[path]
      BY <1>3, <3>1, <3>2 DEF Shown, Backed
    <3>3. CASE /\ path = TestPath(job[p].file)
               /\ job[p].existing = branches[b].files[path].text
      <4>1. branches[b].files[path].text \in Tests
        <5>1. BranchShape(b)
          BY <1>3 DEF Shown, TypeOK
        <5> QED
          BY <1>3, <5>1 DEF Shown, BranchShape
      <4>2. job[p].existing # None
        BY <3>3, <4>1, TestGenAssumption
      <4>3. job[p].existing = text
        BY <1>3, <3>3 DEF Shown
      <4>4. Merged(path, text)
        BY <3>3, <4>2, <4>3 DEF FoundMerged
      <4> QED
        BY <4>4 DEF Backed
    <3> QED
      BY <3>1, <3>2, <3>3
  <2> QED
    BY <2>1, <2>2, BranchesChange
<1> QED
  BY <1>2, <1>3 DEF Backed

LEMMA FoundStep ==
  ASSUME TypeOK, FoundMerged, [Next]_vars
  PROVE  FoundMerged'
<1> SUFFICES ASSUME NEW p \in Process, job'[p].existing # None
             PROVE  Merged(TestPath(job'[p].file), job'[p].existing)
  BY DEF FoundMerged, Merged
<1>1. CASE Kept(p)
  BY <1>1 DEF Kept, FoundMerged
<1>2. CASE Begun(p)
  BY <1>2 DEF Begun
<1>3. CASE Prepared(p)
  <2>1. CASE job'[p].existing = job[p].existing
    BY <1>3, <2>1 DEF Prepared, FoundMerged
  <2>2. CASE job'[p].existing = ExistingTest(job[p].file)
    <3>1. job'[p].file = job[p].file
      BY <1>3 DEF Prepared
    <3>2. /\ TestPath(job[p].file) \in File /\ tip \in Sha
          /\ job'[p].existing = TreeOf[tip][TestPath(job[p].file)]
      BY <2>2 DEF ExistingTest, TypeOK
    <3> QED
      BY <3>1, <3>2 DEF Merged
  <2> QED
    BY <1>3, <2>1, <2>2 DEF Prepared
<1>4. CASE Decided(p) \/ Heard(p)
  BY <1>4 DEF Decided, Heard, Moved, Told, FoundMerged
<1>5. CASE p = Worker /\ PlannedOn
  BY <1>5 DEF PlannedOn, Planned, FoundMerged
<1> QED
  BY <1>1, <1>2, <1>3, <1>4, <1>5, JobSteps

LEMMA SentStep ==
  ASSUME TypeOK, IInv', SentAloud, [Next]_vars
  PROVE  SentAloud'
<1> SUFFICES ASSUME NEW p \in Process, job'[p].sent # "no"
             PROVE  mode # "shadow"
  BY ModeStays DEF SentAloud
<1>0. job'[p].pc \in {"create", "write", "open"}
  BY DEF IInv, JobsOK, JobOK
<1>1. CASE Kept(p)
  BY <1>1 DEF Kept, SentAloud
<1>2. CASE Begun(p)
  BY <1>0, <1>2 DEF Begun
<1>3. CASE Prepared(p)
  BY <1>3 DEF Prepared, SentAloud
<1>4. CASE Decided(p) \/ Heard(p)
  BY <1>4 DEF Decided, Heard, Moved, Told
<1>5. CASE p = Worker /\ PlannedOn
  BY <1>0, <1>5 DEF PlannedOn, Planned, Planning
<1> QED
  BY <1>1, <1>2, <1>3, <1>4, <1>5, JobSteps

\* A pull request is opened by a job that knows the file backed.
LEMMA ClaimsStep ==
  ASSUME TypeOK, ClaimInv, [Next]_vars
  PROVE  ClaimsBacked'
<1> SUFFICES ASSUME NEW r \in prs'
             PROVE  Backed(branches', acts', r.head, r.path, r.text)
  BY DEF ClaimsBacked
<1>1. CASE r \in prs
  BY <1>1, BackingStays DEF ClaimInv, ClaimsBacked
<1>2. CASE r \notin prs
  <2>1. PICK p \in Process : TakesEffect(p) /\ (Executed(p) \/ Lost(p))
    BY <1>2, BranchesChange
  <2>2. /\ job[p].pc = "open"
        /\ r = [head |-> BranchOf(job[p].file, job[p].sha), path |-> TestPath(job[p].file),
                text |-> job[p].text]
    BY <1>2, <2>1 DEF TakesEffect
  <2>3. job[p].sent # "no"
    BY <2>1 DEF Executed, Lost
  <2>4. RowsBacked
    BY <2>3 DEF ClaimInv, SentAloud
  <2>5. Backed(branches, acts, r.head, r.path, r.text)
    BY <2>2, <2>4 DEF RowsBacked
  <2> QED
    BY <2>5, BackingStays DEF ClaimInv
<1> QED
  BY <1>1, <1>2

LEMMA RowsBackedStep ==
  ASSUME TypeOK, RowsInv, FoundMerged, RowsBacked, mode # "shadow", [Next]_vars
  PROVE  RowsBacked'
<1>1. ASSUME NEW a \in acts', a.action = "write"
      PROVE  Backed(branches', acts', a.branch, a.path, a.text)
  <2>1. CASE a \in acts
    BY <1>1, <2>1, BackingStays DEF RowsBacked
  <2>2. CASE a \notin acts
    <3>1. PICK p \in Process : a \in job[p].rows
      BY <2>2, ActsGrow
    <3>2. CASE a.outcome # "DOWNGRADED"
      BY <1>1, <3>1, <3>2, BackingStays DEF RowsBacked
    <3>3. CASE a.outcome = "DOWNGRADED"
      <4>1. Signature(a) = <<"write", a.branch, a.path, a.text>>
        BY <1>1 DEF Signature
      <4> QED
        BY <3>3, <4>1 DEF Backed, HeldBack
    <3> QED
      BY <3>2, <3>3
  <2> QED
    BY <2>1, <2>2
<1> DEFINE c(p) == BranchOf(job[p].file, job[p].sha)
           path(p) == TestPath(job[p].file)
<1>2. ASSUME NEW p \in Process
      PROVE  \A a \in job[p].rows : a.action = "write" /\ a.outcome # "DOWNGRADED" =>
               Backed(branches', acts', a.branch, a.path, a.text)
  BY BackingStays DEF RowsBacked
<1>3. ASSUME NEW p \in Process, NEW outcome
      PROVE  LET row == RowOf(job[p], outcome)
             IN /\ row.action = job[p].pc /\ row.outcome = outcome /\ row.branch = c(p)
                /\ job[p].pc = "write" => row.path = path(p) /\ row.text = job[p].text
                /\ Signature(row) = <<row.action, row.branch, row.path, row.text>>
                /\ Signature(row) = Signature(RowOf(job[p], None))
  BY DEF RowOf, Signature
<1>4. ASSUME NEW p \in Process, job[p].pc = "write",
             NEW a \in acts \cup job[p].rows,
             Signature(a) = Signature(RowOf(job[p], None))
      PROVE  Backed(branches', acts', c(p), path(p), job[p].text)
  <2>1. a.action = "write" /\ a.branch = c(p) /\ a.path = path(p) /\ a.text = job[p].text
    BY <1>3, <1>4 DEF Signature
  <2>2. a \in acts
    BY <1>4, <2>1 DEF RowsInv
  <2> QED
    BY <2>1, <2>2, BackingStays DEF RowsBacked
<1>5. ASSUME NEW p \in Process, Decided(p)
      PROVE  /\ \A a \in job'[p].rows :
                  a.action = "write" /\ a.outcome # "DOWNGRADED" =>
                    Backed(branches', acts', a.branch, a.path, a.text)
             /\ job'[p].pc = "open" =>
                  Backed(branches', acts', c(p), path(p), job[p].text)
             /\ job'[p].outcome = "none"
             /\ job'[p].file = job[p].file /\ job'[p].sha = job[p].sha
             /\ job'[p].text = job[p].text
  <2>1. CASE \E outcome : /\ Moved(p, outcome, job[p].rows)
                          /\ outcome \in Progress => Signed(p)
    <3>1. PICK outcome : /\ Moved(p, outcome, job[p].rows)
                         /\ outcome \in Progress => Signed(p)
      BY <2>1
    <3>2. /\ job'[p].rows = job[p].rows /\ job'[p].outcome = "none"
          /\ job'[p].file = job[p].file /\ job'[p].sha = job[p].sha
          /\ job'[p].text = job[p].text
          /\ job'[p].pc = "open" => job[p].pc = "write" /\ Signed(p)
      BY <3>1 DEF Moved
    <3>3. job'[p].pc = "open" => Backed(branches', acts', c(p), path(p), job[p].text)
      BY <1>4, <3>2 DEF Signed
    <3> QED
      BY <1>2, <3>2, <3>3
  <2>2. CASE /\ job[p].outcome \in Recordable
             /\ Moved(p, IF Taken(p) THEN "DEDUPED" ELSE job[p].outcome, RowsAfter(p))
    <3> DEFINE w == job[p]
               row == RowOf(w, w.outcome)
    <3>1. /\ job'[p].rows = RowsAfter(p) /\ job'[p].outcome = "none"
          /\ job'[p].file = w.file /\ job'[p].sha = w.sha /\ job'[p].text = w.text
          /\ job'[p].pc = "open" => w.pc = "write" /\ (Taken(p) \/ w.outcome \in Progress)
      BY <2>2 DEF Moved
    <3>2. w.pc = "write" /\ w.outcome # "DOWNGRADED" =>
            Backed(branches', acts', c(p), path(p), w.text)
      BY <2>2, BackingStays DEF RowsBacked
    <3>3. "DOWNGRADED" \notin Progress
      BY DEF Progress
    <3>4. w.pc = "write" /\ Taken(p) => Backed(branches', acts', c(p), path(p), w.text)
      BY <1>3, <1>4 DEF Taken
    <3>5. job'[p].rows \subseteq w.rows \cup {row}
      BY <3>1 DEF RowsAfter
    <3>6. /\ row.action = w.pc /\ row.outcome = w.outcome /\ row.branch = c(p)
          /\ w.pc = "write" => row.path = path(p) /\ row.text = w.text
      BY <1>3
    <3> HIDE DEF row, RowsBacked
    <3> QED
      BY <1>2, <3>1, <3>2, <3>3, <3>4, <3>5, <3>6
  <2> QED
    BY <1>5, <2>1, <2>2 DEF Decided
<1>6. ASSUME NEW p \in Process, Heard(p)
      PROVE  /\ job'[p].rows = job[p].rows /\ job'[p].pc = job[p].pc
             /\ job'[p].file = job[p].file /\ job'[p].sha = job[p].sha
             /\ job'[p].text = job[p].text
             /\ job[p].pc = "write" /\ job'[p].outcome \in Recordable \ {"DOWNGRADED"} =>
                  Backed(branches', acts', c(p), path(p), job[p].text)
  <2>1. PICK outcome \in Recordable :
          /\ Told(p, outcome)
          /\ outcome = "SHADOW_LOGGED" => mode = "shadow"
          /\ outcome = "EXECUTED" => Accepts(job[p]) /\ TakesEffect(p)
    BY <1>6 DEF Heard
  <2>2. /\ job'[p].rows = job[p].rows /\ job'[p].pc = job[p].pc
        /\ job'[p].file = job[p].file /\ job'[p].sha = job[p].sha
        /\ job'[p].text = job[p].text /\ job'[p].outcome = outcome
    BY <2>1 DEF Told
  <2>3. job[p].pc = "write" /\ outcome = "EXECUTED" =>
          Backed(branches', acts', c(p), path(p), job[p].text)
    BY <1>6, <2>1, WrittenShows DEF Backed, Heard
  <2>4. outcome \in {"EXECUTED", "DOWNGRADED"}
    BY <2>1 DEF Recordable
  <2> QED
    BY <2>2, <2>3, <2>4
<1>7. ASSUME NEW p \in Process
      PROVE  /\ \A a \in job'[p].rows :
                  a.action = "write" /\ a.outcome # "DOWNGRADED" =>
                    Backed(branches', acts', a.branch, a.path, a.text)
             /\ job'[p].pc = "open" =>
                  Backed(branches', acts', BranchOf(job'[p].file, job'[p].sha),
                         TestPath(job'[p].file), job'[p].text)
             /\ job'[p].pc = "write" /\ job'[p].outcome \in Recordable \ {"DOWNGRADED"} =>
                  Backed(branches', acts', BranchOf(job'[p].file, job'[p].sha),
                         TestPath(job'[p].file), job'[p].text)
  <2>1. CASE Kept(p)
    BY <2>1, BackingStays DEF Kept, RowsBacked
  <2>2. CASE Begun(p)
    BY <2>2 DEF Begun
  <2>3. CASE Prepared(p)
    BY <2>3, BackingStays DEF Prepared, RowsBacked
  <2>4. CASE p = Worker /\ PlannedOn
    BY <2>4, BackingStays DEF PlannedOn, Planned, Planning, RowsBacked
  <2>5. CASE Decided(p)
    BY <1>5, <2>5 DEF Recordable
  <2>6. CASE Heard(p)
    BY <1>2, <1>6, <2>6, BackingStays DEF RowsBacked
  <2> QED
    BY <2>1, <2>2, <2>3, <2>4, <2>5, <2>6, JobSteps
<1> QED
  BY <1>1, <1>7 DEF RowsBacked

\* Whatever a pull request of the test generator claims to have written is on
\* its branch; or the update_file it was DEDUPED against had become a fallback
\* issue; or it was merged before something else was written over it.  Deduping
\* after lost answers, crashes and rows that were rolled back does no other harm.
THEOREM ClaimsAreTrue == Spec => []PrsShowWhatTheyClaim
<1>1. Init => ClaimInv
  <2> SUFFICES ASSUME Init PROVE ClaimInv
    OBVIOUS
  <2>1. prs = {} /\ acts = {} /\ \A p \in Process : job[p] = Idle
    BY DEF Init
  <2>2. Idle.existing = None /\ Idle.sent = "no" /\ Idle.rows = {} /\ Idle.pc = "idle"
    BY DEF Idle
  <2> QED
    BY <2>1, <2>2 DEF ClaimInv, ClaimsBacked, FoundMerged, SentAloud, RowsBacked
<1>2. TypeOK /\ IInv' /\ RowsInv /\ ClaimInv /\ [Next]_vars => ClaimInv'
  BY ModeStays, FoundStep, SentStep, ClaimsStep, RowsBackedStep DEF ClaimInv
<1>3. ClaimInv => PrsShowWhatTheyClaim
  BY DEF ClaimInv, ClaimsBacked, Backed, Shown, HeldBack, Merged, PrsShowWhatTheyClaim
<1> QED
  BY <1>1, <1>2, <1>3, TypesHold, RowsHold, Invariant, PTL DEF Spec
=============================================================================
