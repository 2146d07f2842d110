---------------------------- MODULE TestGenProofs ---------------------------
(***************************************************************************)
(* Theorems about TestGen, for any number of CLI processes, any history of *)
(* commits, any answers of the LLM and any lifetime of tokens.             *)
(***************************************************************************)
EXTENDS TestGen, SelectionProofs, TLAPS

Fields == {"kind", "file", "sha", "pc", "text", "at", "conf", "sent", "made", "rows",
           "outcome"}

\* A process and the age of its client's token: a request that is under way
\* was fresh when it left, and a confidence that reaches the threshold comes from
\* a verified text.
JobOK(j, age) ==
  /\ Fields \subseteq DOMAIN j
  /\ j.conf \in 0..100
  /\ j.sent \in {"no", "sent", "late"}
  /\ j.sent = "sent" => age \in Nat /\ age + Skew < Life
  /\ j.sent = "late" => age \in Nat /\ age < Life
  /\ j.sent # "no" => j.pc \in {"create", "write", "open"}
  /\ j.conf >= Threshold => <<j.text, j.at>> \in Collects

JobsOK ==
  /\ job = [p \in Process |-> job[p]]
  /\ token \in [Process -> 0..Life \cup {None}]
  /\ \A p \in Process : JobOK(job[p], token[p])

\* What is on a gita/tests branch passed the gates.
BranchesOK ==
  \A b \in DOMAIN branches :
    /\ "files" \in DOMAIN branches[b]
    /\ \A q \in DOMAIN branches[b].files :
         <<branches[b].files[q].text, branches[b].files[q].at>> \in Collects

IInv == JobsOK /\ BranchesOK

-----------------------------------------------------------------------------
(* The operators.                                                          *)

LEMMA MinOfTwo ==
  ASSUME NEW a \in Nat, NEW b \in Nat
  PROVE  Min({a, b}) \in {a, b} /\ Min({a, b}) <= a /\ Min({a, b}) <= b
<1>1. \E x \in {a, b} : \A y \in {a, b} : x <= y
  <2>1. CASE a <= b
    BY <2>1
  <2>2. CASE b <= a
    BY <2>2
  <2> QED
    BY <2>1, <2>2
<1> QED
  BY <1>1 DEF Min

\* The ceiling keeps an unverified text below the threshold.
LEMMA BlendedBelow ==
  ASSUME NEW v \in BOOLEAN, NEW claim \in 0..100
  PROVE  Blended(v, claim) \in 0..100 /\ (~v => Blended(v, claim) < Threshold)
<1>1. Threshold \in 41..100
  BY TestGenAssumption
<1>2. CASE v
  BY <1>2, MinOfTwo DEF Blended
<1>3. CASE ~v
  BY <1>1, <1>3, MinOfTwo DEF Blended
<1> QED
  BY <1>2, <1>3

LEMMA IdleOK ==
  ASSUME NEW age
  PROVE  JobOK(Idle, age)
<1>1. Threshold \in 41..100
  BY TestGenAssumption
<1> QED
  BY <1>1 DEF JobOK, Idle, Fields

\* The chain never starts or keeps a request when it goes on.
LEMMA AfterOK ==
  ASSUME NEW j, NEW age, NEW outcome, JobOK(j, age)
  PROVE  /\ JobOK(After(j, outcome), age)
         /\ DOMAIN After(j, outcome) = DOMAIN j
         /\ After(j, outcome).sent = "no"
BY DEF JobOK, After, Fields

LEMMA AnsweredOK ==
  ASSUME NEW j, NEW age, NEW outcome, JobOK(j, age)
  PROVE  JobOK(Answered(j, outcome), age)
<1> DEFINE made == j.made \/ (outcome = "EXECUTED" /\ j.pc = "create")
<1>1. Answered(j, outcome) =
        [j EXCEPT !.sent = "no", !.outcome = outcome, !.made = made]
  BY DEF JobOK, Answered, Fields
<1> HIDE DEF made
<1> QED
  BY <1>1 DEF JobOK, Fields

-----------------------------------------------------------------------------
(* A step of one process.                                                  *)

\* A step that leaves the branches and tokens alone and gives p a good record.
LEMMA JobStep ==
  ASSUME IInv, NEW p \in Process, NEW j, Becomes(p, j), JobOK(j, token[p]),
         UNCHANGED <<branches, token>>
  PROVE  IInv'
<1>1. BranchesOK'
  BY DEF IInv, BranchesOK
<1>2. JobsOK'
  BY DEF IInv, JobsOK, Becomes
<1> QED
  BY <1>1, <1>2 DEF IInv

LEMMA EndStep ==
  ASSUME IInv, NEW p \in Process, Becomes(p, Idle),
         token' = [token EXCEPT ![p] = None], UNCHANGED branches
  PROVE  IInv'
<1>1. BranchesOK'
  BY DEF IInv, BranchesOK
<1>2. JobsOK'
  BY IdleOK DEF IInv, JobsOK, Becomes
<1> QED
  BY <1>1, <1>2 DEF IInv

LEMMA StillStep ==
  ASSUME IInv, UNCHANGED <<branches, job, token>>
  PROVE  IInv'
BY DEF IInv, JobsOK, BranchesOK, JobOK

\* GitHub takes a request: only a file whose text passed the gates is written.
LEMMA EffectStep ==
  ASSUME IInv, NEW p \in Process, job[p].sent # "no", Entitled(p),
         Accepts(job[p]), TakesEffect(p)
  PROVE  BranchesOK'
<1> DEFINE j == job[p]
           b == BranchOf(j.file, j.sha)
<1>1. JobOK(j, token[p]) /\ BranchesOK
  BY DEF IInv, JobsOK
<1>2. j.pc \in {"create", "write", "open"} /\ <<j.text, j.at>> \in Collects
  BY <1>1 DEF JobOK, Entitled
<1>3. CASE j.pc = "create"
  <2>1. branches' = [x \in DOMAIN branches \cup {b} |->
                       IF x = b THEN [base |-> j.sha, by |-> p, for |-> j.file,
                                      files |-> <<>>]
                       ELSE branches[x]]
    BY <1>3 DEF TakesEffect
  <2> QED
    BY <1>1, <2>1 DEF BranchesOK
<1>4. CASE j.pc = "write"
  <2> DEFINE written == [text |-> j.text, at |-> j.at, by |-> p]
             path == TestPath(j.file)
             new == [q \in DOMAIN branches[b].files \cup {path} |->
                       IF q = path THEN written ELSE branches[b].files[q]]
  <2>1. branches' = [branches EXCEPT ![b].files = new]
    BY <1>4 DEF TakesEffect
  <2>2. b \in DOMAIN branches /\ "files" \in DOMAIN branches[b]
    BY <1>1, <1>4 DEF Accepts, BranchesOK
  <2>3. /\ DOMAIN branches' = DOMAIN branches
        /\ branches'[b].files = new /\ "files" \in DOMAIN branches'[b]
        /\ \A x \in DOMAIN branches \ {b} : branches'[x] = branches[x]
    BY <2>1, <2>2
  <2>4. \A q \in DOMAIN new : <<new[q].text, new[q].at>> \in Collects
    BY <1>1, <1>2, <2>2 DEF BranchesOK
  <2> HIDE DEF new, b
  <2> QED
    BY <1>1, <2>3, <2>4 DEF BranchesOK
<1>5. CASE j.pc = "open"
  BY <1>1, <1>5 DEF TakesEffect, BranchesOK
<1> QED
  BY <1>2, <1>3, <1>4, <1>5

-----------------------------------------------------------------------------
(* Every action.                                                           *)

LEMMA InitOK == Init => IInv
<1> SUFFICES ASSUME Init PROVE IInv
  OBVIOUS
<1>1. job = [p \in Process |-> Idle] /\ token = [p \in Process |-> None] /\ branches = <<>>
  BY DEF Init
<1>2. BranchesOK
  BY <1>1 DEF BranchesOK
<1>3. JobsOK
  BY <1>1, IdleOK DEF JobsOK
<1> QED
  BY <1>2, <1>3 DEF IInv

LEMMA EndsOK ==
  ASSUME IInv, NEW p \in Process, Ends(p), UNCHANGED branches
  PROVE  IInv'
BY EndStep DEF Ends

LEMMA TakeOK ==
  ASSUME IInv, Take
  PROVE  IInv'
<1>1. Worker \in Process
  BY DEF Process
<1>2. PICK q \in queue :
        Becomes(Worker, [Idle EXCEPT !.kind = q.kind, !.file = q.file, !.sha = q.sha,
            !.tries = q.tries, !.pc = IF q.kind = "reindex" THEN "sync" ELSE "generate"])
  BY DEF Take
<1> DEFINE j == [Idle EXCEPT !.kind = q.kind, !.file = q.file, !.sha = q.sha,
            !.tries = q.tries, !.pc = IF q.kind = "reindex" THEN "sync" ELSE "generate"]
<1>3. JobOK(j, token[Worker])
  BY IdleOK DEF JobOK, Idle, Fields
<1>4. UNCHANGED <<branches, token>>
  BY DEF Take, github
<1> QED
  BY <1>1, <1>2, <1>3, <1>4, JobStep

LEMMA CrashOK ==
  ASSUME IInv, NEW p \in Process, Crash(p)
  PROVE  IInv'
<1>1. UNCHANGED branches
  BY DEF Crash, github
<1>2. CASE Becomes(p, Idle) /\ token' = [token EXCEPT ![p] = None]
  BY <1>1, <1>2, EndStep
<1>3. CASE Ends(p)
  BY <1>1, <1>3, EndsOK
<1> QED
  BY <1>2, <1>3 DEF Crash

LEMMA ReindexOK ==
  ASSUME IInv, Reindex
  PROVE  IInv'
<1>1. Worker \in Process
  BY DEF Process
<1>2. JobOK(job[Worker], token[Worker])
  BY <1>1 DEF IInv, JobsOK
<1> DEFINE still == UNCHANGED <<branches, token>>
<1>3. CASE Sync
  <2> DEFINE j == [job[Worker] EXCEPT !.pc = "index"]
  <2>1. Becomes(Worker, j) /\ job[Worker].pc = "sync" /\ still
    BY <1>3 DEF Sync, github
  <2>2. JobOK(j, token[Worker])
    BY <1>2, <2>1 DEF JobOK, Fields
  <2> QED
    BY <1>1, <2>1, <2>2, JobStep
<1>4. CASE Index
  <2>1. job[Worker].pc = "index" /\ still
    BY <1>4 DEF Index, github
  <2>2. \/ Becomes(Worker, [job[Worker] EXCEPT !.pc = "trigger",
                     !.added = IndexableAt(clone) \ Disk(repoHead)])
        \/ Becomes(Worker, [job[Worker] EXCEPT !.pc = "trigger"])
    BY <1>4 DEF Index
  <2>3. /\ JobOK([job[Worker] EXCEPT !.pc = "trigger",
                     !.added = IndexableAt(clone) \ Disk(repoHead)], token[Worker])
        /\ JobOK([job[Worker] EXCEPT !.pc = "trigger"], token[Worker])
    BY <1>2, <2>1 DEF JobOK, Fields
  <2> QED
    BY <1>1, <2>1, <2>2, <2>3, JobStep
<1>5. CASE Trigger
  <2> DEFINE candidates ==
               {f \in job[Worker].added : ~HasExistingTests(f) /\ IsFeasible(f)}
             chosen == IF switches = Switches THEN Selected(candidates) ELSE <<>>
             j == [job[Worker] EXCEPT !.pc = "enqueue", !.added = {}, !.chosen = chosen]
  <2>1. Becomes(Worker, j) /\ job[Worker].pc = "trigger" /\ still
    BY <1>5 DEF Trigger, github
  <2> HIDE DEF chosen
  <2>2. JobOK(j, token[Worker])
    BY <1>2, <2>1 DEF JobOK, Fields
  <2> QED
    BY <1>1, <2>1, <2>2, JobStep
<1>6. CASE Enqueue
  <2> DEFINE j == [job[Worker] EXCEPT !.chosen = Tail(@)]
  <2>1. Becomes(Worker, j) /\ job[Worker].pc = "enqueue" /\ still
    BY <1>6 DEF Enqueue, github
  <2>2. JobOK(j, token[Worker])
    BY <1>2, <2>1 DEF JobOK, Fields
  <2> QED
    BY <1>1, <2>1, <2>2, JobStep
<1>7. CASE ReindexEnds
  BY <1>1, <1>7, EndsOK DEF ReindexEnds, github
<1> QED
  BY <1>3, <1>4, <1>5, <1>6, <1>7 DEF Reindex

LEMMA CliOK ==
  ASSUME IInv, NEW p \in Process, NEW f \in File, CliGenerates(p, f)
  PROVE  IInv'
<1> DEFINE j == [Idle EXCEPT !.kind = "generate", !.file = f, !.pc = "generate"]
<1>1. Becomes(p, j) /\ UNCHANGED <<branches, token>>
  BY DEF CliGenerates, github
<1>2. JobOK(j, token[p])
  BY IdleOK DEF JobOK, Idle, Fields
<1> QED
  BY <1>1, <1>2, JobStep

\* The confidence and the text come from one answer and one run of the gates.
LEMMA GenerationOK ==
  ASSUME IInv, NEW p \in Process, Generation(p)
  PROVE  IInv'
<1>1. JobOK(job[p], token[p])
  BY DEF IInv, JobsOK
<1>2. CASE ReadRow(p)
  <2> DEFINE j == [job[p] EXCEPT !.pc = "ask"]
  <2>1. Becomes(p, j) /\ job[p].pc = "generate" /\ UNCHANGED <<branches, token>>
    BY <1>2 DEF ReadRow, github
  <2>2. JobOK(j, token[p])
    BY <1>1, <2>1 DEF JobOK, Fields
  <2> QED
    BY <2>1, <2>2, JobStep
<1>3. CASE GenerateNothing(p) \/ Fails(p)
  BY <1>3, EndsOK DEF GenerateNothing, Fails, github
<1>4. CASE Generate(p)
  <2> DEFINE next == IF job[p].sha = None THEN "ref" ELSE "contents"
  <2>1. PICK t \in Tests, claim \in Claims :
          Becomes(p, [job[p] EXCEPT !.text = t, !.at = clone,
                        !.conf = Blended(Verifies(t), claim), !.pc = next])
    BY <1>4 DEF Generate
  <2> DEFINE c == Blended(Verifies(t), claim)
             j == [job[p] EXCEPT !.text = t, !.at = clone, !.conf = c, !.pc = next]
  <2>2. claim \in 0..100 /\ Verifies(t) \in BOOLEAN
    BY TestGenAssumption DEF Verifies
  <2>3. c \in 0..100 /\ (~Verifies(t) => c < Threshold)
    BY <2>2, BlendedBelow
  <2>4. job[p].sent = "no"
    BY <1>1, <1>4 DEF JobOK, Generate
  <2>5. Threshold \in 41..100
    BY TestGenAssumption
  <2>6. Becomes(p, j) /\ UNCHANGED <<branches, token>>
    BY <1>4, <2>1 DEF Generate, github
  <2> HIDE DEF c, next
  <2>7. JobOK(j, token[p])
    BY <1>1, <2>3, <2>4, <2>5 DEF JobOK, Fields, Verifies
  <2> QED
    BY <2>6, <2>7, JobStep
<1>5. CASE ReadRef(p)
  <2> DEFINE j == [job[p] EXCEPT !.sha = tip, !.pc = "contents"]
  <2>1. Becomes(p, j) /\ job[p].pc = "ref" /\ UNCHANGED <<branches, token>>
    BY <1>5 DEF ReadRef, github
  <2>2. JobOK(j, token[p])
    BY <1>1, <2>1 DEF JobOK, Fields
  <2> QED
    BY <2>1, <2>2, JobStep
<1>6. CASE ReadContents(p)
  <2> DEFINE j == [job[p] EXCEPT !.pc = "create",
                     !.existing = ExistingTest(job[p].file)]
  <2>1. Becomes(p, j) /\ job[p].pc = "contents" /\ UNCHANGED <<branches, token>>
    BY <1>6 DEF ReadContents, github
  <2>2. JobOK(j, token[p])
    BY <1>1, <2>1 DEF JobOK, Fields
  <2> QED
    BY <2>1, <2>2, JobStep
<1> QED
  BY <1>2, <1>3, <1>4, <1>5, <1>6 DEF Generation

\* A step of the chain that only moves on.
LEMMA MovesOn ==
  ASSUME IInv, NEW p \in Process, NEW outcome, Becomes(p, After(job[p], outcome)),
         UNCHANGED <<branches, token>>
  PROVE  IInv'
<1>1. JobOK(After(job[p], outcome), token[p])
  BY AfterOK DEF IInv, JobsOK
<1> QED
  BY <1>1, JobStep

\* The answer of GitHub, or of a mode that does not ask it.
LEMMA IsAnswered ==
  ASSUME IInv, NEW p \in Process, NEW outcome, Becomes(p, Answered(job[p], outcome)),
         UNCHANGED token
  PROVE  JobsOK'
<1>1. JobOK(Answered(job[p], outcome), token[p])
  BY AnsweredOK DEF IInv, JobsOK
<1> QED
  BY <1>1 DEF IInv, JobsOK, Becomes

\* A request leaves with a token that will outlive it.
LEMMA AuthorizeOK ==
  ASSUME IInv, NEW p \in Process, Authorize(p)
  PROVE  IInv'
<1> DEFINE j == [job[p] EXCEPT !.sent = "sent"]
           age == IF token[p] # None THEN IF IsFresh(token[p]) THEN token[p] ELSE 0 ELSE 0
<1>1. Becomes(p, j) /\ token' = [token EXCEPT ![p] = age] /\ UNCHANGED branches
  BY DEF Authorize, github
<1>2. JobOK(job[p], token[p]) /\ token \in [Process -> 0..Life \cup {None}]
  BY DEF IInv, JobsOK
<1>3. Life \in Nat /\ Skew \in 1..(Life - 1)
  BY TestGenAssumption
<1>4. age \in 0..Life /\ age + Skew < Life
  BY <1>2, <1>3 DEF IsFresh
<1>5. job[p].pc \in {"create", "write", "open"}
  BY DEF Authorize, Undecided, InChain, Chain, ToSet
<1> HIDE DEF age
<1>6. JobOK(j, age)
  BY <1>2, <1>4, <1>5 DEF JobOK, Fields
<1>7. BranchesOK'
  BY <1>1 DEF IInv, BranchesOK
<1>8. JobsOK'
  BY <1>1, <1>4, <1>6 DEF IInv, JobsOK, Becomes
<1> QED
  BY <1>7, <1>8 DEF IInv

\* A tick is shorter than the skew and longer than a request.
LEMMA TickOK ==
  ASSUME IInv, NEW p \in Process, Tick(p)
  PROVE  IInv'
<1> DEFINE sent == IF job[p].sent = "sent" THEN "late" ELSE job[p].sent
           j == [job[p] EXCEPT !.sent = sent]
           age == token[p] + 1
<1>1. JobOK(job[p], token[p]) /\ token \in [Process -> 0..Life \cup {None}]
  BY DEF IInv, JobsOK
<1>2. Becomes(p, j) /\ token' = [token EXCEPT ![p] = age] /\ UNCHANGED branches
  BY <1>1 DEF Tick, github, JobOK, Fields
<1>3. Life \in Nat /\ Skew \in 1..(Life - 1)
  BY TestGenAssumption
<1>4. age \in 0..Life
  BY <1>1, <1>3 DEF Tick
<1>5. JobOK(j, age)
  BY <1>1, <1>3, <1>4 DEF JobOK, Fields, Tick
<1> HIDE DEF age
<1>6. BranchesOK'
  BY <1>2 DEF IInv, BranchesOK
<1>7. JobsOK'
  BY <1>2, <1>4, <1>5 DEF IInv, JobsOK, Becomes
<1> QED
  BY <1>6, <1>7 DEF IInv

LEMMA ChainStepOK ==
  ASSUME IInv, NEW p \in Process, ChainStep(p)
  PROVE  IInv'
<1>1. CASE Deduped(p)
  BY <1>1, MovesOn DEF Deduped, github
<1>2. CASE ShadowLogged(p) \/ Landed(p)
  <2>1. UNCHANGED <<branches, token>>
    BY <1>2 DEF ShadowLogged, Landed, github
  <2>2. PICK outcome : Becomes(p, Answered(job[p], outcome))
    BY <1>2 DEF ShadowLogged, Landed
  <2> QED
    BY <2>1, <2>2, IsAnswered DEF IInv, BranchesOK
<1>3. CASE Downgraded(p)
  BY <1>3, MovesOn DEF Downgraded, github
<1>4. CASE Authorize(p)
  BY <1>4, AuthorizeOK
<1>5. CASE Executed(p)
  <2>1. BranchesOK'
    BY <1>5, EffectStep DEF Executed
  <2>2. JobsOK'
    BY <1>5, IsAnswered DEF Executed
  <2> QED
    BY <2>1, <2>2 DEF IInv
<1>6. CASE Refused(p)
  BY <1>6, MovesOn DEF Refused, github
<1>7. CASE Lost(p)
  <2> DEFINE outcome == IF Entitled(p) THEN "ERROR" ELSE "DOWNGRADED"
  <2>1. /\ Becomes(p, After(job[p], outcome)) /\ UNCHANGED token
        /\ job[p].sent # "no"
    BY <1>7 DEF Lost
  <2> HIDE DEF outcome
  <2>2. CASE UNCHANGED branches
    BY <2>1, <2>2, MovesOn
  <2>3. CASE Entitled(p) /\ Accepts(job[p]) /\ TakesEffect(p)
    <3>1. BranchesOK'
      BY <2>1, <2>3, EffectStep
    <3>2. JobOK(After(job[p], outcome), token[p])
      BY AfterOK DEF IInv, JobsOK
    <3>3. JobsOK'
      BY <2>1, <3>2 DEF IInv, JobsOK, Becomes
    <3> QED
      BY <3>1, <3>3 DEF IInv
  <2> QED
    BY <1>7, <2>2, <2>3 DEF Lost
<1>8. CASE Inserted(p)
  <2>1. UNCHANGED <<branches, token>>
    BY <1>8 DEF Inserted, github
  <2>2. PICK outcome, rows :
          Becomes(p, [After(job[p], outcome) EXCEPT !.rows = rows])
    BY <1>8 DEF Inserted
  <2>3. JobOK(After(job[p], outcome), token[p])
    BY AfterOK DEF IInv, JobsOK
  <2>4. JobOK([After(job[p], outcome) EXCEPT !.rows = rows], token[p])
    BY <2>3 DEF JobOK, Fields
  <2> QED
    BY <2>1, <2>2, <2>4, JobStep
<1>9. CASE Commit(p)
  BY <1>9, EndsOK DEF Commit, github
<1> QED
  BY <1>1, <1>2, <1>3, <1>4, <1>5, <1>6, <1>7, <1>8, <1>9 DEF ChainStep

LEMMA StepOK ==
  ASSUME IInv, [Next]_vars
  PROVE  IInv'
<1>1. CASE Push
  BY <1>1, StillStep DEF Push
<1>2. CASE Quiet \/ UNCHANGED vars
  BY <1>2, StillStep DEF Quiet, vars, github
<1>3. CASE \E p \in Process :
             \/ Generation(p) \/ ChainStep(p) \/ Tick(p) \/ Crash(p)
             \/ \E f \in File : CliGenerates(p, f)
  BY <1>3, GenerationOK, ChainStepOK, TickOK, CrashOK, CliOK
<1> QED
  BY <1>1, <1>2, <1>3, TakeOK, ReindexOK DEF Next

-----------------------------------------------------------------------------
(* The theorems.                                                           *)

THEOREM Invariant == Spec => []IInv
<1>1. Init => IInv
  BY InitOK
<1>2. IInv /\ [Next]_vars => IInv'
  BY StepOK
<1> QED
  BY <1>1, <1>2, PTL DEF Spec

\* No request of GithubClient is sent with, or arrives with, an expired
\* installation token: a token that is_fresh when the request is authorized
\* outlives it, for any lifetime longer than the skew and any number of
\* clients, refreshes and ticks.
THEOREM TokensStayAlive == Spec => []TokensAreAlive
<1>1. IInv => TokensAreAlive
  <2> SUFFICES ASSUME IInv, NEW p \in Process, job[p].sent # "no"
               PROVE  token[p] < Life
    BY DEF TokensAreAlive
  <2>1. JobOK(job[p], token[p])
    BY DEF IInv, JobsOK
  <2>2. Life \in Nat /\ Skew \in 1..(Life - 1)
    BY TestGenAssumption
  <2> QED
    BY <2>1, <2>2 DEF JobOK
<1> QED
  BY <1>1, Invariant, PTL

\* Whatever the LLM answers and claims, whichever requests fail, are lost or
\* retried and however many processes share a branch, only content that passed
\* the three gates of verify_test_file reaches a branch on GitHub.
THEOREM OnlyVerifiedIsPushed == Spec => []PushedTestsWereVerified
<1>1. IInv => PushedTestsWereVerified
  BY DEF IInv, BranchesOK, PushedTestsWereVerified
<1> QED
  BY <1>1, Invariant, PTL

-----------------------------------------------------------------------------
(* What a history of reindex and generation jobs adds up to: the types of  *)
(* TestGen, and its properties that relate branches, requests, rows and    *)
(* queued jobs.                                                            *)

(* Types.                                                                  *)

JobTyped(p, j) == j \in Job /\ JobShape(p, j)

JobsTyped == job \in [Process -> Job] /\ \A p \in Process : JobShape(p, job[p])

BranchesTyped ==
  /\ DOMAIN branches \subseteq BranchNames
  /\ branches = [b \in DOMAIN branches |-> branches[b]]
  /\ \A b \in DOMAIN branches : BranchShape(b)

PrsTyped == prs \subseteq [head : DOMAIN branches, path : TestPaths, text : Tests]

GhostsTyped ==
  /\ asked \subseteq File \X Sha /\ visits \in [Sha -> Nat] /\ again \in [File -> Nat]
  /\ budget \in [EventKinds -> Nat]

OthersTyped ==
  /\ tip \in Sha /\ clone \in Sha /\ repoHead \in Sha
  /\ switches \subseteq Switches /\ mode \in Modes
  /\ token \in [Process -> 0..Life \cup {None}]

LEMMA TypeParts ==
  TypeOK <=> /\ JobsTyped /\ BranchesTyped /\ PrsTyped /\ GhostsTyped /\ OthersTyped
             /\ queue \subseteq Queued /\ acts \subseteq Row
BY DEF TypeOK, JobsTyped, BranchesTyped, PrsTyped, GhostsTyped, OthersTyped

LEMMA PCs ==
  /\ ToSet(Chain) = {"create", "write", "open"}
  /\ PC = {"idle", "sync", "index", "trigger", "enqueue", "generate", "ask", "ref",
           "contents", "commit", "create", "write", "open"}
<1>1. ToSet(Chain) = {"create", "write", "open"}
  <2>1. DOMAIN Chain = 1..3 /\ Chain[1] = "create" /\ Chain[2] = "write" /\ Chain[3] = "open"
    BY DEF Chain
  <2>2. 1..3 = {1, 2, 3}
    OBVIOUS
  <2> QED
    BY <2>1, <2>2 DEF ToSet
<1> QED
  BY <1>1 DEF PC

LEMMA Zeros == 0 \in Tries /\ 0 \in 0..100 /\ <<>> \in Seq(File)
BY TestGenAssumption DEF Tries

LEMMA IdleTyped ==
  ASSUME NEW p
  PROVE  JobTyped(p, Idle)
<1>1. Idle \in Job
  BY PCs, Zeros DEF Idle, Job
<1>2. JobShape(p, Idle)
  BY PCs DEF Idle, JobShape
<1> QED
  BY <1>1, <1>2 DEF JobTyped

LEMMA TypeInit == Init => TypeOK
<1> SUFFICES ASSUME Init PROVE TypeOK
  OBVIOUS
<1>1. JobsTyped
  BY IdleTyped DEF Init, JobsTyped, JobTyped
<1>2. branches = <<>> /\ DOMAIN branches = {}
  BY DEF Init
<1>3. BranchesTyped
  BY <1>2 DEF BranchesTyped
<1>4. PrsTyped
  BY DEF Init, PrsTyped
<1>5. GhostsTyped
  BY TestGenAssumption DEF Init, GhostsTyped
<1>6. OthersTyped
  BY TestGenAssumption DEF Init, OthersTyped
<1> QED
  BY <1>1, <1>3, <1>4, <1>5, <1>6, TypeParts DEF Init

-----------------------------------------------------------------------------
(* Steps that keep most of the state.                                      *)

LEMMA JobTypedStep ==
  ASSUME JobsTyped, NEW p \in Process, NEW j, Becomes(p, j), JobTyped(p, j)
  PROVE  JobsTyped'
<1>1. job' = [job EXCEPT ![p] = j]
  BY DEF Becomes
<1>2. job' \in [Process -> Job]
  BY <1>1 DEF JobsTyped, JobTyped
<1>3. \A o \in Process : JobShape(o, job'[o])
  BY <1>1 DEF JobsTyped, JobTyped
<1> QED
  BY <1>2, <1>3 DEF JobsTyped

LEMMA SameBranches ==
  ASSUME BranchesTyped, UNCHANGED branches
  PROVE  BranchesTyped'
BY DEF BranchesTyped, BranchShape

LEMMA SamePrs ==
  ASSUME PrsTyped, UNCHANGED <<branches, prs>>
  PROVE  PrsTyped'
BY DEF PrsTyped

LEMMA SpendTyped ==
  ASSUME GhostsTyped, NEW what \in EventKinds, Spend(what)
  PROVE  budget' \in [EventKinds -> Nat]
BY DEF GhostsTyped, Spend


\* What a step of one process has to keep.
LEMMA TypedStep ==
  ASSUME TypeOK, NEW p \in Process, NEW j, Becomes(p, j), JobTyped(p, j),
         BranchesTyped', PrsTyped', GhostsTyped', OthersTyped',
         queue' \subseteq Queued, acts' \subseteq Row
  PROVE  TypeOK'
<1>1. JobsTyped'
  BY TypeParts, JobTypedStep
<1> QED
  BY <1>1 DEF TypeOK, JobsTyped, BranchesTyped, PrsTyped, GhostsTyped, OthersTyped

-----------------------------------------------------------------------------
(* Every action keeps the types.                                           *)

LEMMA NextTry ==
  ASSUME NEW j \in Job, TriedAgain(j)
  PROVE  j.tries + 1 \in Tries
<1>1. MaxTries \in Nat \ {0} /\ j.tries \in Tries
  BY TestGenAssumption DEF Job
<1> QED
  BY <1>1 DEF Tries, TriedAgain

\* The job of a queued entry, and the entry of a job.
LEMMA QueuedTyped ==
  ASSUME NEW q \in Queued
  PROVE  JobTyped(Worker, [Idle EXCEPT !.kind = q.kind, !.file = q.file, !.sha = q.sha,
            !.tries = q.tries, !.pc = IF q.kind = "reindex" THEN "sync" ELSE "generate"])
<1> DEFINE j == [Idle EXCEPT !.kind = q.kind, !.file = q.file, !.sha = q.sha,
            !.tries = q.tries, !.pc = IF q.kind = "reindex" THEN "sync" ELSE "generate"]
<1>2. /\ q.kind \in {"reindex", "generate"} /\ q.sha \in Sha /\ q.tries \in Tries
      /\ q.kind = "generate" => q.file \in File
      /\ q.kind = "reindex" => q.file = None
      /\ q.file \in File \cup {None}
  BY DEF Queued
<1>3. j.kind = q.kind /\ j.file = q.file /\ j.sha = q.sha /\ j.outcome = "none"
      /\ j.pc = IF q.kind = "reindex" THEN "sync" ELSE "generate"
  BY DEF Idle
<1>4. j \in Job
  BY <1>2, PCs, Zeros DEF Job, Idle
<1>5. j # Idle
  BY <1>2, <1>3 DEF Idle
<1> HIDE DEF j
<1>6. JobShape(Worker, j)
  BY <1>2, <1>3, <1>5, PCs DEF JobShape
<1> QED
  BY <1>4, <1>6 DEF JobTyped, j

LEMMA TypeTake ==
  ASSUME TypeOK, Take
  PROVE  TypeOK'
<1>1. Worker \in Process
  BY DEF Process
<1>2. PICK q \in queue :
        /\ queue' = queue \ {q}
        /\ Becomes(Worker, [Idle EXCEPT !.kind = q.kind, !.file = q.file, !.sha = q.sha,
            !.tries = q.tries, !.pc = IF q.kind = "reindex" THEN "sync" ELSE "generate"])
  BY DEF Take
<1>3. q \in Queued /\ queue' \subseteq Queued
  BY <1>2 DEF TypeOK
<1>4. JobsTyped'
  BY <1>1, <1>2, <1>3, QueuedTyped, JobTypedStep, TypeParts
<1> QED
  BY <1>3, <1>4, SameBranches, SamePrs, TypeParts
  DEF Take, github, local, ghosts, TypeOK, JobsTyped, BranchesTyped, PrsTyped, GhostsTyped,
      OthersTyped

\* A step that leaves all but the job of p and budgets alone.
LEMMA OwnStep ==
  ASSUME TypeOK, NEW p \in Process, NEW j, Becomes(p, j), JobTyped(p, j),
         UNCHANGED <<github, local, queue, token, acts, ghosts>>,
         budget' \in [EventKinds -> Nat]
  PROVE  TypeOK'
<1>1. BranchesTyped' /\ PrsTyped'
  BY SameBranches, SamePrs, TypeParts DEF github
<1>2. GhostsTyped' /\ OthersTyped' /\ queue' \subseteq Queued /\ acts' \subseteq Row
  BY TypeParts DEF GhostsTyped, OthersTyped, github, local, ghosts
<1> QED
  BY <1>1, <1>2, TypedStep

LEMMA TokenGone ==
  ASSUME TypeOK, NEW p \in Process, token' = [token EXCEPT ![p] = None]
  PROVE  token' \in [Process -> 0..Life \cup {None}]
BY DEF TypeOK

LEMMA EndsTyped ==
  ASSUME TypeOK, NEW p \in Process, Becomes(p, Idle),
         token' = [token EXCEPT ![p] = None],
         UNCHANGED <<github, local, asked, visits>>,
         again' \in [File -> Nat], budget' \in [EventKinds -> Nat],
         queue' \subseteq Queued, acts' \subseteq Row
  PROVE  TypeOK'
<1>1. BranchesTyped' /\ PrsTyped'
  BY SameBranches, SamePrs, TypeParts DEF github
<1>2. GhostsTyped' /\ OthersTyped'
  BY TokenGone, TypeParts DEF GhostsTyped, OthersTyped, github, local
<1> QED
  BY <1>1, <1>2, IdleTyped, TypedStep

LEMMA AgainTyped ==
  ASSUME TypeOK, NEW f, again' \in {again, [again EXCEPT ![f] = @ + 1]}
  PROVE  again' \in [File -> Nat]
BY DEF TypeOK

LEMMA SpentTyped ==
  ASSUME TypeOK, NEW what, Spend(what)
  PROVE  budget' \in [EventKinds -> Nat]
<1>1. budget \in [EventKinds -> Nat] /\ budget' = [budget EXCEPT ![what] = @ - 1]
      /\ budget[what] > 0
  BY DEF TypeOK, Spend
<1>2. what \in EventKinds => budget[what] - 1 \in Nat
  BY <1>1
<1> QED
  BY <1>1, <1>2

LEMMA JobOf ==
  ASSUME TypeOK, NEW p \in Process
  PROVE  JobTyped(p, job[p]) /\ job[p] \in Job /\ JobShape(p, job[p])
BY DEF TypeOK, JobTyped

LEMMA TypeCrash ==
  ASSUME TypeOK, NEW p \in Process, Crash(p)
  PROVE  TypeOK'
<1>1. UNCHANGED <<github, local, acts, asked, visits>>
  BY DEF Crash
<1>2. budget' \in [EventKinds -> Nat]
  BY SpentTyped DEF Crash
<1>3. again' \in [File -> Nat]
  BY AgainTyped DEF Crash, Unrecorded
<1>4. acts' \subseteq Row /\ queue \subseteq Queued
  BY <1>1 DEF TypeOK
<1>5. CASE /\ p = Worker /\ TriedAgain(job[p])
           /\ queue' = queue \cup {[kind |-> job[p].kind, file |-> job[p].file,
                                    sha |-> job[p].sha, tries |-> job[p].tries + 1]}
           /\ Becomes(p, Idle)
           /\ token' = [token EXCEPT ![p] = None]
  <2> DEFINE j == job[p]
             q == [kind |-> j.kind, file |-> j.file, sha |-> j.sha, tries |-> j.tries + 1]
  <2>1. j \in Job /\ JobShape(p, j) /\ j # Idle
    BY JobOf DEF Crash
  <2>2. j.tries + 1 \in Tries
    BY <1>5, <2>1, NextTry
  <2>3. j.kind \in {"reindex", "generate"} /\ j.sha \in Sha
    BY <1>5, <2>1 DEF Job, JobShape
  <2>4. j.kind = "generate" => j.file \in File
    BY <2>1 DEF JobShape
  <2>5. j.kind = "reindex" => j.file = None
    BY <2>1 DEF JobShape
  <2>6. q \in Queued
    BY <2>2, <2>3, <2>4, <2>5 DEF Queued
  <2>7. queue' \subseteq Queued
    BY <1>4, <1>5, <2>6
  <2> QED
    BY <1>1, <1>2, <1>3, <1>4, <1>5, <2>7, EndsTyped
<1>6. CASE Ends(p) /\ UNCHANGED queue
  BY <1>1, <1>2, <1>3, <1>4, <1>6, EndsTyped DEF Ends
<1> QED
  BY <1>5, <1>6 DEF Crash

LEMMA IndexableInFile ==
  ASSUME NEW s
  PROVE  IndexableAt(s) \subseteq File
BY DEF IndexableAt, Disk

\* The trigger chooses among the candidates, at most Cap of them.
LEMMA SelectedIs ==
  ASSUME NEW files
  PROVE  /\ Selected(files) \in Seq(File)
         /\ Len(Selected(files)) \in 0..Cap
         /\ ToSet(Selected(files)) \subseteq files
<1> DEFINE ks == {i \in DOMAIN PathOrder : PathOrder[i] \in files}
           first == Firsts(ks, Cap)
<1>1. PathOrder \in Seq(File) /\ Cap \in Nat
  BY TestGenAssumption
<1>2. ks \in SUBSET DOMAIN PathOrder
  OBVIOUS
<1>3. Positions(ks)
  BY <1>1, <1>2, KeptAtIs
<1>4. first \subseteq ks /\ Cardinality(first) \in 0..Cap
  BY <1>1, <1>3, FirstsAreFew
<1>5. \A i \in first : PathOrder[i] \in files
  BY <1>4
<1> HIDE DEF ks, first
<1>6. first \in SUBSET DOMAIN PathOrder
  BY <1>2, <1>4
<1>7. /\ KeptAt(PathOrder, first) \in Seq(File)
      /\ Len(KeptAt(PathOrder, first)) = Cardinality(first)
      /\ \A n \in DOMAIN KeptAt(PathOrder, first) :
           \E i \in first : KeptAt(PathOrder, first)[n] = PathOrder[i]
  BY <1>1, <1>6, KeptAtIs
<1>8. Selected(files) = KeptAt(PathOrder, first)
  BY DEF Selected, first, ks
<1> QED
  BY <1>4, <1>5, <1>7, <1>8 DEF ToSet

\* What enqueue_job leaves in the queue.
LEMMA EnqueuedIs ==
  ASSUME NEW kind, NEW f, NEW s, NEW e \in Enqueued(kind, f, s)
  PROVE  LET q == [kind |-> kind, file |-> f, sha |-> s, tries |-> 0]
         IN \/ e[1] = queue \cup {q} /\ e[2] = "taken" /\ IdOf(q) \notin LiveIds
            \/ e[1] = queue /\ e[2] = "refused"
<1> DEFINE q == [kind |-> kind, file |-> f, sha |-> s, tries |-> 0]
           took == IF IdOf(q) \in LiveIds THEN {} ELSE {<<queue \cup {q}, "taken">>}
           refused == IF IdOf(q) \in LiveIds \cup ended THEN {<<queue, "refused">>} ELSE {}
<1>1. e \in took \cup refused
  BY DEF Enqueued
<1>2. CASE e \in took
  BY <1>2
<1>3. CASE e \in refused
  BY <1>3
<1> QED
  BY <1>1, <1>2, <1>3

LEMMA ReindexGoesOn ==
  ASSUME NEW w \in Job, JobShape(Worker, w), w.kind = "reindex",
         NEW pc \in {"index", "trigger", "enqueue"}, NEW added \in SUBSET File,
         NEW chosen \in Seq(File)
  PROVE  JobTyped(Worker, [w EXCEPT !.pc = pc, !.added = added, !.chosen = chosen])
<1> DEFINE j == [w EXCEPT !.pc = pc, !.added = added, !.chosen = chosen]
<1>1. j \in Job
  <2>1. pc \in PC
    BY PCs
  <2> QED
    BY <2>1 DEF Job
<1>2. j.kind = w.kind /\ j.pc = pc /\ j.sha = w.sha /\ j.file = w.file
      /\ j.outcome = "none"
  BY PCs DEF Job, JobShape
<1>3. w # Idle /\ j # Idle
  <2>1. Idle.kind = "none"
    BY DEF Idle
  <2> QED
    BY <1>2, <2>1
<1> HIDE DEF j
<1>4. JobShape(Worker, j)
  BY <1>2, <1>3, PCs DEF JobShape
<1> QED
  BY <1>1, <1>4 DEF JobTyped, j

LEMMA TypePush ==
  ASSUME TypeOK, Push
  PROVE  TypeOK'
<1>1. PICK s \in Sha :
        /\ tip' \in {tip, s}
        /\ \E e \in Enqueued("reindex", None, s) \cup {<<queue, "refused">>} : queue' = e[1]
  BY DEF Push
<1>2. [kind |-> "reindex", file |-> None, sha |-> s, tries |-> 0] \in Queued
  BY Zeros DEF Queued
<1>3. queue' \subseteq Queued
  BY <1>1, <1>2, EnqueuedIs DEF TypeOK
<1>4. tip' \in Sha
  BY <1>1 DEF TypeOK
<1>5. budget' \in [EventKinds -> Nat]
  BY SpentTyped DEF Push
<1>6. UNCHANGED <<branches, prs, local, job, token, acts, ghosts>>
  BY DEF Push
<1>7. JobsTyped' /\ BranchesTyped' /\ PrsTyped'
  BY <1>6, SameBranches, SamePrs, TypeParts DEF JobsTyped
<1>8. GhostsTyped' /\ OthersTyped' /\ acts' \subseteq Row
  BY <1>4, <1>5, <1>6 DEF TypeOK, GhostsTyped, OthersTyped, local, ghosts
<1> QED
  BY <1>3, <1>7, <1>8 DEF TypeOK, JobsTyped, BranchesTyped, PrsTyped, GhostsTyped, OthersTyped

LEMMA TypeReindex ==
  ASSUME TypeOK, Reindex
  PROVE  TypeOK'
<1>1. Worker \in Process
  BY DEF Process
<1> DEFINE w == job[Worker]
<1>2. w \in Job /\ JobShape(Worker, w)
  BY <1>1, JobOf
<1>3. CASE Sync
  <2> DEFINE j == [w EXCEPT !.pc = "index"]
  <2>1. w.pc = "sync" /\ Becomes(Worker, j) /\ clone' = w.sha
        /\ UNCHANGED <<github, repoHead, switches, mode, queue, token, acts, ghosts, budget>>
    BY <1>3 DEF Sync
  <2>2. w.kind = "reindex" /\ w # Idle /\ w.sha \in Sha
    BY <1>2, <2>1 DEF JobShape, Idle
  <2>3. JobTyped(Worker, j)
    <3>1. j = [w EXCEPT !.pc = "index", !.added = w.added, !.chosen = w.chosen]
      BY <1>2 DEF Job
    <3>2. w.added \in SUBSET File /\ w.chosen \in Seq(File)
      BY <1>2 DEF Job
    <3> QED
      BY <1>2, <2>2, <3>1, <3>2, ReindexGoesOn
  <2>4. BranchesTyped' /\ PrsTyped'
    BY <2>1, SameBranches, SamePrs, TypeParts DEF github
  <2>5. GhostsTyped' /\ OthersTyped' /\ queue' \subseteq Queued /\ acts' \subseteq Row
    BY <2>1, <2>2, TypeParts DEF GhostsTyped, OthersTyped, github, ghosts
  <2> QED
    BY <1>1, <2>1, <2>3, <2>4, <2>5, TypedStep
<1>4. CASE Index
  <2>1. w.pc = "index" /\ repoHead' = clone
        /\ UNCHANGED <<github, clone, switches, mode, queue, token, acts, asked, again>>
    BY <1>4 DEF Index
  <2>2. w.kind = "reindex" /\ w # Idle /\ w.sha \in Sha
    BY <1>2, <2>1 DEF JobShape, Idle
  <2>3. PICK added \in {w.added, IndexableAt(clone) \ Disk(repoHead)} :
          Becomes(Worker, [w EXCEPT !.pc = "trigger", !.added = added])
    <3>1. CASE Becomes(Worker, [w EXCEPT !.pc = "trigger",
                       !.added = IndexableAt(clone) \ Disk(repoHead)])
      BY <3>1
    <3>2. CASE Becomes(Worker, [w EXCEPT !.pc = "trigger"])
      <4>1. [w EXCEPT !.pc = "trigger"] = [w EXCEPT !.pc = "trigger", !.added = w.added]
        BY <1>2 DEF Job
      <4> QED
        BY <3>2, <4>1
    <3> QED
      BY <1>4, <3>1, <3>2 DEF Index
  <2>4. added \subseteq File
    BY <1>2, IndexableInFile DEF Job
  <2> DEFINE j == [w EXCEPT !.pc = "trigger", !.added = added]
  <2>5. JobTyped(Worker, j)
    <3>1. j = [w EXCEPT !.pc = "trigger", !.added = added, !.chosen = w.chosen]
      BY <1>2 DEF Job
    <3>2. w.chosen \in Seq(File)
      BY <1>2 DEF Job
    <3> QED
      BY <1>2, <2>2, <2>4, <3>1, <3>2, ReindexGoesOn
  <2>6. budget' \in [EventKinds -> Nat]
    BY <1>4, SpentTyped DEF Index, TypeOK
  <2>7. visits' \in [Sha -> Nat]
    BY <1>4 DEF Index, TypeOK
  <2>8. BranchesTyped' /\ PrsTyped'
    BY <2>1, SameBranches, SamePrs, TypeParts DEF github
  <2>9. GhostsTyped' /\ OthersTyped' /\ queue' \subseteq Queued /\ acts' \subseteq Row
    BY <2>1, <2>6, <2>7, TypeParts DEF GhostsTyped, OthersTyped, github
  <2> QED
    BY <1>1, <2>3, <2>5, <2>8, <2>9, TypedStep
<1>5. CASE Trigger
  <2> DEFINE candidates == {f \in w.added : ~HasExistingTests(f) /\ IsFeasible(f)}
             chosen == IF switches = Switches THEN Selected(candidates) ELSE <<>>
             j == [w EXCEPT !.pc = "enqueue", !.added = {}, !.chosen = chosen]
  <2>1. w.pc = "trigger" /\ Becomes(Worker, j)
        /\ UNCHANGED <<github, local, queue, token, acts, ghosts, budget>>
    BY <1>5 DEF Trigger
  <2>2. w.kind = "reindex" /\ w # Idle /\ w.sha \in Sha
    BY <1>2, <2>1 DEF JobShape, Idle
  <2>3. chosen \in Seq(File)
    BY SelectedIs, Zeros
  <2> HIDE DEF chosen
  <2>4. JobTyped(Worker, j)
    BY <1>2, <2>2, <2>3, ReindexGoesOn
  <2>5. budget' \in [EventKinds -> Nat]
    BY <2>1 DEF TypeOK
  <2> QED
    BY <1>1, <2>1, <2>4, <2>5, OwnStep
<1>6. CASE Enqueue
  <2> DEFINE j == [w EXCEPT !.chosen = Tail(@)]
             f == Head(w.chosen)
  <2>1. w.pc = "enqueue" /\ w.chosen # <<>> /\ Becomes(Worker, j)
        /\ UNCHANGED <<github, local, token, acts, visits>>
    BY <1>6 DEF Enqueue
  <2>2. w.kind = "reindex" /\ w # Idle /\ w.sha \in Sha
    BY <1>2, <2>1 DEF JobShape, Idle
  <2>3. w.chosen \in Seq(File)
    BY <1>2 DEF Job
  <2>4. f \in File /\ Tail(w.chosen) \in Seq(File)
    BY <2>1, <2>3
  <2>5. JobTyped(Worker, j)
    <3>1. j = [w EXCEPT !.pc = "enqueue", !.added = w.added, !.chosen = Tail(w.chosen)]
      BY <1>2, <2>1 DEF Job
    <3>2. w.added \in SUBSET File
      BY <1>2 DEF Job
    <3> QED
      BY <1>2, <2>2, <2>4, <3>1, <3>2, ReindexGoesOn
  <2>6. repoHead \in Sha
    BY DEF TypeOK
  <2>7. \/ /\ \E e \in Enqueued("generate", f, repoHead) :
                /\ queue' = e[1]
                /\ asked' = IF e[2] = "taken" THEN asked \cup {<<f, repoHead>>} ELSE asked
                /\ again' \in {again, [again EXCEPT ![f] = @ + 1]}
           /\ UNCHANGED budget
        \/ Spend("fault") /\ UNCHANGED <<queue, asked, again>>
    BY <1>6 DEF Enqueue
  <2> HIDE DEF f
  <2>8. queue' \subseteq Queued /\ asked' \subseteq File \X Sha
    <3>1. [kind |-> "generate", file |-> f, sha |-> repoHead, tries |-> 0] \in Queued
      BY <2>4, <2>6, Zeros DEF Queued
    <3> QED
      BY <2>4, <2>6, <2>7, <3>1, EnqueuedIs DEF TypeOK
  <2>9. again' \in [File -> Nat] /\ budget' \in [EventKinds -> Nat]
    BY <2>7, AgainTyped, SpentTyped DEF TypeOK
  <2>10. BranchesTyped' /\ PrsTyped'
    BY <2>1, SameBranches, SamePrs, TypeParts DEF github
  <2>11. GhostsTyped' /\ OthersTyped' /\ acts' \subseteq Row
    BY <2>1, <2>8, <2>9, TypeParts DEF GhostsTyped, OthersTyped, github, local
  <2> QED
    BY <1>1, <2>1, <2>5, <2>8, <2>10, <2>11, TypedStep
<1>7. CASE ReindexEnds
  <2>1. /\ Becomes(Worker, Idle) /\ token' = [token EXCEPT ![Worker] = None]
        /\ UNCHANGED <<github, local, queue, acts, ghosts, budget>>
    BY <1>7 DEF ReindexEnds, Ends
  <2>2. /\ again' \in [File -> Nat] /\ budget' \in [EventKinds -> Nat]
        /\ queue' \subseteq Queued /\ acts' \subseteq Row
    BY <2>1 DEF TypeOK, ghosts
  <2> QED
    BY <1>1, <2>1, <2>2, EndsTyped DEF ghosts
<1> QED
  BY <1>3, <1>4, <1>5, <1>6, <1>7 DEF Reindex

Later == {"ref", "contents", "create", "write", "open", "commit"}

LEMMA GenerationGoesOn ==
  ASSUME NEW p, NEW j \in Job, j.kind = "generate", j.file \in File, j.pc \in Later,
         j.text \in Tests, j.at \in Sha, j.pc = "ref" => j.sha = None,
         j.pc # "ref" \/ p = Worker => j.sha \in Sha,
         j.outcome # "none" => j.pc \in {"create", "write", "open"} /\ j.sent = "no"
  PROVE  JobTyped(p, j)
<1>1. j # Idle
  BY DEF Idle
<1>2. JobShape(p, j)
  BY <1>1, PCs DEF JobShape, Later
<1> QED
  BY <1>2 DEF JobTyped

\* What a job that has its text knows.
LEMMA InLater ==
  ASSUME TypeOK, NEW p \in Process, job[p].pc \in Later
  PROVE  /\ job[p] \in Job /\ job[p].kind = "generate" /\ job[p].file \in File
         /\ job[p].text \in Tests /\ job[p].at \in Sha
         /\ job[p].pc # "ref" \/ p = Worker => job[p].sha \in Sha
         /\ job[p].outcome # "none" => /\ job[p].pc \in {"create", "write", "open"}
                                       /\ job[p].sent = "no"
<1>1. job[p] \in Job /\ JobShape(p, job[p])
  BY JobOf
<1>2. job[p].kind = "generate" /\ job[p] # Idle
  BY <1>1, PCs DEF JobShape, Job, Later, Idle
<1> QED
  BY <1>1, <1>2, PCs DEF JobShape, Later

LEMMA TypeCli ==
  ASSUME TypeOK, NEW p \in Process, NEW f \in File, CliGenerates(p, f)
  PROVE  TypeOK'
<1> DEFINE j == [Idle EXCEPT !.kind = "generate", !.file = f, !.pc = "generate"]
<1>1. Becomes(p, j) /\ p # Worker
      /\ UNCHANGED <<github, local, queue, token, acts, ghosts>>
  BY TestGenAssumption DEF CliGenerates
<1>2. j \in Job
  BY PCs, Zeros DEF Job, Idle
<1>3. j.kind = "generate" /\ j.pc = "generate" /\ j.file = f /\ j # Idle
      /\ j.outcome = "none"
  BY DEF Idle
<1>4. budget' \in [EventKinds -> Nat]
  BY SpentTyped DEF CliGenerates
<1> HIDE DEF j
<1>5. JobTyped(p, j)
  BY <1>1, <1>2, <1>3, PCs DEF JobTyped, JobShape
<1> QED
  BY <1>1, <1>4, <1>5, OwnStep

LEMMA BlendedTyped ==
  ASSUME NEW t, NEW claim \in Claims
  PROVE  Blended(Verifies(t), claim) \in 0..100
<1>1. Verifies(t) \in BOOLEAN /\ claim \in 0..100
  BY TestGenAssumption DEF Verifies
<1> QED
  BY <1>1, BlendedBelow

LEMMA ExistingTyped ==
  ASSUME TypeOK, NEW f
  PROVE  ExistingTest(f) \in Content \cup {None}
BY TestGenAssumption DEF TypeOK, ExistingTest

LEMMA TypeGeneration ==
  ASSUME TypeOK, NEW p \in Process, Generation(p)
  PROVE  TypeOK'
<1> DEFINE w == job[p]
<1>1. w \in Job /\ JobShape(p, w)
  BY JobOf
<1>2. CASE ReadRow(p)
  <2> DEFINE j == [w EXCEPT !.pc = "ask"]
  <2>1. w.pc = "generate" /\ Becomes(p, j)
        /\ UNCHANGED <<github, local, queue, token, acts, ghosts, budget>>
    BY <1>2 DEF ReadRow
  <2>2. w # Idle /\ w.kind = "generate" /\ w.file \in File /\ w.outcome = "none"
    BY <1>1, <2>1, PCs DEF JobShape, Job, Idle
  <2>a. "ask" \in PC
    BY PCs
  <2>3. /\ j \in Job /\ j.kind = "generate" /\ j.file = w.file /\ j.pc = "ask"
        /\ j.sha = w.sha /\ j.outcome = "none"
    BY <1>1, <2>2, <2>a DEF Job
  <2>4. j # Idle
    BY <2>3 DEF Idle
  <2> HIDE DEF j
  <2>5. JobTyped(p, j)
    BY <1>1, <2>2, <2>3, <2>4, PCs DEF JobTyped, JobShape
  <2>6. budget' \in [EventKinds -> Nat]
    BY <2>1 DEF TypeOK
  <2> QED
    BY <2>1, <2>5, <2>6, OwnStep
<1>3. CASE GenerateNothing(p) \/ Fails(p)
  <2>1. /\ Becomes(p, Idle) /\ token' = [token EXCEPT ![p] = None]
        /\ UNCHANGED <<github, local, queue, acts, ghosts>>
    BY <1>3 DEF GenerateNothing, Fails, Ends
  <2>2. /\ again' \in [File -> Nat] /\ queue' \subseteq Queued /\ acts' \subseteq Row
    BY <2>1 DEF TypeOK, ghosts
  <2>3. budget' \in [EventKinds -> Nat]
    BY <1>3, SpentTyped DEF GenerateNothing, Fails, TypeOK
  <2> QED
    BY <2>1, <2>2, <2>3, EndsTyped DEF ghosts
<1>4. CASE Generate(p)
  <2> DEFINE next == IF w.sha = None THEN "ref" ELSE "contents"
  <2>1. PICK t \in Tests, claim \in Claims :
          Becomes(p, [w EXCEPT !.text = t, !.at = clone,
                        !.conf = Blended(Verifies(t), claim), !.pc = next])
    BY <1>4 DEF Generate
  <2> DEFINE c == Blended(Verifies(t), claim)
             j == [w EXCEPT !.text = t, !.at = clone, !.conf = c, !.pc = next]
  <2>2. w.pc = "ask" /\ UNCHANGED <<github, local, queue, token, acts, ghosts, budget>>
    BY <1>4 DEF Generate
  <2>3. w # Idle /\ w.kind = "generate" /\ w.outcome = "none"
    BY <1>1, <2>2, PCs DEF JobShape, Job, Idle
  <2>4. /\ w.file \in File /\ (p = Worker => w.sha \in Sha)
        /\ next \in {"ref", "contents"} /\ (next = "ref" <=> w.sha = None)
        /\ w.sha \in Sha \cup {None}
    BY <1>1, <2>3 DEF JobShape, Job
  <2>5. c \in 0..100 /\ clone \in Sha
    BY BlendedTyped DEF TypeOK
  <2>6. Becomes(p, j)
    BY <2>1
  <2> HIDE DEF c, next
  <2>n. next \in PC
    BY <2>4, PCs
  <2>7. j \in Job
    BY <1>1, <2>5, <2>n DEF Job
  <2>8. j.kind = "generate" /\ j.file = w.file /\ j.pc = next /\ j.text = t
        /\ j.at = clone /\ j.sha = w.sha /\ j.outcome = "none"
    BY <1>1, <2>3 DEF Job
  <2> HIDE DEF j
  <2>9. JobTyped(p, j)
    BY <2>4, <2>5, <2>7, <2>8, TestGenAssumption, GenerationGoesOn DEF Later
  <2>10. budget' \in [EventKinds -> Nat]
    BY <2>2 DEF TypeOK
  <2> QED
    BY <2>2, <2>6, <2>9, <2>10, OwnStep
<1>5. CASE ReadRef(p)
  <2> DEFINE j == [w EXCEPT !.sha = tip, !.pc = "contents"]
  <2>1. w.pc = "ref" /\ Becomes(p, j)
        /\ UNCHANGED <<github, local, queue, token, acts, ghosts, budget>>
    BY <1>5 DEF ReadRef
  <2>2. w.kind = "generate" /\ w.file \in File /\ w.text \in Tests /\ w.at \in Sha
        /\ w.outcome = "none"
    BY <2>1, InLater DEF Later
  <2>3. tip \in Sha /\ "contents" \in PC
    BY PCs DEF TypeOK
  <2>4. j \in Job
    BY <1>1, <2>3 DEF Job
  <2>5. j.kind = "generate" /\ j.file = w.file /\ j.pc = "contents" /\ j.text = w.text
        /\ j.at = w.at /\ j.sha = tip /\ j.outcome = "none"
    BY <1>1, <2>2 DEF Job
  <2> HIDE DEF j
  <2>6. JobTyped(p, j)
    BY <2>2, <2>3, <2>4, <2>5, GenerationGoesOn DEF Later
  <2>7. budget' \in [EventKinds -> Nat]
    BY <2>1 DEF TypeOK
  <2> QED
    BY <2>1, <2>6, <2>7, OwnStep
<1>6. CASE ReadContents(p)
  <2> DEFINE existing == ExistingTest(w.file)
             j == [w EXCEPT !.pc = "create", !.existing = existing]
  <2>1. w.pc = "contents" /\ Becomes(p, j)
        /\ UNCHANGED <<github, local, queue, token, acts, ghosts, budget>>
    BY <1>6 DEF ReadContents
  <2>2. w.kind = "generate" /\ w.file \in File /\ w.text \in Tests /\ w.at \in Sha
        /\ w.sha \in Sha /\ w.outcome = "none"
    BY <2>1, InLater DEF Later
  <2>3. existing \in Content \cup {None} /\ "create" \in PC
    BY ExistingTyped, PCs
  <2> HIDE DEF existing
  <2>4. j \in Job
    BY <1>1, <2>3 DEF Job
  <2>5. j.kind = "generate" /\ j.file = w.file /\ j.pc = "create" /\ j.text = w.text
        /\ j.at = w.at /\ j.sha = w.sha /\ j.outcome = "none"
    BY <1>1, <2>2 DEF Job
  <2> HIDE DEF j
  <2>6. JobTyped(p, j)
    BY <2>2, <2>4, <2>5, GenerationGoesOn DEF Later
  <2>7. budget' \in [EventKinds -> Nat]
    BY <2>1 DEF TypeOK
  <2> QED
    BY <2>1, <2>6, <2>7, OwnStep DEF j
<1> QED
  BY <1>2, <1>3, <1>4, <1>5, <1>6 DEF Generation

-----------------------------------------------------------------------------
(* The chain.                                                              *)

LEMMA ChainLater ==
  ASSUME NEW p, InChain(p)
  PROVE  job[p].pc \in {"create", "write", "open"} /\ job[p].pc \in Later
BY PCs DEF InChain, Later

LEMMA RowTyped ==
  ASSUME NEW j \in Job, j.pc \in {"create", "write", "open"}, j.file \in File,
         j.sha \in Sha, j.text \in Tests, NEW outcome \in Recordable
  PROVE  RowOf(j, outcome) \in Row
<1>1. BranchOf(j.file, j.sha) \in BranchNames /\ TestPath(j.file) \in TestPaths
  BY DEF BranchNames, TestPaths
<1> QED
  BY <1>1, PCs DEF RowOf, Row

\* What becomes of a job when a decision is done.
LEMMA AfterIs ==
  ASSUME TypeOK, NEW p \in Process, InChain(p), NEW outcome
  PROVE  LET j == After(job[p], outcome)
         IN /\ j \in Job /\ j.pc \in {"write", "open", "commit"}
            /\ j.kind = "generate" /\ j.file = job[p].file /\ j.sha = job[p].sha
            /\ j.text = job[p].text /\ j.at = job[p].at /\ j.sent = "no"
            /\ j.rows = job[p].rows /\ j.made = job[p].made /\ j.conf = job[p].conf
            /\ j.existing = job[p].existing /\ j.outcome = "none"
            /\ j.pc = "write" => job[p].pc = "create" /\ outcome \in Progress
            /\ j.pc = "open" => job[p].pc = "write" /\ outcome \in Progress
            /\ JobTyped(p, j)
<1> DEFINE w == job[p]
           j == After(w, outcome)
<1>1. /\ w \in Job /\ w.kind = "generate" /\ w.file \in File /\ w.text \in Tests
      /\ w.at \in Sha /\ w.sha \in Sha /\ w.pc \in {"create", "write", "open"}
  BY InLater, ChainLater
<1>2. PICK pc \in {"write", "open", "commit"} :
        /\ j = [w EXCEPT !.sent = "no", !.outcome = "none", !.pc = pc]
        /\ pc = "write" => w.pc = "create" /\ outcome \in Progress
        /\ pc = "open" => w.pc = "write" /\ outcome \in Progress
  BY <1>1 DEF After
<1>3. j \in Job
  BY <1>1, <1>2, PCs DEF Job
<1>4. /\ j.pc = pc /\ j.kind = "generate" /\ j.file = w.file /\ j.sha = w.sha
      /\ j.text = w.text /\ j.at = w.at /\ j.sent = "no" /\ j.rows = w.rows
      /\ j.made = w.made /\ j.conf = w.conf /\ j.existing = w.existing
      /\ j.outcome = "none"
  BY <1>1, <1>2 DEF Job
<1> HIDE DEF j
<1>5. JobTyped(p, j)
  BY <1>1, <1>3, <1>4, GenerationGoesOn DEF Later
<1> QED
  BY <1>2, <1>3, <1>4, <1>5 DEF j

LEMMA OwnChainStep ==
  ASSUME TypeOK, NEW p \in Process, InChain(p), NEW outcome,
         Becomes(p, After(job[p], outcome)),
         UNCHANGED <<tip, local, queue, token, acts, asked, visits>>,
         BranchesTyped', PrsTyped', again' \in [File -> Nat],
         budget' \in [EventKinds -> Nat]
  PROVE  TypeOK'
<1>1. JobTyped(p, After(job[p], outcome))
  BY AfterIs
<1>2. GhostsTyped' /\ OthersTyped' /\ queue' \subseteq Queued /\ acts' \subseteq Row
  BY DEF TypeOK, GhostsTyped, OthersTyped, local
<1> QED
  BY <1>1, <1>2, TypedStep

\* What a decision leaves of the job of p, with the rows that go with it.
Moved(p, outcome, rows) ==
  LET w == job[p]
      v == job'[p]
  IN /\ Becomes(p, v)
     /\ v.kind = "generate" /\ v.file = w.file /\ v.sha = w.sha /\ v.text = w.text
     /\ v.existing = w.existing /\ v.rows = rows /\ v.made = w.made /\ v.sent = "no"
     /\ v.outcome = "none" /\ v.pc \in {"write", "open", "commit"}
     /\ v.pc = "write" => w.pc = "create" /\ outcome \in Progress
     /\ v.pc = "open" => w.pc = "write" /\ outcome \in Progress

\* What an answer leaves of it.
Told(p, outcome) ==
  LET w == job[p]
      v == job'[p]
  IN /\ Becomes(p, v)
     /\ v.kind = "generate" /\ v.file = w.file /\ v.sha = w.sha /\ v.text = w.text
     /\ v.existing = w.existing /\ v.rows = w.rows /\ v.sent = "no"
     /\ v.made = (w.made \/ (outcome = "EXECUTED" /\ w.pc = "create"))
     /\ v.outcome = outcome /\ v.pc = w.pc

Taken(p) == Signature(RowOf(job[p], job[p].outcome)) \in {Signature(a) : a \in acts}
RowsAfter(p) ==
  IF Taken(p) THEN {} ELSE job[p].rows \cup {RowOf(job[p], job[p].outcome)}

LEMMA BecomesTold ==
  ASSUME TypeOK, NEW p \in Process, InChain(p), NEW outcome \in Recordable,
         Becomes(p, Answered(job[p], outcome))
  PROVE  Told(p, outcome) /\ JobTyped(p, job'[p])
<1> DEFINE w == job[p]
           made == w.made \/ (outcome = "EXECUTED" /\ w.pc = "create")
           j == [w EXCEPT !.sent = "no", !.outcome = outcome, !.made = made]
<1>1. /\ w \in Job /\ w.kind = "generate" /\ w.file \in File /\ w.text \in Tests
      /\ w.at \in Sha /\ w.sha \in Sha /\ w.pc \in {"create", "write", "open"}
  BY InLater, ChainLater
<1>2. Answered(w, outcome) = j
  BY <1>1 DEF Answered, Job
<1>3. made \in BOOLEAN
  BY <1>1 DEF Job
<1>4. made = (w.made \/ (outcome = "EXECUTED" /\ w.pc = "create"))
  OBVIOUS
<1> HIDE DEF made
<1>5. j \in Job
  BY <1>1, <1>3 DEF Job
<1>6. /\ j.pc = w.pc /\ j.kind = "generate" /\ j.file = w.file /\ j.sha = w.sha
      /\ j.text = w.text /\ j.at = w.at /\ j.sent = "no" /\ j.rows = w.rows
      /\ j.made = made /\ j.existing = w.existing /\ j.outcome = outcome
  BY <1>1 DEF Job
<1> HIDE DEF j
<1>7. JobTyped(p, j)
  BY <1>1, <1>5, <1>6, GenerationGoesOn DEF Later
<1>8. Becomes(p, j) /\ job'[p] = j
  BY <1>2 DEF Becomes, TypeOK
<1> QED
  BY <1>4, <1>6, <1>7, <1>8 DEF Told

LEMMA BecomesInserted ==
  ASSUME TypeOK, NEW p \in Process, Inserted(p)
  PROVE  /\ Moved(p, IF Taken(p) THEN "DEDUPED" ELSE job[p].outcome, RowsAfter(p))
         /\ JobTyped(p, job'[p]) /\ InChain(p) /\ job[p].outcome \in Recordable
<1> DEFINE w == job[p]
           row == RowOf(w, w.outcome)
           outcome == IF Taken(p) THEN "DEDUPED" ELSE w.outcome
           next == After(w, outcome)
           rows == RowsAfter(p)
           j == [next EXCEPT !.rows = rows]
<1>1. InChain(p) /\ w.outcome # "none"
  BY DEF Inserted
<1>2. Becomes(p, [next EXCEPT !.rows = IF Taken(p) THEN {} ELSE @ \cup {row}])
  BY DEF Inserted, Taken
<1>3. /\ w \in Job /\ w.kind = "generate" /\ w.file \in File /\ w.text \in Tests
      /\ w.at \in Sha /\ w.sha \in Sha /\ w.pc \in {"create", "write", "open"}
  BY <1>1, InLater, ChainLater
<1>4. w.outcome \in Recordable
  BY <1>1, <1>3 DEF Job
<1>5. row \in Row /\ w.rows \in SUBSET Row
  BY <1>3, <1>4, RowTyped DEF Job
<1>6. rows \in SUBSET Row
  BY <1>5 DEF RowsAfter
<1>7. /\ next \in Job /\ next.pc \in {"write", "open", "commit"}
      /\ next.kind = "generate" /\ next.file = w.file /\ next.sha = w.sha
      /\ next.text = w.text /\ next.at = w.at /\ next.sent = "no"
      /\ next.rows = w.rows /\ next.existing = w.existing /\ next.made = w.made
      /\ next.outcome = "none"
      /\ next.pc = "write" => w.pc = "create" /\ outcome \in Progress
      /\ next.pc = "open" => w.pc = "write" /\ outcome \in Progress
  BY <1>1, AfterIs
<1>8. Becomes(p, j)
  <2>1. rows = IF Taken(p) THEN {} ELSE w.rows \cup {row}
    BY DEF RowsAfter
  <2> HIDE DEF next, rows
  <2>2. [next EXCEPT !.rows = IF Taken(p) THEN {} ELSE @ \cup {row}] = j
    BY <1>7, <2>1
  <2> QED
    BY <1>2, <2>2
<1> HIDE DEF rows, next, outcome
<1>9. j \in Job
  BY <1>6, <1>7 DEF Job
<1>10. /\ j.pc = next.pc /\ j.kind = "generate" /\ j.file = w.file /\ j.sha = w.sha
       /\ j.text = w.text /\ j.at = w.at /\ j.sent = "no" /\ j.rows = rows
       /\ j.made = w.made /\ j.existing = w.existing /\ j.outcome = "none"
  BY <1>7 DEF Job
<1> HIDE DEF j
<1>11. JobTyped(p, j)
  BY <1>3, <1>7, <1>9, <1>10, GenerationGoesOn DEF Later
<1>12. job'[p] = j
  BY <1>8 DEF Becomes, TypeOK
<1>13. Moved(p, outcome, rows)
  BY <1>7, <1>8, <1>10, <1>12 DEF Moved
<1> QED
  BY <1>1, <1>4, <1>11, <1>12, <1>13 DEF outcome, rows

\* GitHub takes a request.
LEMMA EffectTyped ==
  ASSUME TypeOK, NEW p \in Process, InChain(p), Accepts(job[p]), TakesEffect(p)
  PROVE  BranchesTyped' /\ PrsTyped'
<1> DEFINE j == job[p]
           b == BranchOf(j.file, j.sha)
           path == TestPath(j.file)
<1>1. /\ j \in Job /\ j.file \in File /\ j.text \in Tests
      /\ j.at \in Sha /\ j.sha \in Sha /\ j.pc \in {"create", "write", "open"}
  BY InLater, ChainLater
<1>2. b \in BranchNames /\ b[2] = j.sha /\ path \in TestPaths
  BY <1>1 DEF BranchNames, TestPaths, BranchOf
<1>3. BranchesTyped /\ PrsTyped
  BY TypeParts
<1>4. CASE j.pc = "create"
  <2> DEFINE new == [base |-> j.sha, by |-> p, for |-> j.file, files |-> <<>>]
  <2>1. branches' = [x \in DOMAIN branches \cup {b} |->
                       IF x = b THEN new ELSE branches[x]]
        /\ prs' = prs
    BY <1>4 DEF TakesEffect
  <2>2. /\ new \in [base : Sha, by : Process, for : File, files : {new.files}]
        /\ new.base = j.sha /\ DOMAIN new.files = {}
        /\ new.files \in [DOMAIN new.files -> [text : Tests, at : Sha, by : Process]]
    BY <1>1
  <2> HIDE DEF new, b
  <2>3. DOMAIN branches' = DOMAIN branches \cup {b}
    BY <2>1
  <2>4. \A x \in DOMAIN branches' : BranchShape(x)'
    <3> SUFFICES ASSUME NEW x \in DOMAIN branches' PROVE BranchShape(x)'
      OBVIOUS
    <3>1. CASE x = b
      <4>1. branches'[x] = new
        BY <2>1, <2>3, <3>1
      <4> QED
        BY <1>2, <2>2, <3>1, <4>1 DEF BranchShape
    <3>2. CASE x # b
      <4>1. x \in DOMAIN branches /\ branches'[x] = branches[x]
        BY <2>1, <2>3, <3>2
      <4> QED
        BY <1>3, <4>1 DEF BranchShape, BranchesTyped
    <3> QED
      BY <3>1, <3>2
  <2>5. BranchesTyped'
    BY <1>2, <1>3, <2>1, <2>3, <2>4 DEF BranchesTyped
  <2>6. PrsTyped'
    BY <1>3, <2>1, <2>3 DEF PrsTyped
  <2> QED
    BY <2>5, <2>6
<1>5. CASE j.pc = "write"
  <2> DEFINE written == [text |-> j.text, at |-> j.at, by |-> p]
             files == branches[b].files
             new == [q \in DOMAIN files \cup {path} |->
                       IF q = path THEN written ELSE files[q]]
  <2>1. branches' = [branches EXCEPT ![b].files = new] /\ prs' = prs
    BY <1>5 DEF TakesEffect
  <2>2. b \in DOMAIN branches
    BY <1>5 DEF Accepts
  <2>3. BranchShape(b)
    BY <1>3, <2>2 DEF BranchesTyped
  <2>4. written \in [text : Tests, at : Sha, by : Process]
    BY <1>1
  <2>5. /\ DOMAIN new \subseteq TestPaths
        /\ new \in [DOMAIN new -> [text : Tests, at : Sha, by : Process]]
    <3>1. DOMAIN new = DOMAIN files \cup {path} /\ DOMAIN files \subseteq TestPaths
      BY <2>3 DEF BranchShape
    <3>2. \A q \in DOMAIN files : files[q] \in [text : Tests, at : Sha, by : Process]
      BY <2>3 DEF BranchShape
    <3> QED
      BY <1>2, <2>4, <3>1, <3>2
  <2> HIDE DEF new, b
  <2>6. branches[b] \in [base : Sha, by : Process, for : File, files : {branches[b].files}]
        /\ branches[b].base = b[2]
    BY <2>3 DEF BranchShape
  <2>7. branches'[b] = [branches[b] EXCEPT !.files = new]
        /\ DOMAIN branches' = DOMAIN branches
        /\ branches' = [x \in DOMAIN branches' |-> branches'[x]]
        /\ \A x \in DOMAIN branches \ {b} : branches'[x] = branches[x]
    BY <2>1, <2>2
  <2>8. /\ branches'[b] \in [base : Sha, by : Process, for : File, files : {new}]
        /\ branches'[b].files = new /\ branches'[b].base = b[2]
    BY <2>6, <2>7
  <2>9. \A x \in DOMAIN branches' : BranchShape(x)'
    <3> SUFFICES ASSUME NEW x \in DOMAIN branches' PROVE BranchShape(x)'
      OBVIOUS
    <3>1. CASE x = b
      BY <2>5, <2>8, <3>1 DEF BranchShape
    <3>2. CASE x # b
      <4>1. x \in DOMAIN branches /\ branches'[x] = branches[x]
        BY <2>7, <3>2
      <4> QED
        BY <1>3, <4>1 DEF BranchShape, BranchesTyped
    <3> QED
      BY <3>1, <3>2
  <2>10. BranchesTyped'
    BY <1>3, <2>7, <2>9 DEF BranchesTyped
  <2>11. PrsTyped'
    BY <1>3, <2>1, <2>7 DEF PrsTyped
  <2> QED
    BY <2>10, <2>11
<1>6. CASE j.pc = "open"
  <2>1. branches' = branches
        /\ prs' = prs \cup {[head |-> b, path |-> path, text |-> j.text]}
    BY <1>6 DEF TakesEffect
  <2>2. b \in DOMAIN branches
    BY <1>6 DEF Accepts
  <2> HIDE DEF b, path, j
  <2>3. PrsTyped'
    BY <1>1, <1>2, <1>3, <2>1, <2>2 DEF PrsTyped
  <2> QED
    BY <1>3, <2>1, <2>3, SameBranches
<1> QED
  BY <1>1, <1>4, <1>5, <1>6

LEMMA TypeChainStep ==
  ASSUME TypeOK, NEW p \in Process, ChainStep(p)
  PROVE  TypeOK'
<1>0. /\ BranchesTyped /\ PrsTyped /\ again \in [File -> Nat]
      /\ budget \in [EventKinds -> Nat]
  BY TypeParts DEF GhostsTyped
<1>1. ASSUME NEW outcome, InChain(p), Becomes(p, After(job[p], outcome)),
             UNCHANGED <<github, local, queue, token, acts, ghosts, budget>>
      PROVE  TypeOK'
  <2>1. BranchesTyped' /\ PrsTyped'
    BY <1>0, <1>1, SameBranches, SamePrs DEF github
  <2>2. UNCHANGED <<tip, local, queue, token, acts, asked, visits>>
        /\ again' \in [File -> Nat] /\ budget' \in [EventKinds -> Nat]
    BY <1>0, <1>1 DEF github, ghosts
  <2> QED
    BY <1>1, <2>1, <2>2, OwnChainStep
<1>2. CASE Deduped(p) \/ Downgraded(p) \/ Refused(p)
  BY <1>1, <1>2 DEF Deduped, Downgraded, Refused, Undecided, github, ghosts
<1>3. CASE ShadowLogged(p) \/ Landed(p) \/ Inserted(p)
  <2>2. InChain(p) /\ UNCHANGED <<github, local, queue, token, acts, ghosts, budget>>
    BY <1>3 DEF ShadowLogged, Landed, Inserted, Undecided
  <2>3. \E j : Becomes(p, j) /\ JobTyped(p, j)
    <3>1. CASE ShadowLogged(p) \/ Landed(p)
      <4>1. PICK outcome \in Recordable : Becomes(p, Answered(job[p], outcome))
        BY <3>1 DEF ShadowLogged, Landed, Recordable
      <4> QED
        BY <2>2, <4>1, BecomesTold DEF Told
    <3>2. CASE Inserted(p)
      BY <3>2, BecomesInserted DEF Moved
    <3> QED
      BY <1>3, <3>1, <3>2
  <2>4. budget' \in [EventKinds -> Nat]
    BY <1>0, <2>2
  <2> QED
    BY <2>2, <2>3, <2>4, OwnStep
<1>4. CASE Authorize(p)
  <2> DEFINE age == IF token[p] # None THEN IF IsFresh(token[p]) THEN token[p] ELSE 0 ELSE 0
             j == [job[p] EXCEPT !.sent = "sent"]
  <2>1. InChain(p) /\ Becomes(p, j) /\ token' = [token EXCEPT ![p] = age]
        /\ job[p].outcome = "none"
        /\ UNCHANGED <<github, local, queue, acts, ghosts, budget>>
    BY <1>4 DEF Authorize, Undecided
  <2>2. age \in 0..Life \cup {None}
    BY TestGenAssumption DEF TypeOK
  <2> HIDE DEF age
  <2>3. token' \in [Process -> 0..Life \cup {None}]
    BY <2>1, <2>2 DEF TypeOK
  <2>4. /\ job[p] \in Job /\ job[p].kind = "generate" /\ job[p].file \in File
        /\ job[p].text \in Tests /\ job[p].at \in Sha /\ job[p].sha \in Sha
        /\ job[p].pc \in Later
    BY <2>1, ChainLater, InLater
  <2>5. JobTyped(p, j)
    <3>1. j \in Job
      BY <2>4 DEF Job
    <3>2. /\ j.kind = "generate" /\ j.file = job[p].file /\ j.pc = job[p].pc
          /\ j.text = job[p].text /\ j.at = job[p].at /\ j.sha = job[p].sha
          /\ j.outcome = "none"
      BY <2>1, <2>4 DEF Job
    <3>3. job[p].pc # "ref"
      BY <2>1, ChainLater
    <3> HIDE DEF j
    <3> QED
      BY <2>4, <3>1, <3>2, <3>3, GenerationGoesOn
  <2>6. BranchesTyped' /\ PrsTyped'
    BY <1>0, <2>1, SameBranches, SamePrs DEF github
  <2>7. GhostsTyped' /\ OthersTyped' /\ queue' \subseteq Queued /\ acts' \subseteq Row
    BY <2>1, <2>3 DEF TypeOK, GhostsTyped, OthersTyped, github, local, ghosts
  <2> QED
    BY <2>1, <2>5, <2>6, <2>7, TypedStep
<1>5. CASE Executed(p)
  <2>1. InChain(p) /\ Accepts(job[p]) /\ TakesEffect(p)
        /\ Becomes(p, Answered(job[p], "EXECUTED"))
        /\ UNCHANGED <<tip, local, queue, token, acts, ghosts, budget>>
    BY <1>5 DEF Executed
  <2>2. \E j : Becomes(p, j) /\ JobTyped(p, j)
    BY <2>1, BecomesTold DEF Recordable, Told
  <2>3. BranchesTyped' /\ PrsTyped'
    BY <2>1, EffectTyped
  <2>4. GhostsTyped' /\ OthersTyped' /\ queue' \subseteq Queued /\ acts' \subseteq Row
    BY <2>1 DEF TypeOK, GhostsTyped, OthersTyped, local, ghosts
  <2> QED
    BY <2>2, <2>3, <2>4, TypedStep
<1>6. CASE Lost(p)
  <2> DEFINE outcome == IF Entitled(p) THEN "ERROR" ELSE "DOWNGRADED"
  <2>1. /\ InChain(p) /\ Becomes(p, After(job[p], outcome))
        /\ UNCHANGED <<tip, local, queue, token, acts, asked, visits>>
    BY <1>6 DEF Lost
  <2> HIDE DEF outcome
  <2>2. budget' \in [EventKinds -> Nat] /\ again' \in [File -> Nat]
    BY <1>6, SpentTyped, AgainTyped DEF Lost
  <2>3. BranchesTyped' /\ PrsTyped'
    <3>1. CASE UNCHANGED <<branches, prs>>
      BY <1>0, <3>1, SameBranches, SamePrs
    <3>2. CASE Accepts(job[p]) /\ TakesEffect(p)
      BY <2>1, <3>2, EffectTyped
    <3> QED
      BY <1>6, <3>1, <3>2 DEF Lost
  <2> QED
    BY <2>1, <2>2, <2>3, OwnChainStep
<1>7. CASE Commit(p)
  <2>1. /\ Becomes(p, Idle) /\ token' = [token EXCEPT ![p] = None]
        /\ acts' = acts \cup job[p].rows
        /\ UNCHANGED <<github, local, queue, asked, visits, budget>>
    BY <1>7 DEF Commit, Ends
  <2>2. again' \in [File -> Nat]
    BY <1>7, AgainTyped DEF Commit, Unrecorded
  <2>3. acts' \subseteq Row
    BY <2>1, JobOf DEF TypeOK, Job
  <2>4. queue' \subseteq Queued /\ budget' \in [EventKinds -> Nat]
    BY <2>1 DEF TypeOK
  <2> QED
    BY <2>1, <2>2, <2>3, <2>4, EndsTyped
<1> QED
  BY <1>2, <1>3, <1>4, <1>5, <1>6, <1>7 DEF ChainStep

LEMMA TypeTick ==
  ASSUME TypeOK, NEW p \in Process, Tick(p)
  PROVE  TypeOK'
<1> DEFINE w == job[p]
           sent == IF w.sent = "sent" THEN "late" ELSE w.sent
           j == [w EXCEPT !.sent = sent]
<1>1. w \in Job /\ JobShape(p, w) /\ token[p] \in 0..Life \cup {None}
  BY JobOf DEF TypeOK
<1>2. Becomes(p, j) /\ token' = [token EXCEPT ![p] = token[p] + 1]
      /\ UNCHANGED <<github, local, queue, acts, ghosts>>
  BY <1>1 DEF Tick, Job
<1>3. token[p] + 1 \in 0..Life
  BY <1>1, TestGenAssumption DEF Tick
<1>4. token' \in [Process -> 0..Life \cup {None}]
  BY <1>2, <1>3 DEF TypeOK
<1>5. budget' \in [EventKinds -> Nat]
  BY SpentTyped DEF Tick
<1>6. JobTyped(p, j)
  <2>1. j \in Job
    <3>1. sent \in {"no", "sent", "late"}
      BY <1>1 DEF Job
    <3> HIDE DEF sent
    <3> QED
      BY <1>1, <3>1 DEF Job
  <2>2. CASE w = Idle
    <3>1. j = Idle
      <4>1. w.sent = "no" /\ sent = w.sent
        BY <2>2 DEF Idle
      <4>2. [w EXCEPT !.sent = w.sent] = w
        BY <1>1 DEF Job
      <4> QED
        BY <2>2, <4>1, <4>2
    <3> QED
      BY <3>1, IdleTyped
  <2>3. CASE w # Idle
    <3>1. /\ j.kind = w.kind /\ j.pc = w.pc /\ j.sha = w.sha /\ j.file = w.file
          /\ j.text = w.text /\ j.at = w.at /\ j.outcome = w.outcome
          /\ w.sent = "no" => j.sent = "no"
      BY <1>1 DEF Job
    <3>2. Idle.kind = "none"
      BY DEF Idle
    <3>3. j # Idle
      BY <1>1, <2>3, <3>1, <3>2 DEF JobShape
    <3> HIDE DEF j
    <3>4. JobShape(p, j)
      BY <1>1, <2>3, <3>1, <3>3 DEF JobShape
    <3> QED
      BY <2>1, <3>4 DEF JobTyped
  <2> QED
    BY <2>2, <2>3
<1>7. BranchesTyped' /\ PrsTyped'
  BY <1>2, SameBranches, SamePrs, TypeParts DEF github
<1>8. GhostsTyped' /\ OthersTyped' /\ queue' \subseteq Queued /\ acts' \subseteq Row
  BY <1>2, <1>4, <1>5 DEF TypeOK, GhostsTyped, OthersTyped, github, local, ghosts
<1> QED
  BY <1>2, <1>6, <1>7, <1>8, TypedStep

LEMMA TypeStep ==
  ASSUME TypeOK, [Next]_vars
  PROVE  TypeOK'
<1>1. CASE Quiet \/ UNCHANGED vars
  <2>1. UNCHANGED vars
    BY <1>1 DEF Quiet
  <2> QED
    BY <2>1 DEF vars, github, local, ghosts, TypeOK, BranchShape
<1>2. CASE \E p \in Process :
             \/ Generation(p) \/ ChainStep(p) \/ Tick(p) \/ Crash(p)
             \/ \E f \in File : CliGenerates(p, f)
  BY <1>2, TypeGeneration, TypeChainStep, TypeTick, TypeCrash, TypeCli
<1> QED
  BY <1>1, <1>2, TypePush, TypeTake, TypeReindex DEF Next

\* Type correctness, for any commits, files, retries and processes: what every
\* handler reads from its job has been set by the steps before it, a queued or
\* retried job names a commit and, if it generates, a file, and every pull
\* request has its branch.
THEOREM TypesHold == Spec => []TypeOK
<1>1. Init => TypeOK
  BY TypeInit
<1>2. TypeOK /\ [Next]_vars => TypeOK'
  BY TypeStep
<1> QED
  BY <1>1, <1>2, PTL DEF Spec

-----------------------------------------------------------------------------
(* What the other actions leave alone while a reindex job plans.           *)

Planning == {"sync", "index", "trigger", "enqueue"}

\* The worker's job is the same as far as reindexing goes, or it is not a
\* reindex job, or it is one that has just been taken.
SamePlan ==
  \/ /\ job'[Worker].pc = job[Worker].pc /\ job'[Worker].added = job[Worker].added
     /\ job'[Worker].chosen = job[Worker].chosen
  \/ job'[Worker].pc \notin Planning
  \/ job'[Worker].pc = "sync" /\ job'[Worker].added = {}

LEMMA BecomesOther ==
  ASSUME TypeOK, NEW p \in Process, NEW j, Becomes(p, j)
  PROVE  /\ p = Worker => job'[Worker] = j
         /\ p # Worker => job'[Worker] = job[Worker]
BY DEF TypeOK, Becomes, Process

\* What a step of a generation job before its chain leaves of it.
Prepared(p) ==
  LET w == job[p]
      v == job'[p]
  IN /\ w.pc \in {"generate", "ask", "ref", "contents"}
     /\ v.pc \in {"ask", "ref", "contents", "create"}
     /\ Becomes(p, v)
     /\ v.kind = w.kind /\ v.file = w.file /\ (w.pc # "ref" => v.sha = w.sha)
     /\ v.rows = w.rows /\ v.made = w.made /\ v.sent = w.sent /\ v.outcome = w.outcome
     /\ v.existing \in {w.existing, ExistingTest(w.file)}

LEMMA GenerationMoves ==
  ASSUME TypeOK, NEW p \in Process, Generation(p)
  PROVE  Becomes(p, Idle) \/ Prepared(p)
<1> DEFINE w == job[p]
<1>0. w \in Job
  BY JobOf
<1>1. CASE GenerateNothing(p) \/ Fails(p)
  BY <1>1 DEF GenerateNothing, Fails, Ends
<1>2. ASSUME NEW j, Becomes(p, j), w.pc \in {"generate", "ask", "ref", "contents"},
             j.pc \in {"ask", "ref", "contents", "create"},
             j.kind = w.kind, j.file = w.file, w.pc # "ref" => j.sha = w.sha,
             j.rows = w.rows, j.made = w.made, j.sent = w.sent, j.outcome = w.outcome,
             j.existing \in {w.existing, ExistingTest(w.file)}
      PROVE  Prepared(p)
  <2>1. job'[p] = j
    BY <1>2 DEF Becomes, TypeOK
  <2> QED
    BY <1>2, <2>1 DEF Prepared
<1>3. CASE ReadRow(p)
  <2> DEFINE j == [w EXCEPT !.pc = "ask"]
  <2>1. Becomes(p, j) /\ w.pc = "generate"
    BY <1>3 DEF ReadRow
  <2>2. /\ j.pc = "ask" /\ j.kind = w.kind /\ j.file = w.file /\ j.sha = w.sha
        /\ j.rows = w.rows /\ j.made = w.made /\ j.sent = w.sent
        /\ j.outcome = w.outcome /\ j.existing = w.existing
    BY <1>0 DEF Job
  <2> HIDE DEF j
  <2> QED
    BY <1>2, <2>1, <2>2
<1>4. CASE Generate(p)
  <2> DEFINE next == IF w.sha = None THEN "ref" ELSE "contents"
  <2>0. next \in {"ref", "contents"}
    OBVIOUS
  <2>1. PICK text, at, conf :
          Becomes(p, [w EXCEPT !.text = text, !.at = at, !.conf = conf, !.pc = next])
    BY <1>4 DEF Generate
  <2> HIDE DEF next
  <2> DEFINE j == [w EXCEPT !.text = text, !.at = at, !.conf = conf, !.pc = next]
  <2>2. /\ j.pc = next /\ j.kind = w.kind /\ j.file = w.file /\ j.sha = w.sha
        /\ j.rows = w.rows /\ j.made = w.made /\ j.sent = w.sent
        /\ j.outcome = w.outcome /\ j.existing = w.existing
    BY <1>0 DEF Job
  <2>3. w.pc = "ask" /\ Becomes(p, j)
    BY <1>4, <2>1 DEF Generate
  <2> HIDE DEF j
  <2> QED
    BY <1>2, <2>0, <2>2, <2>3
<1>5. CASE ReadRef(p)
  <2> DEFINE j == [w EXCEPT !.sha = tip, !.pc = "contents"]
  <2>1. Becomes(p, j) /\ w.pc = "ref"
    BY <1>5 DEF ReadRef
  <2>2. /\ j.pc = "contents" /\ j.kind = w.kind /\ j.file = w.file
        /\ j.rows = w.rows /\ j.made = w.made /\ j.sent = w.sent
        /\ j.outcome = w.outcome /\ j.existing = w.existing
    BY <1>0 DEF Job
  <2> HIDE DEF j
  <2> QED
    BY <1>2, <2>1, <2>2
<1>6. CASE ReadContents(p)
  <2> DEFINE x == ExistingTest(w.file)
             j == [w EXCEPT !.pc = "create", !.existing = x]
  <2>1. Becomes(p, j) /\ w.pc = "contents"
    BY <1>6 DEF ReadContents
  <2> HIDE DEF x
  <2>2. /\ j.pc = "create" /\ j.kind = w.kind /\ j.file = w.file /\ j.sha = w.sha
        /\ j.rows = w.rows /\ j.made = w.made /\ j.sent = w.sent
        /\ j.outcome = w.outcome /\ j.existing = x
    BY <1>0 DEF Job
  <2> HIDE DEF j
  <2> QED
    BY <1>2, <2>1, <2>2 DEF x
<1> QED
  BY <1>1, <1>3, <1>4, <1>5, <1>6 DEF Generation

LEMMA AfterMoves ==
  ASSUME TypeOK, NEW p \in Process, InChain(p), NEW outcome,
         Becomes(p, After(job[p], outcome))
  PROVE  Moved(p, outcome, job[p].rows)
<1>1. job'[p] = After(job[p], outcome)
  BY DEF Becomes, TypeOK
<1> QED
  BY <1>1, AfterIs DEF Moved

\* A request that is authorized or grows old.
Waiting(p) ==
  LET w == job[p]
      v == job'[p]
  IN /\ Becomes(p, v)
     /\ v.kind = w.kind /\ v.file = w.file /\ v.sha = w.sha /\ v.text = w.text
     /\ v.existing = w.existing /\ v.rows = w.rows /\ v.made = w.made
     /\ v.outcome = w.outcome /\ v.pc = w.pc /\ v.added = w.added /\ v.chosen = w.chosen

LEMMA SentWaits ==
  ASSUME TypeOK, NEW p \in Process, NEW sent, Becomes(p, [job[p] EXCEPT !.sent = sent])
  PROVE  Waiting(p) /\ job'[p].sent = sent
<1> DEFINE w == job[p]
           j == [w EXCEPT !.sent = sent]
<1>1. /\ j.kind = w.kind /\ j.file = w.file /\ j.sha = w.sha /\ j.text = w.text
      /\ j.existing = w.existing /\ j.rows = w.rows /\ j.made = w.made
      /\ j.outcome = w.outcome /\ j.pc = w.pc /\ j.added = w.added /\ j.chosen = w.chosen
      /\ j.sent = sent
  BY JobOf DEF Job
<1>2. Becomes(p, j) /\ job'[p] = j
  BY DEF Becomes, TypeOK
<1> HIDE DEF j
<1> QED
  BY <1>1, <1>2 DEF Waiting

\* The steps of the chain.
LEMMA ChainMoves ==
  ASSUME TypeOK, NEW p \in Process, ChainStep(p), ~Commit(p)
  PROVE  /\ InChain(p) /\ Becomes(p, job'[p])
         /\ Deduped(p) => Moved(p, "DEDUPED", job[p].rows)
         /\ Downgraded(p) => Moved(p, "DOWNGRADED", job[p].rows)
         /\ Refused(p) => Moved(p, "ERROR", job[p].rows)
         /\ Lost(p) => Moved(p, "ERROR", job[p].rows) \/ Moved(p, "DOWNGRADED", job[p].rows)
         /\ Inserted(p) => Moved(p, IF Taken(p) THEN "DEDUPED" ELSE job[p].outcome, RowsAfter(p))
         /\ ShadowLogged(p) \/ Landed(p) =>
              \E outcome \in {"SHADOW_LOGGED", "DOWNGRADED"} :
                Told(p, outcome) /\ (outcome = "SHADOW_LOGGED" => mode = "shadow")
         /\ Executed(p) => Told(p, "EXECUTED")
         /\ Authorize(p) => Waiting(p) /\ job'[p].sent = "sent"
<1>1. InChain(p)
  BY DEF ChainStep, Deduped, ShadowLogged, Downgraded, Authorize, Executed, Landed, Refused,
         Lost, Inserted, Undecided
<1>2. Deduped(p) => Moved(p, "DEDUPED", job[p].rows)
  BY <1>1, AfterMoves DEF Deduped
<1>3. Downgraded(p) => Moved(p, "DOWNGRADED", job[p].rows)
  BY <1>1, AfterMoves DEF Downgraded
<1>4. Refused(p) => Moved(p, "ERROR", job[p].rows)
  BY <1>1, AfterMoves DEF Refused
<1>5. Lost(p) => Moved(p, "ERROR", job[p].rows) \/ Moved(p, "DOWNGRADED", job[p].rows)
  BY <1>1, AfterMoves DEF Lost
<1>6. Inserted(p) => Moved(p, IF Taken(p) THEN "DEDUPED" ELSE job[p].outcome, RowsAfter(p))
  BY BecomesInserted
<1>7. ShadowLogged(p) \/ Landed(p) =>
        \E outcome \in {"SHADOW_LOGGED", "DOWNGRADED"} :
          Told(p, outcome) /\ (outcome = "SHADOW_LOGGED" => mode = "shadow")
  <2> SUFFICES ASSUME ShadowLogged(p) \/ Landed(p)
               PROVE  \E outcome \in {"SHADOW_LOGGED", "DOWNGRADED"} :
                        Told(p, outcome) /\ (outcome = "SHADOW_LOGGED" => mode = "shadow")
    OBVIOUS
  <2>1. PICK outcome \in {"SHADOW_LOGGED", "DOWNGRADED"} :
          /\ Becomes(p, Answered(job[p], outcome))
          /\ outcome = "SHADOW_LOGGED" => mode = "shadow"
    BY DEF ShadowLogged, Landed
  <2>2. Told(p, outcome)
    BY <1>1, <2>1, BecomesTold DEF Recordable
  <2> QED
    BY <2>1, <2>2
<1>8. Executed(p) => Told(p, "EXECUTED")
  BY <1>1, BecomesTold DEF Executed, Recordable
<1>9. Authorize(p) => Waiting(p) /\ job'[p].sent = "sent"
  BY SentWaits DEF Authorize
<1> QED
  BY <1>1, <1>2, <1>3, <1>4, <1>5, <1>6, <1>7, <1>8, <1>9 DEF ChainStep, Moved, Told, Waiting

LEMMA OthersKeepThePlan ==
  ASSUME TypeOK, [Next]_vars, ~Reindex
  PROVE  UNCHANGED <<clone, repoHead, asked, visits>> /\ SamePlan
<1>1. ASSUME NEW p \in Process, NEW j, Becomes(p, j), j.pc \notin Planning
      PROVE  SamePlan
  BY <1>1, BecomesOther DEF SamePlan
<1>2. CASE Push
  BY <1>2 DEF Push, SamePlan, local, ghosts
<1>3. CASE Quiet \/ UNCHANGED vars
  BY <1>3 DEF Quiet, vars, SamePlan, local, ghosts
<1>4. CASE Take
  <2>1. PICK q \in queue :
          Becomes(Worker, [Idle EXCEPT !.kind = q.kind, !.file = q.file, !.sha = q.sha,
            !.tries = q.tries, !.pc = IF q.kind = "reindex" THEN "sync" ELSE "generate"])
    BY <1>4 DEF Take
  <2> DEFINE j == [Idle EXCEPT !.kind = q.kind, !.file = q.file, !.sha = q.sha,
            !.tries = q.tries, !.pc = IF q.kind = "reindex" THEN "sync" ELSE "generate"]
  <2>2. j.pc \in {"sync", "generate"} /\ j.added = {}
    BY DEF Idle
  <2>3. job'[Worker] = j
    BY <2>1, BecomesOther DEF Process
  <2> QED
    BY <1>4, <2>2, <2>3 DEF SamePlan, Planning, Take, local, ghosts
<1>5. ASSUME NEW p \in Process, Generation(p)
      PROVE  UNCHANGED <<clone, repoHead, asked, visits>> /\ SamePlan
  <2>1. UNCHANGED <<clone, repoHead, asked, visits>>
    BY <1>5 DEF Generation, ReadRow, GenerateNothing, Generate, ReadRef, ReadContents, Fails,
                local, ghosts
  <2>2. CASE Becomes(p, Idle)
    BY <1>1, <2>1, <2>2 DEF Idle, Planning
  <2>3. CASE Prepared(p)
    BY <1>1, <2>1, <2>3 DEF Prepared, Planning
  <2> QED
    BY <1>5, <2>2, <2>3, GenerationMoves
<1>6. ASSUME NEW p \in Process, ChainStep(p)
      PROVE  UNCHANGED <<clone, repoHead, asked, visits>> /\ SamePlan
  <2>1. UNCHANGED <<clone, repoHead, asked, visits>>
    BY <1>6 DEF ChainStep, Deduped, ShadowLogged, Downgraded, Authorize, Executed, Landed,
                Refused, Lost, Inserted, Commit, local, ghosts
  <2>2. CASE Commit(p)
    BY <1>1, <2>1, <2>2 DEF Commit, Ends, Idle, Planning
  <2>3. CASE ~Commit(p)
    <3>1. Becomes(p, job'[p]) /\ job[p].pc \in {"create", "write", "open"}
      BY <1>6, <2>3, ChainMoves, ChainLater
    <3>2. job'[p].pc \in {"write", "open", "commit"} \/ job'[p].pc = job[p].pc
      BY <1>6, <2>3, ChainMoves DEF ChainStep, Moved, Told, Waiting
    <3> QED
      BY <1>1, <2>1, <3>1, <3>2 DEF Planning
  <2> QED
    BY <2>2, <2>3
<1>7. ASSUME NEW p \in Process, Tick(p)
      PROVE  UNCHANGED <<clone, repoHead, asked, visits>> /\ SamePlan
  <2>1. Waiting(p)
    BY <1>7, SentWaits DEF Tick
  <2>2. SamePlan
    BY <2>1, BecomesOther DEF SamePlan, Waiting
  <2> QED
    BY <1>7, <2>2 DEF Tick, local, ghosts
<1>8. ASSUME NEW p \in Process, Crash(p)
      PROVE  UNCHANGED <<clone, repoHead, asked, visits>> /\ SamePlan
  <2>1. Becomes(p, Idle)
    BY <1>8 DEF Crash, Ends
  <2> QED
    BY <1>1, <1>8, <2>1 DEF Idle, Planning, Crash, local
<1>9. ASSUME NEW p \in Process, NEW f \in File, CliGenerates(p, f)
      PROVE  UNCHANGED <<clone, repoHead, asked, visits>> /\ SamePlan
  BY <1>1, <1>9 DEF CliGenerates, Idle, Planning, local, ghosts
<1> QED
  BY <1>2, <1>3, <1>4, <1>5, <1>6, <1>7, <1>8, <1>9 DEF Next

-----------------------------------------------------------------------------
(* The cap.                                                                *)

AskedFor(s) == {a \in asked : a[2] = s}

\* What the running reindex job may still enqueue for commit s.
Owed(s) ==
  IF s # repoHead THEN 0
  ELSE IF job[Worker].pc = "trigger" /\ job[Worker].added # {} THEN Cap
  ELSE IF job[Worker].pc = "enqueue" THEN Len(job[Worker].chosen) ELSE 0

\* Only an incremental run, which counts as a visit, adds files, and what is
\* asked for and what may still be is covered by the visits.
SpendInv ==
  /\ IsFiniteSet(asked)
  /\ job[Worker].pc \in {"sync", "index"} => job[Worker].added = {}
  /\ \A s \in Sha : Cardinality(AskedFor(s)) + Owed(s) <= Cap * visits[s]

LEMMA OwedIs ==
  ASSUME TypeOK, NEW s
  PROVE  Owed(s) \in Nat
<1>1. job[Worker] \in Job /\ Cap \in Nat
  BY TestGenAssumption DEF TypeOK, Process
<1>2. job[Worker].chosen \in Seq(File)
  BY <1>1 DEF Job
<1> QED
  BY <1>1, <1>2 DEF Owed

LEMMA AskedIs ==
  ASSUME IsFiniteSet(asked), NEW s
  PROVE  IsFiniteSet(AskedFor(s)) /\ Cardinality(AskedFor(s)) \in Nat
BY FS_Subset, FS_CardinalityType DEF AskedFor

LEMMA NothingSelected == Len(Selected({})) = 0
<1>1. Selected({}) \in Seq(File) /\ ToSet(Selected({})) \subseteq {}
  BY SelectedIs
<1>2. \A i \in DOMAIN Selected({}) : Selected({})[i] \in ToSet(Selected({}))
  BY DEF ToSet
<1>3. Len(Selected({})) \in Nat /\ DOMAIN Selected({}) = 1..Len(Selected({}))
  BY <1>1
<1> QED
  BY <1>1, <1>2, <1>3

LEMMA SpendStep ==
  ASSUME TypeOK, TypeOK', SpendInv, [Next]_vars
  PROVE  SpendInv'
<1> DEFINE w == job[Worker]
<1>0. /\ Worker \in Process /\ w \in Job /\ JobShape(Worker, w) /\ Cap \in Nat
      /\ visits \in [Sha -> Nat] /\ repoHead \in Sha /\ clone \in Sha
  BY TestGenAssumption, JobOf DEF Process, TypeOK
<1>1. IsFiniteSet(asked) /\ \A s \in Sha : Cardinality(AskedFor(s)) \in Nat /\ Owed(s) \in Nat
  BY AskedIs, OwedIs DEF SpendInv
<1>2. CASE ~Reindex
  <2>1. UNCHANGED <<repoHead, asked, visits>> /\ SamePlan
    BY <1>2, OthersKeepThePlan
  <2>2. job'[Worker].pc \in {"sync", "index"} => job'[Worker].added = {}
    BY <2>1 DEF SamePlan, SpendInv, Planning
  <2>3. \A s \in Sha : AskedFor(s)' = AskedFor(s) /\ Owed(s)' \in {Owed(s), 0}
    BY <2>1 DEF AskedFor, Owed, SamePlan, Planning
  <2>4. \A s \in Sha : Cap * visits[s] \in Nat
    BY <1>0
  <2>5. \A s \in Sha : Cardinality(AskedFor(s)') + Owed(s)' <= Cap * visits'[s]
    BY <1>1, <2>1, <2>3, <2>4 DEF SpendInv
  <2> QED
    BY <1>1, <2>1, <2>2, <2>5 DEF SpendInv
<1>3. CASE Sync
  <2>1. w.pc = "sync" /\ job' = [job EXCEPT ![Worker] = [w EXCEPT !.pc = "index"]]
        /\ UNCHANGED <<repoHead, asked, visits>>
    BY <1>3 DEF Sync, Becomes, ghosts
  <2>2. job'[Worker] = [w EXCEPT !.pc = "index"]
    BY <1>0, <2>1 DEF TypeOK
  <2>3. job'[Worker].pc = "index" /\ job'[Worker].added = w.added
    BY <1>0, <2>2 DEF Job
  <2>4. \A s \in Sha : AskedFor(s)' = AskedFor(s) /\ Owed(s)' = Owed(s)
    BY <2>1, <2>3 DEF AskedFor, Owed
  <2> QED
    BY <1>1, <2>1, <2>3, <2>4 DEF SpendInv
<1>4. CASE Index
  <2>1. w.pc = "index" /\ repoHead' = clone /\ UNCHANGED asked
    BY <1>4 DEF Index
  <2>2. \A s \in Sha : AskedFor(s)' = AskedFor(s)
    BY <2>1 DEF AskedFor
  <2>3. w.added = {} /\ \A s \in Sha : Owed(s) = 0
    BY <2>1 DEF SpendInv, Owed
  <2>c. PICK c \in Sha : c = clone
    BY <1>0
  <2>4. CASE /\ Becomes(Worker, [w EXCEPT !.pc = "trigger",
                     !.added = IndexableAt(clone) \ Disk(repoHead)])
             /\ visits' = [visits EXCEPT ![clone] = @ + 1]
    <3>1. job'[Worker] = [w EXCEPT !.pc = "trigger",
                     !.added = IndexableAt(clone) \ Disk(repoHead)]
      BY <2>4, BecomesOther, <1>0
    <3>2. job'[Worker].pc = "trigger"
      BY <1>0, <3>1 DEF Job
    <3>3. \A s \in Sha : s # c => Owed(s)' = 0 /\ visits'[s] = visits[s]
      BY <1>0, <2>1, <2>4, <2>c DEF Owed
    <3>4. Owed(c)' \in {0, Cap} /\ visits'[c] = visits[c] + 1
      BY <1>0, <2>1, <2>4, <3>2, <2>c DEF Owed
    <3>5. Cap * (visits[c] + 1) = Cap * visits[c] + Cap
          /\ Cap * visits[c] \in Nat
      BY <1>0
    <3>6. Cardinality(AskedFor(c)') + Owed(c)' <= Cap * visits'[c]
      <4>1. Cardinality(AskedFor(c)) <= Cap * visits[c]
        BY <1>0, <1>1, <2>3 DEF SpendInv
      <4>2. Cardinality(AskedFor(c)) \in Nat /\ AskedFor(c)' = AskedFor(c)
        BY <1>0, <1>1, <2>2
      <4>3. Cap * visits'[c] = Cap * visits[c] + Cap
        BY <3>4, <3>5
      <4>4. Owed(c)' \in Nat /\ Owed(c)' <= Cap
        BY <1>0, <3>4
      <4> QED
        BY <1>0, <3>5, <4>1, <4>2, <4>3, <4>4
    <3>7. \A s \in Sha : Cardinality(AskedFor(s)') + Owed(s)' <= Cap * visits'[s]
      <4> SUFFICES ASSUME NEW s \in Sha
                   PROVE  Cardinality(AskedFor(s)') + Owed(s)' <= Cap * visits'[s]
        OBVIOUS
      <4>1. CASE s = c
        BY <3>6, <4>1
      <4>2. CASE s # c
        <5>1. Cardinality(AskedFor(s)) + 0 <= Cap * visits[s]
          BY <2>3 DEF SpendInv
        <5> QED
          BY <2>2, <3>3, <4>2, <5>1
      <4> QED
        BY <4>1, <4>2
    <3> QED
      BY <1>1, <2>1, <3>2, <3>7 DEF SpendInv
  <2>5. CASE Becomes(Worker, [w EXCEPT !.pc = "trigger"]) /\ UNCHANGED visits
    <3>1. job'[Worker] = [w EXCEPT !.pc = "trigger"]
      BY <2>5, BecomesOther, <1>0
    <3>2. job'[Worker].pc = "trigger" /\ job'[Worker].added = {}
      BY <1>0, <2>3, <3>1 DEF Job
    <3>3. \A s \in Sha : Owed(s)' = 0
      BY <3>2 DEF Owed
    <3> QED
      BY <1>1, <2>1, <2>2, <2>3, <2>5, <3>2, <3>3 DEF SpendInv
  <2> QED
    BY <1>4, <2>4, <2>5 DEF Index
<1>5. CASE Trigger
  <2> DEFINE candidates == {f \in w.added : ~HasExistingTests(f) /\ IsFeasible(f)}
             chosen == IF switches = Switches THEN Selected(candidates) ELSE <<>>
             j == [w EXCEPT !.pc = "enqueue", !.added = {}, !.chosen = chosen]
  <2>1. w.pc = "trigger" /\ Becomes(Worker, j) /\ UNCHANGED <<repoHead, asked, visits>>
    BY <1>5 DEF Trigger, local, ghosts
  <2>2. chosen \in Seq(File) /\ Len(chosen) \in 0..Cap
    BY SelectedIs, Zeros, <1>0
  <2>3. w.added = {} => Len(chosen) = 0
    <3>1. w.added = {} => candidates = {}
      OBVIOUS
    <3> QED
      BY <3>1, NothingSelected
  <2> HIDE DEF chosen
  <2>4. job'[Worker] = j
    BY <1>0, <2>1, BecomesOther
  <2>5. job'[Worker].pc = "enqueue" /\ job'[Worker].chosen = chosen
    BY <1>0, <2>4 DEF Job
  <2>6. \A s \in Sha : AskedFor(s)' = AskedFor(s) /\ Owed(s)' <= Owed(s)
    BY <1>0, <2>1, <2>2, <2>3, <2>5 DEF AskedFor, Owed
  <2>7. \A s \in Sha : Owed(s)' \in Nat
    BY <2>1, <2>2, <2>5 DEF Owed
  <2>8. \A s \in Sha : Cap * visits[s] \in Nat
    BY <1>0
  <2>9. \A s \in Sha : Cardinality(AskedFor(s)') + Owed(s)' <= Cap * visits'[s]
    BY <1>1, <2>1, <2>6, <2>7, <2>8 DEF SpendInv
  <2> QED
    BY <1>1, <2>1, <2>5, <2>9 DEF SpendInv
<1>6. CASE Enqueue
  <2> DEFINE j == [w EXCEPT !.chosen = Tail(@)]
             f == Head(w.chosen)
  <2>r. PICK r \in Sha : r = repoHead
    BY <1>0
  <2>1. w.pc = "enqueue" /\ w.chosen # <<>> /\ Becomes(Worker, j)
        /\ UNCHANGED <<repoHead, visits>>
    BY <1>6 DEF Enqueue, local
  <2>2. w.chosen \in Seq(File)
    BY <1>0 DEF Job
  <2>3. job'[Worker] = j
    BY <1>0, <2>1, BecomesOther
  <2>4. job'[Worker].pc = "enqueue" /\ job'[Worker].chosen = Tail(w.chosen)
    BY <1>0, <2>1, <2>3 DEF Job
  <2>5. Len(Tail(w.chosen)) = Len(w.chosen) - 1 /\ Len(w.chosen) \in Nat
    BY <2>1, <2>2
  <2>6. asked' \in {asked, asked \cup {<<f, r>>}}
    BY <1>6, <2>r DEF Enqueue
  <2> HIDE DEF f
  <2>7. IsFiniteSet(asked')
    <3>1. IsFiniteSet(asked \cup {<<f, r>>})
      BY <1>1, FS_AddElement
    <3> QED
      BY <1>1, <2>6, <3>1
  <2>8. Owed(r)' = Owed(r) - 1
    BY <2>1, <2>4, <2>5, <2>r DEF Owed
  <2>9. AskedFor(r)' \in {AskedFor(r), AskedFor(r) \cup {<<f, r>>}}
    <3> DEFINE x == <<f, r>>
    <3>1. x[2] = r
      OBVIOUS
    <3> HIDE DEF x
    <3>2. CASE asked' = asked \cup {x}
      <4>1. AskedFor(r)' = AskedFor(r) \cup {x}
        BY <3>1, <3>2 DEF AskedFor
      <4> QED
        BY <4>1 DEF x
    <3>3. CASE asked' = asked
      <4>1. AskedFor(r)' = AskedFor(r)
        BY <3>3 DEF AskedFor
      <4> QED
        BY <4>1
    <3>4. asked' = asked \/ asked' = asked \cup {x}
      BY <2>6 DEF x
    <3> QED
      BY <3>2, <3>3, <3>4
  <2>10. Cardinality(AskedFor(r)') <= Cardinality(AskedFor(r)) + 1
    <3>1. IsFiniteSet(AskedFor(r)) /\ Cardinality(AskedFor(r)) \in Nat
      BY <1>1, AskedIs
    <3> DEFINE x == <<f, r>>
               old == AskedFor(r)
    <3>2. Cardinality(old \cup {x})
          = IF x \in old THEN Cardinality(old) ELSE Cardinality(old) + 1
      BY <3>1, FS_AddElement
    <3>3. AskedFor(r)' \in {old, old \cup {x}}
      BY <2>9
    <3> HIDE DEF x, old
    <3>4. Cardinality(old) \in Nat
      BY <3>1 DEF old
    <3>5. CASE AskedFor(r)' = old
      BY <3>4, <3>5 DEF old
    <3>6. CASE AskedFor(r)' = old \cup {x}
      <4>1. Cardinality(AskedFor(r)') <= Cardinality(old) + 1
        BY <3>2, <3>4, <3>6
      <4> QED
        BY <4>1 DEF old
    <3> QED
      BY <3>3, <3>5, <3>6
  <2>11. \A s \in Sha : s # r => AskedFor(s)' = AskedFor(s) /\ Owed(s)' = 0 /\ Owed(s) = 0
    BY <2>1, <2>6, <2>r DEF AskedFor, Owed
  <2>12. Cardinality(AskedFor(r)') \in Nat /\ Owed(r)' \in Nat
         /\ Cap * visits[r] \in Nat
    <3>1. IsFiniteSet(AskedFor(r)')
      BY <2>7, FS_Subset DEF AskedFor
    <3>2. Owed(r) = Len(w.chosen) /\ Len(w.chosen) # 0
      BY <2>1, <2>2, <2>r DEF Owed
    <3>3. Len(w.chosen) - 1 \in Nat
      BY <2>5, <3>2
    <3> QED
      BY <1>0, <2>8, <3>1, <3>2, <3>3, FS_CardinalityType
  <2>13. \A s \in Sha : Cardinality(AskedFor(s)') + Owed(s)' <= Cap * visits'[s]
    <3> SUFFICES ASSUME NEW s \in Sha
                 PROVE  Cardinality(AskedFor(s)') + Owed(s)' <= Cap * visits'[s]
      OBVIOUS
    <3>1. CASE s # r
      BY <2>1, <2>11, <3>1 DEF SpendInv
    <3>2. CASE s = r
      <4>1. Cardinality(AskedFor(r)) + Owed(r) <= Cap * visits[r]
        BY <1>0 DEF SpendInv
      <4>2. Cardinality(AskedFor(r)) \in Nat /\ Owed(r) \in Nat
        BY <1>0, <1>1
      <4>3. Cardinality(AskedFor(r)') + Owed(r)' <= Cap * visits[r]
        BY <2>8, <2>10, <2>12, <4>1, <4>2
      <4> QED
        BY <2>1, <3>2, <4>3
    <3> QED
      BY <3>1, <3>2
  <2> QED
    BY <2>4, <2>7, <2>13 DEF SpendInv
<1>7. CASE ReindexEnds
  <2>1. Becomes(Worker, Idle) /\ UNCHANGED <<repoHead, asked, visits>>
    BY <1>7 DEF ReindexEnds, Ends, local, ghosts
  <2>2. job'[Worker].pc = "idle"
    BY <1>0, <2>1, BecomesOther DEF Idle
  <2>3. \A s \in Sha : AskedFor(s)' = AskedFor(s) /\ Owed(s)' = 0
    BY <2>1, <2>2 DEF AskedFor, Owed
  <2>4. \A s \in Sha : Cap * visits[s] \in Nat
    BY <1>0
  <2>5. \A s \in Sha : Cardinality(AskedFor(s)') + Owed(s)' <= Cap * visits'[s]
    BY <1>1, <2>1, <2>3, <2>4 DEF SpendInv
  <2> QED
    BY <1>1, <2>1, <2>2, <2>5 DEF SpendInv
<1> QED
  BY <1>2, <1>3, <1>4, <1>5, <1>6, <1>7 DEF Reindex

\* AUTO_TEST_GEN_MAX_PER_REINDEX bounds what a commit costs: whatever is
\* retried, redelivered or lost, the jobs enqueued for a commit are at most the
\* cap times the incremental runs that ended at it.  A retried reindex job finds
\* repos.head_sha where it left it and adds nothing.
THEOREM CapHolds == Spec => []SpendingIsCapped
<1>1. Init => SpendInv
  <2> SUFFICES ASSUME Init PROVE SpendInv
    OBVIOUS
  <2>1. asked = {} /\ visits = [s \in Sha |-> 0] /\ job[Worker] = Idle
    BY DEF Init, Process
  <2>2. \A s \in Sha : AskedFor(s) = {} /\ Owed(s) = 0 /\ visits[s] = 0
    BY <2>1 DEF AskedFor, Owed, Idle
  <2>3. IsFiniteSet(asked) /\ \A s \in Sha : Cardinality(AskedFor(s)) = 0
    BY <2>1, <2>2, FS_EmptySet
  <2>4. \A s \in Sha : Cardinality(AskedFor(s)) + Owed(s) <= Cap * visits[s]
    <3>1. Cap * 0 = 0
      BY TestGenAssumption
    <3> QED
      BY <2>2, <2>3, <3>1
  <2>5. job[Worker].added = {}
    BY <2>1 DEF Idle
  <2> QED
    BY <2>3, <2>4, <2>5 DEF SpendInv
<1>2. TypeOK /\ TypeOK' /\ SpendInv /\ [Next]_vars => SpendInv'
  BY SpendStep
<1>3. TypeOK /\ SpendInv => SpendingIsCapped
  <2> SUFFICES ASSUME TypeOK, SpendInv, NEW s \in Sha
               PROVE  Cardinality({a \in asked : a[2] = s}) <= Cap * visits[s]
    BY DEF SpendingIsCapped
  <2>1. Cardinality(AskedFor(s)) \in Nat /\ Owed(s) \in Nat
    BY AskedIs, OwedIs DEF SpendInv
  <2>2. Cap * visits[s] \in Nat
    BY TestGenAssumption DEF TypeOK
  <2>3. Cardinality(AskedFor(s)) <= Cap * visits[s]
    BY <2>1, <2>2 DEF SpendInv
  <2> QED
    BY <2>3 DEF AskedFor
<1> QED
  BY <1>1, <1>2, <1>3, TypesHold, PTL DEF Spec

-----------------------------------------------------------------------------
(* What a step may do to the queue, to the target of the worker's job and  *)
(* to the branches.                                                        *)

SameTarget ==
  \/ /\ job'[Worker].kind = job[Worker].kind /\ job'[Worker].file = job[Worker].file
     /\ job'[Worker].sha = job[Worker].sha
  \/ job'[Worker] = Idle

LEMMA TargetStays ==
  ASSUME TypeOK, [Next]_vars, ~Take
  PROVE  SameTarget
<1> DEFINE w == job[Worker]
<1>0. Worker \in Process /\ w \in Job /\ JobShape(Worker, w)
  BY JobOf DEF Process
<1>1. ASSUME NEW p \in Process, NEW j, Becomes(p, j), j.kind = job[p].kind,
             j.file = job[p].file, p = Worker => j.sha = w.sha
      PROVE  SameTarget
  BY <1>1, BecomesOther DEF SameTarget
<1>2. ASSUME NEW p \in Process, Becomes(p, Idle)
      PROVE  SameTarget
  BY <1>2, BecomesOther DEF SameTarget
<1>3. CASE Push \/ Quiet \/ UNCHANGED vars
  BY <1>3 DEF Push, Quiet, vars, SameTarget
<1>4. CASE Reindex
  <2>1. CASE ReindexEnds
    BY <1>0, <1>2, <2>1 DEF ReindexEnds, Ends
  <2>2. ASSUME NEW j, Becomes(Worker, j), j.kind = w.kind, j.file = w.file, j.sha = w.sha
        PROVE  SameTarget
    BY <1>0, <1>1, <2>2
  <2>3. CASE Sync
    <3> DEFINE j == [w EXCEPT !.pc = "index"]
    <3>1. Becomes(Worker, j) /\ j.kind = w.kind /\ j.file = w.file /\ j.sha = w.sha
      BY <1>0, <2>3 DEF Sync, Job
    <3> HIDE DEF j
    <3> QED
      BY <2>2, <3>1
  <2>4. CASE Index
    <3> DEFINE j == [w EXCEPT !.pc = "trigger", !.added = IndexableAt(clone) \ Disk(repoHead)]
               k == [w EXCEPT !.pc = "trigger"]
    <3>1. Becomes(Worker, j) \/ Becomes(Worker, k)
      BY <2>4 DEF Index
    <3>2. /\ j.kind = w.kind /\ j.file = w.file /\ j.sha = w.sha
          /\ k.kind = w.kind /\ k.file = w.file /\ k.sha = w.sha
      BY <1>0 DEF Job
    <3> HIDE DEF j, k
    <3> QED
      BY <2>2, <3>1, <3>2
  <2>5. CASE Trigger
    <3>1. PICK chosen :
            Becomes(Worker, [w EXCEPT !.pc = "enqueue", !.added = {}, !.chosen = chosen])
      BY <2>5 DEF Trigger
    <3> DEFINE j == [w EXCEPT !.pc = "enqueue", !.added = {}, !.chosen = chosen]
    <3>2. j.kind = w.kind /\ j.file = w.file /\ j.sha = w.sha
      BY <1>0 DEF Job
    <3> HIDE DEF j
    <3> QED
      BY <2>2, <3>1, <3>2 DEF j
  <2>6. CASE Enqueue
    <3>1. PICK chosen : Becomes(Worker, [w EXCEPT !.chosen = chosen])
      BY <2>6 DEF Enqueue
    <3> DEFINE j == [w EXCEPT !.chosen = chosen]
    <3>2. j.kind = w.kind /\ j.file = w.file /\ j.sha = w.sha
      BY <1>0 DEF Job
    <3> HIDE DEF j
    <3> QED
      BY <2>2, <3>1, <3>2 DEF j
  <2> QED
    BY <1>4, <2>1, <2>3, <2>4, <2>5, <2>6 DEF Reindex
<1>5. ASSUME NEW p \in Process, Generation(p)
      PROVE  SameTarget
  <2>1. CASE Becomes(p, Idle)
    BY <1>2, <2>1
  <2>2. CASE Prepared(p)
    <3>1. p = Worker => job[p].pc # "ref"
      <4>1. p = Worker /\ job[p].pc = "ref" => job[p].sha = None /\ job[p].sha \in Sha
        BY <1>0, InLater DEF Later, JobShape
      <4> QED
        BY <4>1, TestGenAssumption
    <3> QED
      BY <1>1, <2>2, <3>1 DEF Prepared
  <2> QED
    BY <1>5, <2>1, <2>2, GenerationMoves
<1>6. ASSUME NEW p \in Process, ChainStep(p)
      PROVE  SameTarget
  <2>1. CASE Commit(p)
    BY <1>2, <2>1 DEF Commit, Ends
  <2>2. CASE ~Commit(p)
    <3>1. Becomes(p, job'[p]) /\ job[p].kind = "generate"
      BY <1>6, <2>2, ChainMoves, ChainLater, InLater
    <3>2. /\ job'[p].kind = job[p].kind /\ job'[p].file = job[p].file
          /\ job'[p].sha = job[p].sha
      BY <1>6, <2>2, <3>1, ChainMoves DEF ChainStep, Moved, Told, Waiting
    <3> QED
      BY <1>1, <3>1, <3>2
  <2> QED
    BY <2>1, <2>2
<1>7. ASSUME NEW p \in Process, Tick(p)
      PROVE  SameTarget
  <2>1. Waiting(p)
    BY <1>7, SentWaits DEF Tick
  <2> QED
    BY <1>1, <2>1 DEF Waiting
<1>8. ASSUME NEW p \in Process, Crash(p)
      PROVE  SameTarget
  BY <1>2, <1>8 DEF Crash, Ends
<1>9. ASSUME NEW p \in Process, NEW f \in File, CliGenerates(p, f)
      PROVE  SameTarget
  <2>1. p # Worker /\ \E j : Becomes(p, j)
    BY <1>9, TestGenAssumption DEF CliGenerates
  <2> QED
    BY <2>1, BecomesOther DEF SameTarget
<1> QED
  BY <1>3, <1>4, <1>5, <1>6, <1>7, <1>8, <1>9 DEF Next

\* A generation job gets into the queue by Enqueue or by a retry.
LEMMA QueueGrows ==
  ASSUME TypeOK, [Next]_vars, ~Enqueue
  PROVE  \A q \in queue' \ queue :
           \/ q.kind = "reindex"
           \/ q.kind = job[Worker].kind /\ q.file = job[Worker].file /\ q.sha = job[Worker].sha
<1>1. CASE Push
  <2>0. PICK s \in Sha :
          \E e \in Enqueued("reindex", None, s) \cup {<<queue, "refused">>} : queue' = e[1]
    BY <1>1 DEF Push
  <2>1. PICK e \in Enqueued("reindex", None, s) \cup {<<queue, "refused">>} : queue' = e[1]
    BY <2>0
  <2>2. CASE e \in Enqueued("reindex", None, s)
    <3>1. e[1] \subseteq queue
             \cup {[kind |-> "reindex", file |-> None, sha |-> s, tries |-> 0]}
      BY <2>2, EnqueuedIs
    <3> QED
      BY <2>1, <3>1
  <2>3. CASE e = <<queue, "refused">>
    BY <2>1, <2>3
  <2> QED
    BY <2>2, <2>3
<1>2. CASE Take
  BY <1>2 DEF Take
<1>3. ASSUME NEW p \in Process, Crash(p)
      PROVE  queue' \subseteq queue \cup
               {[kind |-> job[Worker].kind, file |-> job[Worker].file,
                 sha |-> job[Worker].sha, tries |-> job[Worker].tries + 1]}
  BY <1>3 DEF Crash
<1>4. CASE UNCHANGED queue
  BY <1>4
<1>5. CASE Reindex
  BY <1>4, <1>5 DEF Reindex, Sync, Index, Trigger, ReindexEnds
<1>6. ASSUME NEW p \in Process,
             Generation(p) \/ ChainStep(p) \/ Tick(p) \/ \E f \in File : CliGenerates(p, f)
      PROVE  UNCHANGED queue
  BY <1>6 DEF Generation, ReadRow, GenerateNothing, Generate, ReadRef, ReadContents, Fails,
     ChainStep, Deduped, ShadowLogged, Downgraded, Authorize, Executed, Landed, Refused, Lost,
     Inserted, Commit, Tick, CliGenerates
<1> QED
  BY <1>1, <1>2, <1>3, <1>4, <1>5, <1>6 DEF Next, Quiet, vars

\* The branches change when GitHub takes a request.
LEMMA BranchesChange ==
  ASSUME TypeOK, [Next]_vars
  PROVE  \/ UNCHANGED <<branches, prs>>
         \/ \E p \in Process : /\ InChain(p) /\ job[p].sent # "no" /\ Entitled(p)
                               /\ Accepts(job[p]) /\ TakesEffect(p)
                               /\ Executed(p) \/ Lost(p)
<1>1. CASE Reindex
  BY <1>1 DEF Reindex, Sync, Index, Trigger, Enqueue, ReindexEnds, github
<1>2. CASE Push \/ Take \/ Quiet \/ UNCHANGED vars
  BY <1>2 DEF Push, Take, Quiet, vars, github
<1>3. ASSUME NEW p \in Process,
             Generation(p) \/ Tick(p) \/ Crash(p) \/ \E f \in File : CliGenerates(p, f)
      PROVE  UNCHANGED <<branches, prs>>
  BY <1>3 DEF Generation, ReadRow, GenerateNothing, Generate, ReadRef, ReadContents, Fails,
     Tick, CliGenerates, Crash, github
<1>4. ASSUME NEW p \in Process, ChainStep(p)
      PROVE  \/ UNCHANGED <<branches, prs>>
             \/ /\ InChain(p) /\ job[p].sent # "no" /\ Entitled(p)
                /\ Accepts(job[p]) /\ TakesEffect(p)
                /\ Executed(p) \/ Lost(p)
  <2>1. CASE Executed(p)
    BY <2>1 DEF Executed
  <2>2. CASE Lost(p)
    BY <2>2 DEF Lost
  <2>3. CASE Deduped(p) \/ ShadowLogged(p) \/ Downgraded(p) \/ Authorize(p) \/ Landed(p)
             \/ Refused(p) \/ Inserted(p) \/ Commit(p)
    BY <2>3 DEF Deduped, ShadowLogged, Downgraded, Authorize, Landed, Refused, Inserted, Commit,
                github
  <2> QED
    BY <1>4, <2>1, <2>2, <2>3 DEF ChainStep
<1> QED
  BY <1>1, <1>2, <1>3, <1>4 DEF Next
-----------------------------------------------------------------------------
(* What a step of a reindex job leaves of it.                              *)

Planned(pc, chosen) ==
  LET w == job[Worker]
      v == job'[Worker]
  IN /\ Becomes(Worker, v)
     /\ w.pc \in Planning
     /\ v.kind = "reindex" /\ v.file = w.file /\ v.sha = w.sha /\ v.pc = pc
     /\ v.chosen = chosen /\ v.rows = w.rows /\ v.made = w.made
     /\ v.existing = w.existing

Eligible(files) ==
  \A f \in files : f \in job[Worker].added /\ ~HasExistingTests(f) /\ IsFeasible(f)

LEMMA ReindexMoves ==
  ASSUME TypeOK, Reindex
  PROVE  /\ Sync => Planned("index", job[Worker].chosen)
         /\ Index => Planned("trigger", job[Worker].chosen)
         /\ Trigger => \E files : /\ Eligible(files)
                                  /\ Planned("enqueue", <<>>)
                                     \/ Planned("enqueue", Selected(files))
         /\ Enqueue => Planned("enqueue", Tail(job[Worker].chosen))
<1> DEFINE w == job[Worker]
<1>0. Worker \in Process /\ w \in Job /\ JobShape(Worker, w)
  BY JobOf DEF Process
<1>1. ASSUME NEW j, Becomes(Worker, j), j.kind = w.kind, j.file = w.file, j.sha = w.sha,
             j.rows = w.rows, j.made = w.made, j.existing = w.existing, NEW pc, j.pc = pc, NEW chosen,
             j.chosen = chosen, w.pc \in Planning
      PROVE  Planned(pc, chosen)
  <2>1. job'[Worker] = j
    BY <1>0, <1>1, BecomesOther
  <2>2. w.kind = "reindex"
    BY <1>0, <1>1 DEF JobShape, Planning
  <2> QED
    BY <1>1, <2>1, <2>2 DEF Planned
<1>2. ASSUME Sync
      PROVE  Planned("index", w.chosen)
  <2> DEFINE j == [w EXCEPT !.pc = "index"]
  <2>1. /\ j.kind = w.kind /\ j.file = w.file /\ j.sha = w.sha /\ j.rows = w.rows
        /\ j.made = w.made /\ j.existing = w.existing /\ j.pc = "index" /\ j.chosen = w.chosen
    BY <1>0 DEF Job
  <2>2. Becomes(Worker, j) /\ w.pc \in Planning
    BY <1>2 DEF Sync, Planning
  <2> HIDE DEF j
  <2> QED
    BY <1>1, <2>1, <2>2
<1>3. ASSUME Index
      PROVE  Planned("trigger", w.chosen)
  <2> DEFINE j == [w EXCEPT !.pc = "trigger", !.added = IndexableAt(clone) \ Disk(repoHead)]
             k == [w EXCEPT !.pc = "trigger"]
  <2>1. /\ j.kind = w.kind /\ j.file = w.file /\ j.sha = w.sha /\ j.rows = w.rows
        /\ j.made = w.made /\ j.existing = w.existing /\ j.pc = "trigger" /\ j.chosen = w.chosen
    BY <1>0 DEF Job
  <2>2. /\ k.kind = w.kind /\ k.file = w.file /\ k.sha = w.sha /\ k.rows = w.rows
        /\ k.made = w.made /\ k.existing = w.existing /\ k.pc = "trigger" /\ k.chosen = w.chosen
    BY <1>0 DEF Job
  <2>3. (Becomes(Worker, j) \/ Becomes(Worker, k)) /\ w.pc \in Planning
    BY <1>3 DEF Index, Planning
  <2> HIDE DEF j, k
  <2>4. CASE Becomes(Worker, j)
    BY <1>1, <2>1, <2>3, <2>4
  <2>5. CASE Becomes(Worker, k)
    BY <1>1, <2>2, <2>3, <2>5
  <2> QED
    BY <2>3, <2>4, <2>5
<1>4. ASSUME Trigger
      PROVE  \E files : /\ Eligible(files)
                        /\ Planned("enqueue", <<>>) \/ Planned("enqueue", Selected(files))
  <2> DEFINE files == {f \in w.added : ~HasExistingTests(f) /\ IsFeasible(f)}
             chosen == IF switches = Switches THEN Selected(files) ELSE <<>>
             j == [w EXCEPT !.pc = "enqueue", !.added = {}, !.chosen = chosen]
  <2>1. Becomes(Worker, j) /\ w.pc \in Planning
    BY <1>4 DEF Trigger, Planning
  <2>2. Eligible(files)
    BY DEF Eligible
  <2>3. chosen \in {<<>>, Selected(files)}
    OBVIOUS
  <2> HIDE DEF chosen
  <2>4. /\ j.kind = w.kind /\ j.file = w.file /\ j.sha = w.sha /\ j.rows = w.rows
        /\ j.made = w.made /\ j.existing = w.existing /\ j.pc = "enqueue" /\ j.chosen = chosen
    BY <1>0 DEF Job
  <2> HIDE DEF j
  <2>5. Planned("enqueue", chosen)
    BY <1>1, <2>1, <2>4
  <2> HIDE DEF files
  <2> QED
    BY <2>2, <2>3, <2>5
<1>5. ASSUME Enqueue
      PROVE  Planned("enqueue", Tail(w.chosen))
  <2> DEFINE j == [w EXCEPT !.chosen = Tail(w.chosen)]
  <2>1. w = [w EXCEPT !.chosen = w.chosen] /\ "chosen" \in DOMAIN w
    BY <1>0 DEF Job
  <2>2. Becomes(Worker, j) /\ w.pc \in Planning /\ w.pc = "enqueue"
    BY <1>5, <2>1 DEF Enqueue, Planning
  <2>3. /\ j.kind = w.kind /\ j.file = w.file /\ j.sha = w.sha /\ j.rows = w.rows
        /\ j.made = w.made /\ j.existing = w.existing /\ j.pc = "enqueue" /\ j.chosen = Tail(w.chosen)
    BY <1>0, <2>2 DEF Job
  <2> HIDE DEF j
  <2> QED
    BY <1>1, <2>2, <2>3
<1> QED
  BY <1>2, <1>3, <1>4, <1>5

-----------------------------------------------------------------------------
(* No file that somebody wrote is replaced.                                *)

\* Commit s has no file where a generated test of f goes.
Untested(f, s) == TestPath(f) \in File => TreeOf[s][TestPath(f)] = None

\* From Stage A on: the commit whose tree it looked at is the one that is
\* enqueued, so what it found missing is still missing there when a job of that
\* commit writes it, however late that is.
NewFilesInv ==
  /\ job[Worker].pc \in {"trigger", "enqueue"} => repoHead = clone
  /\ job[Worker].pc = "enqueue" =>
       \A f \in ToSet(job[Worker].chosen) : Untested(f, repoHead)
  /\ \A q \in queue : q.kind = "generate" => Untested(q.file, q.sha)
  /\ job[Worker].kind = "generate" => Untested(job[Worker].file, job[Worker].sha)

LEMMA StageALooks ==
  ASSUME NEW f, ~HasExistingTests(f)
  PROVE  Untested(f, clone)
<1> SUFFICES ASSUME TestPath(f) \in File, TreeOf[clone][TestPath(f)] # None
             PROVE  FALSE
  BY DEF Untested
<1>1. TestPath(f) \in Disk(clone)
  BY DEF Disk
<1>2. /\ TestPath(f).dir = <<"tests">> /\ TestPath(f).stem = "test_" \o f.stem
      /\ TestPath(f).suffix = "py"
  BY DEF TestPath, Path
<1>3. ToSet(<<"tests">>) = {"tests"}
  BY DEF ToSet
<1>4. NamedLikeTestOf(f, TestPath(f))
  BY <1>2, <1>3, TestGenAssumption DEF NamedLikeTestOf
<1> QED
  BY <1>1, <1>4 DEF HasExistingTests

\* The first file of the loop and the files after it.
LEMMA HeadTail ==
  ASSUME NEW s \in Seq(File), s # <<>>
  PROVE  Head(s) \in ToSet(s) /\ ToSet(Tail(s)) \subseteq ToSet(s) /\ Tail(s) \in Seq(File)
         /\ Len(Tail(s)) = Len(s) - 1
<1>1. Len(s) \in Nat /\ Len(s) # 0 /\ DOMAIN s = 1..Len(s)
  OBVIOUS
<1>2. Head(s) = s[1] /\ 1 \in DOMAIN s
  BY <1>1
<1>3. /\ Tail(s) \in Seq(File) /\ Len(Tail(s)) = Len(s) - 1
      /\ \A i \in 1..(Len(s) - 1) : Tail(s)[i] = s[i + 1]
  BY <1>1
<1>4. \A i \in DOMAIN Tail(s) : Tail(s)[i] = s[i + 1] /\ i + 1 \in DOMAIN s
  BY <1>1, <1>3
<1> QED
  BY <1>2, <1>3, <1>4 DEF ToSet

LEMMA NewFilesStep ==
  ASSUME TypeOK, TypeOK', NewFilesInv, [Next]_vars
  PROVE  NewFilesInv'
<1> DEFINE w == job[Worker]
           v == job'[Worker]
<1>0. Worker \in Process /\ w \in Job /\ v \in Job /\ JobShape(Worker, v)
  <2>1. Worker \in Process
    BY DEF Process
  <2> QED
    BY <2>1 DEF TypeOK
<1>1. ~Take => (v.kind = "generate" => Untested(v.file, v.sha))
  <2>1. Idle.kind = "none"
    BY DEF Idle
  <2> QED
    BY <2>1, TargetStays DEF SameTarget, NewFilesInv
<1>2. ~Enqueue => \A q \in queue' : q.kind = "generate" => Untested(q.file, q.sha)
  BY QueueGrows DEF NewFilesInv
<1>3. CASE ~Reindex
  <2>1. /\ v.pc \in {"trigger", "enqueue"} => repoHead' = clone'
        /\ v.pc = "enqueue" => \A f \in ToSet(v.chosen) : Untested(f, repoHead')
    BY <1>3, OthersKeepThePlan DEF SamePlan, Planning, NewFilesInv
  <2>2. Take => (v.kind = "generate" => Untested(v.file, v.sha))
    <3> SUFFICES ASSUME Take PROVE v.kind = "generate" => Untested(v.file, v.sha)
      OBVIOUS
    <3>1. PICK q \in queue :
            Becomes(Worker, [Idle EXCEPT !.kind = q.kind, !.file = q.file, !.sha = q.sha,
              !.tries = q.tries, !.pc = IF q.kind = "reindex" THEN "sync" ELSE "generate"])
      BY DEF Take
    <3> DEFINE j == [Idle EXCEPT !.kind = q.kind, !.file = q.file, !.sha = q.sha,
              !.tries = q.tries, !.pc = IF q.kind = "reindex" THEN "sync" ELSE "generate"]
    <3>2. j.kind = q.kind /\ j.file = q.file /\ j.sha = q.sha
      BY DEF Idle
    <3>3. v = j
      BY <1>0, <3>1, BecomesOther
    <3> HIDE DEF j
    <3> QED
      BY <3>2, <3>3 DEF NewFilesInv
  <2>3. \A q \in queue' : q.kind = "generate" => Untested(q.file, q.sha)
    BY <1>2, <1>3 DEF Reindex
  <2> QED
    BY <1>1, <2>1, <2>2, <2>3 DEF NewFilesInv, Untested
<1>4. ASSUME Reindex, w.pc \in Planning
      PROVE  v.kind = "generate" => Untested(v.file, v.sha)
  <2>1. ~Take
    <3>1. Idle.pc = "idle"
      BY DEF Idle
    <3> QED
      BY <1>4, <3>1 DEF Take, Planning
  <2> QED
    BY <1>1, <2>1
<1>5. CASE Sync
  <2>1. v.pc = "index"
    BY <1>5, ReindexMoves DEF Planned, Reindex
  <2> QED
    BY <1>2, <1>4, <1>5, <2>1 DEF NewFilesInv, Untested, Sync, Enqueue, Reindex, Planning
<1>6. CASE Index
  <2>1. v.pc = "trigger" /\ repoHead' = clone' /\ ~Enqueue
    BY <1>6, ReindexMoves DEF Planned, Reindex, Index, Enqueue
  <2> QED
    BY <1>2, <1>4, <1>6, <2>1 DEF NewFilesInv, Untested, Index, Reindex, Planning
<1>7. CASE Trigger
  <2>1. PICK files : /\ Eligible(files)
                     /\ Planned("enqueue", <<>>) \/ Planned("enqueue", Selected(files))
    BY <1>7, ReindexMoves DEF Reindex
  <2>2. w.pc = "trigger" /\ ~Enqueue /\ UNCHANGED <<repoHead, clone>>
    BY <1>7 DEF Trigger, Enqueue, local
  <2>3. repoHead = clone
    BY <2>2 DEF NewFilesInv
  <2>4. v.pc = "enqueue" /\ (v.chosen = <<>> \/ v.chosen = Selected(files))
    BY <2>1 DEF Planned
  <2>5. \A f \in ToSet(v.chosen) : Untested(f, clone)
    <3>1. ToSet(<<>>) = {}
      BY DEF ToSet
    <3>2. ToSet(Selected(files)) \subseteq files
      BY SelectedIs
    <3> QED
      BY <2>1, <2>4, <3>1, <3>2, StageALooks DEF Eligible
  <2> QED
    BY <1>2, <1>4, <1>7, <2>2, <2>3, <2>4, <2>5
    DEF NewFilesInv, Untested, Reindex, Planning
<1>8. CASE Enqueue
  <2> DEFINE f == Head(w.chosen)
             q == [kind |-> "generate", file |-> f, sha |-> repoHead, tries |-> 0]
  <2>1. /\ w.pc = "enqueue" /\ w.chosen # <<>> /\ UNCHANGED <<repoHead, clone>>
        /\ UNCHANGED queue \/ \E e \in Enqueued("generate", f, repoHead) : queue' = e[1]
    BY <1>8 DEF Enqueue, local
  <2>2. queue' \subseteq queue \cup {q}
    BY <2>1, EnqueuedIs
  <2>3. /\ f \in ToSet(w.chosen) /\ ToSet(Tail(w.chosen)) \subseteq ToSet(w.chosen)
    BY <1>0, <2>1, HeadTail DEF Job
  <2>4. v.pc = "enqueue" /\ v.chosen = Tail(w.chosen)
    BY <1>8, ReindexMoves DEF Planned, Reindex
  <2>5. q.file = f /\ q.sha = repoHead
    OBVIOUS
  <2>6. Untested(f, repoHead)
    BY <2>1, <2>3 DEF NewFilesInv
  <2> HIDE DEF q, f
  <2>7. \A e \in queue' : e.kind = "generate" => Untested(e.file, e.sha)
    BY <2>2, <2>5, <2>6 DEF NewFilesInv
  <2> QED
    BY <1>4, <1>8, <2>1, <2>3, <2>4, <2>7 DEF NewFilesInv, Untested, Reindex, Planning
<1>9. CASE ReindexEnds
  <2>1. v = Idle /\ ~Enqueue
    BY <1>0, <1>9, BecomesOther DEF ReindexEnds, Ends, Enqueue
  <2>2. v.pc = "idle" /\ v.kind = "none"
    BY <2>1 DEF Idle
  <2> QED
    BY <1>2, <2>1, <2>2 DEF NewFilesInv, Untested
<1> QED
  BY <1>3, <1>5, <1>6, <1>7, <1>8, <1>9 DEF Reindex

\* What is written where: a write of a process's job goes to its own path on the
\* branch of its file and its base commit.
LEMMA WrittenOrThere ==
  ASSUME TypeOK, [Next]_vars, NEW b \in DOMAIN branches', NEW q \in DOMAIN branches'[b].files
  PROVE  \/ /\ b \in DOMAIN branches /\ q \in DOMAIN branches[b].files
            /\ branches'[b].files[q] = branches[b].files[q]
            /\ branches'[b].base = branches[b].base
         \/ \E p \in Process :
              /\ InChain(p) /\ job[p].pc = "write" /\ b \in DOMAIN branches
              /\ b = BranchOf(job[p].file, job[p].sha) /\ q = TestPath(job[p].file)
              /\ branches'[b].files[q] = [text |-> job[p].text, at |-> job[p].at, by |-> p]
              /\ branches'[b].base = branches[b].base
<1>1. CASE UNCHANGED <<branches, prs>>
  BY <1>1
<1>2. ASSUME NEW p \in Process, InChain(p), Accepts(job[p]), TakesEffect(p)
      PROVE  \/ /\ b \in DOMAIN branches /\ q \in DOMAIN branches[b].files
                /\ branches'[b].files[q] = branches[b].files[q]
                /\ branches'[b].base = branches[b].base
             \/ /\ job[p].pc = "write" /\ b \in DOMAIN branches
                /\ b = BranchOf(job[p].file, job[p].sha) /\ q = TestPath(job[p].file)
                /\ branches'[b].files[q] = [text |-> job[p].text, at |-> job[p].at, by |-> p]
                /\ branches'[b].base = branches[b].base
  <2> DEFINE j == job[p]
             c == BranchOf(j.file, j.sha)
             new == [base |-> j.sha, by |-> p, for |-> j.file, files |-> <<>>]
             path == TestPath(j.file)
             written == [text |-> j.text, at |-> j.at, by |-> p]
  <2>1. j.pc \in {"create", "write", "open"}
    BY <1>2, ChainLater
  <2>2. CASE j.pc = "create"
    <3>1. branches' = [x \in DOMAIN branches \cup {c} |-> IF x = c THEN new ELSE branches[x]]
          /\ c \notin DOMAIN branches
      BY <1>2, <2>2 DEF TakesEffect, Accepts
    <3>2. new.files = <<>> /\ DOMAIN <<>> = {}
      OBVIOUS
    <3> HIDE DEF new, c
    <3>3. b # c
      BY <3>1, <3>2
    <3> QED
      BY <3>1, <3>3
  <2>3. CASE j.pc = "write"
    <3>1. /\ c \in DOMAIN branches
          /\ branches' = [branches EXCEPT ![c].files =
                           [x \in DOMAIN @ \cup {path} |-> IF x = path THEN written ELSE @[x]]]
      BY <1>2, <2>3 DEF TakesEffect, Accepts
    <3>2. BranchShape(c) /\ branches = [x \in DOMAIN branches |-> branches[x]]
      BY <3>1 DEF TypeOK
    <3> DEFINE old == branches[c].files
               files == [x \in DOMAIN old \cup {path} |-> IF x = path THEN written ELSE old[x]]
    <3>3. branches' = [branches EXCEPT ![c].files = files]
      BY <3>1
    <3> HIDE DEF files
    <3>4. branches[c] \in [base : Sha, by : Process, for : File, files : {old}]
      BY <3>2 DEF BranchShape
    <3>5. /\ DOMAIN branches' = DOMAIN branches
          /\ \A x \in DOMAIN branches : x # c => branches'[x] = branches[x]
          /\ branches'[c] = [branches[c] EXCEPT !.files = files]
      BY <3>1, <3>2, <3>3
    <3>6. branches'[c].files = files /\ branches'[c].base = branches[c].base
      BY <3>4, <3>5
    <3>7. CASE b # c
      BY <3>5, <3>7
    <3>8. CASE b = c /\ q # path
      BY <3>1, <3>6, <3>8 DEF files
    <3>9. CASE b = c /\ q = path
      <4>1. branches'[b].files[q] = written
        BY <3>6, <3>9 DEF files
      <4> QED
        BY <2>3, <3>1, <3>6, <3>9, <4>1
    <3> QED
      BY <3>7, <3>8, <3>9
  <2>4. CASE j.pc = "open"
    <3>1. branches' = branches
      BY <1>2, <2>4 DEF TakesEffect
    <3> QED
      BY <3>1
  <2> QED
    BY <2>1, <2>2, <2>3, <2>4
<1> QED
  BY <1>1, <1>2, BranchesChange

LEMMA ReplacementStep ==
  ASSUME TypeOK, NewFilesInv, NothingIsReplaced, [Next]_vars
  PROVE  NothingIsReplaced'
<1> SUFFICES ASSUME NEW b \in DOMAIN branches', NEW q \in DOMAIN branches'[b].files,
                    branches'[b].files[q].by = Worker, q \in File
             PROVE  TreeOf[branches'[b].base][q] = None
  BY DEF NothingIsReplaced
<1>1. CASE /\ b \in DOMAIN branches /\ q \in DOMAIN branches[b].files
           /\ branches'[b].files[q] = branches[b].files[q]
           /\ branches'[b].base = branches[b].base
  BY <1>1 DEF NothingIsReplaced
<1>2. ASSUME NEW p \in Process,
             /\ InChain(p) /\ job[p].pc = "write" /\ b \in DOMAIN branches
             /\ b = BranchOf(job[p].file, job[p].sha) /\ q = TestPath(job[p].file)
             /\ branches'[b].files[q] = [text |-> job[p].text, at |-> job[p].at, by |-> p]
             /\ branches'[b].base = branches[b].base
      PROVE  TreeOf[branches'[b].base][q] = None
  <2>1. p = Worker
    BY <1>2
  <2>2. branches[b].base = job[p].sha
    <3>1. BranchShape(b)
      BY <1>2 DEF TypeOK
    <3> QED
      BY <1>2, <3>1 DEF BranchShape, BranchOf
  <2>3. job[p].kind = "generate"
    BY <1>2, ChainLater, InLater
  <2> QED
    BY <1>2, <2>1, <2>2, <2>3 DEF NewFilesInv, Untested
<1> QED
  BY <1>1, <1>2, WrittenOrThere

\* What a triggered job writes is new in its base commit: between Stage A and
\* the request lie a queue, retries, other pushes and a second process, and the
\* branch may have been made for another file with the same slug.
THEOREM NothingGetsReplaced == Spec => []NothingIsReplaced
<1> DEFINE Inv == NewFilesInv /\ NothingIsReplaced
<1>1. Init => Inv
  <2> SUFFICES ASSUME Init PROVE Inv
    OBVIOUS
  <2>1. job[Worker] = Idle /\ queue = {} /\ DOMAIN branches = {}
    BY DEF Init, Process
  <2>2. NewFilesInv
    BY <2>1 DEF NewFilesInv, Idle
  <2>3. NothingIsReplaced
    BY <2>1 DEF NothingIsReplaced
  <2> QED
    BY <2>2, <2>3
<1>2. TypeOK /\ TypeOK' /\ Inv /\ [Next]_vars => Inv'
  BY NewFilesStep, ReplacementStep
<1>3. Inv => NothingIsReplaced
  OBVIOUS
<1> QED
  BY <1>1, <1>2, <1>3, TypesHold, PTL DEF Spec
=============================================================================
