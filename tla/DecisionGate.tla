---------------------------- MODULE DecisionGate ----------------------------
(***************************************************************************)
(* The write path of GITA: execute_decision (agents/decisions.py), the     *)
(* agent_actions round trip behind it (agents/dedupe.py) and the three     *)
(* callers that drive it: a single comment (run_pr_review_job,             *)
(* run_onboarding_job, _run_post_flow), a batch of create_issue decisions  *)
(* (_run_create_issues_flow) and the test-generator chain                  *)
(* (_execute_decision_chain).                                              *)
(*                                                                         *)
(* A process is the ARQ worker or one CLI invocation.  It runs one job at  *)
(* a time; a job is a list of decisions routed through the gate inside one *)
(* database session that is committed once, after the last decision.  Each *)
(* await of the code (the SELECT of the pre-gate, the GitHub request, the  *)
(* INSERT, the COMMIT) is a step of its own.                               *)
(***************************************************************************)
EXTENDS Naturals, Sequences, FiniteSets

CONSTANTS
  Proc,       \* the ARQ worker and the CLI processes
  Jobs,       \* what the processes may be asked to run
  Issue,      \* issue and pull-request numbers
  Branch,     \* branch names; compute_branch_name makes one per (file, base)
  Text,       \* bodies, citation lists, file contents
  BodyHead,   \* a body |-> its first _BODY_CAP_CHARS characters
  Faults,     \* which failures of the environment may happen
  MaxRuns,    \* bound: how many jobs are started in all
  None        \* an absent issue, branch, text or table row

-----------------------------------------------------------------------------
(* Decisions, thresholds and signatures.                                   *)

WriteMode == {"shadow", "comment", "full"}

Action == {"comment", "label", "edit_issue", "create_issue", "close_issue",
           "create_branch", "update_file", "open_pr",
           "add_label", "remove_label"}

Outcome == {"executed", "shadow_logged", "downgraded_low_confidence",
            "downgraded_write_mode", "rejected_no_client", "error", "deduped"}

\* DEFAULT_THRESHOLDS, in hundredths.
Threshold == [comment |-> 30, label |-> 50, edit_issue |-> 75,
              create_issue |-> 70, close_issue |-> 80, create_branch |-> 90,
              update_file |-> 90, open_pr |-> 90]

COMMENT_ACTIONS == {"comment"}

\* Mutant of PROGRESS_OUTCOMES: a failed call does not stop the chain.
PROGRESS_OUTCOMES_WithError == {"executed", "shadow_logged", "deduped", "error"}

\* Only these outcomes let a chain go on to its next decision.
PROGRESS_OUTCOMES == {"executed", "shadow_logged", "deduped"}

NO_RECORD_OUTCOMES == {"error", "rejected_no_client", "deduped"}

\* Actions compute_signature has a shape for; the others raise ValueError.
SignatureShapes == Action \ {"label"}

\* Actions GithubClient.execute dispatches; the others raise.
ClientActions == Action \ {"label"}

IssueActions == {"comment", "close_issue", "edit_issue", "add_label",
                 "remove_label"}

CodeActions == {"create_branch", "update_file", "open_pr"}

Decision ==
  [action : Action, issue : Issue \cup {None}, fallback : Issue \cup {None},
   branch : Branch \cup {None}, text : Text, confidence : 0..100]

\* stop: the caller breaks out of its loop on the first outcome without
\* progress; client: it hands an ActionClient to execute_decision.
Job == [decs : Seq(Decision), stop : BOOLEAN, mode : WriteMode,
        client : BOOLEAN]

\* compute_signature: the fields that make two decisions the same one.
Identity(d) ==
  [action |-> d.action,
   issue  |-> IF d.action \in IssueActions THEN d.issue ELSE None,
   branch |-> IF d.action \in CodeActions THEN d.branch ELSE None,
   text   |-> IF d.action \in {"comment", "edit_issue"} THEN BodyHead[d.text]
              ELSE IF d.action \in {"close_issue", "create_branch", "open_pr"}
                   THEN None ELSE d.text]

Keys == UNION {{Identity(j.decs[i]) : i \in DOMAIN j.decs} : j \in Jobs}

\* An agent_actions row.  The table has no mode column: the mode of the run
\* that wrote the row is kept here so that properties can speak of it.
Row == [outcome : Outcome, mode : WriteMode]

FaultKinds == {"crash", "http_failure", "reply_lost"}

ASSUME JobsAssumption ==
  /\ Jobs # {}
  /\ Jobs \subseteq Job
  /\ \A j \in Jobs : j.decs # << >>
ASSUME TextAssumption == BodyHead \in [Text -> Text]
ASSUME FaultsAssumption == Faults \subseteq FaultKinds
ASSUME MaxRunsAssumption == MaxRuns \in Nat
ASSUME NoneAssumption == None \notin Issue \cup Branch \cup Text \cup Row

-----------------------------------------------------------------------------
VARIABLES
  rows,       \* agent_actions: the committed row of each key, or None
  open,       \* open[p]: rows flushed by p's session and not yet committed
  pc, job, at,
  result,     \* result[p]: the outcome of p's current decision
  executed,   \* executed[p]: the client call of that decision returned
  refs, files, pulls,  \* GitHub: branches made, written to, with a PR
  asked,      \* asked[k]: how often the decision k itself took effect
  notes,      \* notes[k]: how often a downgrade comment for k was posted
  forgotten,  \* forgotten[k]: effects of k that no row will ever record
  runs        \* jobs started so far

github == <<refs, files, pulls, asked, notes>>
table == <<rows, open>>
vars == <<table, pc, job, at, result, executed, github, forgotten, runs>>

PC == {"idle", "gate", "exec", "record", "next", "done", "raised", "crashed"}
Ended == {"idle", "done", "raised", "crashed"}

EmptySession == [k \in Keys |-> None]

TypeOK ==
  /\ rows \in [Keys -> Row \cup {None}]
  /\ open \in [Proc -> [Keys -> Row \cup {None}]]
  /\ pc \in [Proc -> PC]
  /\ job \in [Proc -> Jobs]
  /\ at \in [Proc -> Nat \ {0}]
  /\ \A p \in Proc : at[p] \in DOMAIN job[p].decs
  /\ result \in [Proc -> Outcome]
  /\ executed \in [Proc -> BOOLEAN]
  /\ refs \subseteq Branch \cup {None}
  /\ files \subseteq Branch \cup {None}
  /\ pulls \subseteq Branch \cup {None}
  /\ asked \in [Keys -> Nat]
  /\ notes \in [Keys -> Nat]
  /\ forgotten \in [Keys -> Nat]
  /\ runs \in 0..MaxRuns

Init ==
  /\ rows = EmptySession
  /\ open = [p \in Proc |-> EmptySession]
  /\ pc = [p \in Proc |-> "idle"]
  /\ job = [p \in Proc |-> CHOOSE j \in Jobs : TRUE]
  /\ at = [p \in Proc |-> 1]
  /\ result = [p \in Proc |-> "error"]
  /\ executed = [p \in Proc |-> FALSE]
  /\ refs = {} /\ files = {} /\ pulls = {}
  /\ asked = [k \in Keys |-> 0]
  /\ notes = [k \in Keys |-> 0]
  /\ forgotten = [k \in Keys |-> 0]
  /\ runs = 0

-----------------------------------------------------------------------------
(* Views of a process.                                                     *)

Dec(p) == job[p].decs[at[p]]
Key(p) == Identity(Dec(p))
Mode(p) == job[p].mode

\* Mutant of Visible: only rows of the current session are looked up.
VisibleInSession(p, k) == open[p][k] # None

\* READ COMMITTED: a session sees committed rows and its own flushed ones.
Visible(p, k) == rows[k] # None \/ open[p][k] # None

\* Mutant of Route: the confidence gate is left out.
RouteByModeOnly(p) ==
  IF Mode(p) = "comment" /\ Dec(p).action \notin COMMENT_ACTIONS
  THEN "write_mode" ELSE "as_requested"

\* Where execute_decision sends a decision that passed the pre-gate.
Route(p) ==
  IF Dec(p).confidence < Threshold[Dec(p).action] THEN "low_confidence"
  ELSE IF Mode(p) = "comment" /\ Dec(p).action \notin COMMENT_ACTIONS
       THEN "write_mode"
       ELSE "as_requested"

\* The issue a downgrade comment is posted to.
LandingIssue(d) == IF d.issue # None THEN d.issue ELSE d.fallback

\* What GitHub answers to the request a decision makes, given its state.
GithubAccepts(d) ==
  CASE d.action = "create_branch" -> d.branch \notin refs
    [] d.action = "update_file"   -> d.branch \in refs /\ d.branch \notin files
    [] d.action = "open_pr"       -> d.branch \in files /\ d.branch \notin pulls
    [] OTHER                      -> TRUE

\* GithubClient.execute gets as far as a successful response.
CallSucceeds(p) ==
  IF Route(p) = "as_requested"
  THEN /\ Dec(p).action \in ClientActions
       /\ Dec(p).action \in IssueActions => Dec(p).issue # None
       /\ GithubAccepts(Dec(p))
  ELSE LandingIssue(Dec(p)) # None

\* The effect of the request on GitHub.
TakeEffect(p) ==
  LET d == Dec(p)
      requested == Route(p) = "as_requested"
      on(a) == IF requested /\ d.action = a THEN {d.branch} ELSE {}
  IN /\ refs' = refs \cup on("create_branch")
     /\ files' = files \cup on("update_file")
     /\ pulls' = pulls \cup on("open_pr")
     /\ asked' = IF requested THEN [asked EXCEPT ![Key(p)] = @ + 1] ELSE asked
     /\ notes' = IF requested THEN notes ELSE [notes EXCEPT ![Key(p)] = @ + 1]

\* The outcome execute_decision reports once the client call is over.
OutcomeOf(p, ok) ==
  CASE Route(p) = "low_confidence" -> "downgraded_low_confidence"
    [] Route(p) = "write_mode"     -> "downgraded_write_mode"
    [] OTHER -> IF ok THEN "executed"
                ELSE IF Mode(p) = "shadow" THEN "shadow_logged"
                ELSE IF ~job[p].client THEN "rejected_no_client"
                ELSE "error"

ToRecord(p, ok) ==
  /\ result' = [result EXCEPT ![p] = OutcomeOf(p, ok)]
  /\ executed' = [executed EXCEPT ![p] = ok]
  /\ pc' = [pc EXCEPT ![p] = "record"]

ToNext(p, outcome) ==
  /\ result' = [result EXCEPT ![p] = outcome]
  /\ pc' = [pc EXCEPT ![p] = "next"]

\* Effects of p that disappear from the books when its session is rolled back.
LostWith(p, k) ==
  (IF open[p][k] # None /\ Mode(p) # "shadow" THEN 1 ELSE 0)
  + (IF pc[p] = "record" /\ executed[p] /\ Key(p) = k THEN 1 ELSE 0)

\* The session is rolled back, or the connection is dropped with it.
Rollback(p) ==
  /\ open' = [open EXCEPT ![p] = EmptySession]
  /\ forgotten' = [k \in Keys |-> forgotten[k] + LostWith(p, k)]
  /\ UNCHANGED rows

-----------------------------------------------------------------------------
(* Jobs.                                                                   *)

Start(p) ==
  /\ pc[p] \in Ended
  /\ runs < MaxRuns
  /\ \E j \in Jobs : job' = [job EXCEPT ![p] = j]
  /\ at' = [at EXCEPT ![p] = 1]
  /\ pc' = [pc EXCEPT ![p] = "gate"]
  /\ runs' = runs + 1
  /\ UNCHANGED <<table, result, executed, github, forgotten>>

\* An exception leaves execute_decision: the session closes uncommitted.
Raise(p) ==
  /\ pc' = [pc EXCEPT ![p] = "raised"]
  /\ Rollback(p)
  /\ UNCHANGED <<job, at, result, executed, github, runs>>

(* execute_decision, steps 0 to 2.                                         *)

\* get_threshold: KeyError for an action nobody configured.
UnknownAction(p) ==
  /\ pc[p] = "gate"
  /\ Dec(p).action \notin DOMAIN Threshold
  /\ Raise(p)

\* _dedupe_pregate finds a row: nothing is called, nothing is recorded.
PregateHit(p) ==
  /\ pc[p] = "gate"
  /\ Dec(p).action \in DOMAIN Threshold \cap SignatureShapes
  /\ Visible(p, Key(p))
  /\ ToNext(p, "deduped")
  /\ UNCHANGED <<table, job, at, executed, github, forgotten, runs>>

\* No row, or no signature to look one up with (the ValueError is swallowed).
PregateMiss(p) ==
  /\ pc[p] = "gate"
  /\ Dec(p).action \in DOMAIN Threshold
  /\ Dec(p).action \in SignatureShapes => ~Visible(p, Key(p))
  /\ pc' = [pc EXCEPT ![p] = "exec"]
  /\ UNCHANGED <<table, job, at, result, executed, github, forgotten, runs>>

(* execute_decision, steps 3 to 5: _execute_side_effect.                   *)

ExecuteShadow(p) ==
  /\ pc[p] = "exec"
  /\ Mode(p) = "shadow"
  /\ ToRecord(p, FALSE)
  /\ UNCHANGED <<table, job, at, github, forgotten, runs>>

Calling(p) == pc[p] = "exec" /\ Mode(p) # "shadow" /\ job[p].client

ExecuteNoClient(p) ==
  /\ pc[p] = "exec"
  /\ Mode(p) # "shadow"
  /\ ~job[p].client
  /\ ToRecord(p, FALSE)
  /\ UNCHANGED <<table, job, at, github, forgotten, runs>>

ExecuteLands(p) ==
  /\ Calling(p)
  /\ CallSucceeds(p)
  /\ TakeEffect(p)
  /\ ToRecord(p, TRUE)
  /\ UNCHANGED <<table, job, at, forgotten, runs>>

\* The client raises before anything changed on GitHub: its own validation,
\* a 4xx answer, or a request that never arrived.
ExecuteFails(p) ==
  /\ Calling(p)
  /\ ~CallSucceeds(p) \/ "http_failure" \in Faults
  /\ ToRecord(p, FALSE)
  /\ UNCHANGED <<table, job, at, github, forgotten, runs>>

\* The request takes effect and the answer never arrives (30 s timeout).
ExecuteReplyLost(p) ==
  /\ Calling(p)
  /\ CallSucceeds(p)
  /\ "reply_lost" \in Faults
  /\ TakeEffect(p)
  /\ ToRecord(p, FALSE)
  /\ forgotten' = [forgotten EXCEPT ![Key(p)] = @ + 1]
  /\ UNCHANGED <<table, job, at, runs>>

(* _record_and_finalize.                                                   *)

\* Mutant of ShouldRecord: downgraded decisions leave no row.
ShouldRecordRequested(p) ==
  /\ result[p] \in {"executed", "shadow_logged"}
  /\ Mode(p) = "shadow" \/ executed[p]

\* Mutant of ShouldRecord: whether the call returned is not looked at.
ShouldRecordAlways(p) == result[p] \notin NO_RECORD_OUTCOMES

ShouldRecord(p) ==
  /\ result[p] \notin NO_RECORD_OUTCOMES
  /\ Mode(p) = "shadow" \/ executed[p]

RecordSkipped(p) ==
  /\ pc[p] = "record"
  /\ ~ShouldRecord(p)
  /\ ToNext(p, result[p])
  /\ UNCHANGED <<table, job, at, executed, github, forgotten, runs>>

\* record_action computes the signature again; here the ValueError escapes.
RecordRaises(p) ==
  /\ pc[p] = "record"
  /\ ShouldRecord(p)
  /\ Dec(p).action \notin SignatureShapes
  /\ Raise(p)

\* Processes whose open transaction holds the unique-index entry p inserts.
Blockers(p) == {q \in Proc \ {p} : open[q][Key(p)] # None}

Inserting(p) ==
  /\ pc[p] = "record"
  /\ ShouldRecord(p)
  /\ Dec(p).action \in SignatureShapes

\* Mutant of RecordInserts: agent_actions without its unique constraint.
InsertsWithoutConstraint(p) ==
  /\ Inserting(p)
  /\ open' = [open EXCEPT ![p][Key(p)] =
                [outcome |-> result[p], mode |-> Mode(p)]]
  /\ ToNext(p, result[p])
  /\ UNCHANGED <<rows, job, at, executed, github, forgotten, runs>>

RecordInserts(p) ==
  /\ Inserting(p)
  /\ Blockers(p) = {}
  /\ rows[Key(p)] = None
  /\ open' = [open EXCEPT ![p][Key(p)] =
                [outcome |-> result[p], mode |-> Mode(p)]]
  /\ ToNext(p, result[p])
  /\ UNCHANGED <<rows, job, at, executed, github, forgotten, runs>>

\* IntegrityError: the whole session is rolled back, the run goes on.
RecordConflict(p) ==
  /\ Inserting(p)
  /\ Blockers(p) = {}
  /\ rows[Key(p)] # None
  /\ Rollback(p)
  /\ ToNext(p, "deduped")
  /\ UNCHANGED <<job, at, executed, github, runs>>

\* Postgres ends a cycle of sessions waiting for each other's index entries
\* by failing one of them; that is no IntegrityError, so it escapes.
DeadlockVictim(p) ==
  /\ Inserting(p)
  /\ \E S \in SUBSET Proc :
       /\ p \in S
       /\ \A q \in S : Inserting(q) /\ Blockers(q) \cap S # {}
  /\ Raise(p)

(* The callers' loop and the single commit after it.                       *)

\* Mutant of LoopGoesOn: the loop runs one decision too far.
LoopGoesOneFurther(p) ==
  /\ at[p] <= Len(job[p].decs)
  /\ job[p].stop => result[p] \in PROGRESS_OUTCOMES

LoopGoesOn(p) ==
  /\ at[p] < Len(job[p].decs)
  /\ job[p].stop => result[p] \in PROGRESS_OUTCOMES

\* Mutant of NextDecision: the loop stays at the same decision.
SameDecisionAgain(p) ==
  /\ pc[p] = "next"
  /\ LoopGoesOn(p)
  /\ pc' = [pc EXCEPT ![p] = "gate"]
  /\ UNCHANGED <<table, job, at, result, executed, github, forgotten, runs>>

NextDecision(p) ==
  /\ pc[p] = "next"
  /\ LoopGoesOn(p)
  /\ at' = [at EXCEPT ![p] = @ + 1]
  /\ pc' = [pc EXCEPT ![p] = "gate"]
  /\ UNCHANGED <<table, job, result, executed, github, forgotten, runs>>

\* Mutant of Commit: the session is committed only if the last decision of
\* the job was executed.
CommitIfExecuted(p) ==
  /\ pc[p] = "next"
  /\ ~LoopGoesOn(p)
  /\ rows' = [k \in Keys |-> IF open[p][k] # None /\ executed[p]
                             THEN open[p][k] ELSE rows[k]]
  /\ open' = [open EXCEPT ![p] = EmptySession]
  /\ pc' = [pc EXCEPT ![p] = "done"]
  /\ UNCHANGED <<job, at, result, executed, github, forgotten, runs>>

Commit(p) ==
  /\ pc[p] = "next"
  /\ ~LoopGoesOn(p)
  /\ rows' = [k \in Keys |-> IF open[p][k] # None THEN open[p][k] ELSE rows[k]]
  /\ open' = [open EXCEPT ![p] = EmptySession]
  /\ pc' = [pc EXCEPT ![p] = "done"]
  /\ UNCHANGED <<job, at, result, executed, github, forgotten, runs>>

\* The process dies at any await; Postgres drops its transaction.
Crash(p) ==
  /\ "crash" \in Faults
  /\ pc[p] \notin Ended
  /\ pc' = [pc EXCEPT ![p] = "crashed"]
  /\ Rollback(p)
  /\ UNCHANGED <<job, at, result, executed, github, runs>>

Step(p) ==
  \/ UnknownAction(p) \/ PregateHit(p) \/ PregateMiss(p)
  \/ ExecuteShadow(p) \/ ExecuteNoClient(p) \/ ExecuteLands(p)
  \/ ExecuteFails(p) \/ ExecuteReplyLost(p)
  \/ RecordSkipped(p) \/ RecordRaises(p) \/ RecordInserts(p)
  \/ RecordConflict(p) \/ DeadlockVictim(p)
  \/ NextDecision(p) \/ Commit(p)

\* Every job has been run: the processes sit waiting for the next one.
Quiet ==
  /\ runs = MaxRuns
  /\ \A p \in Proc : pc[p] \in Ended
  /\ UNCHANGED vars

Next == (\E p \in Proc : Start(p) \/ Step(p) \/ Crash(p)) \/ Quiet

Spec == Init /\ [][Next]_vars

\* A process that is running keeps running: HTTP calls time out after 30 s,
\* and Postgres releases a waiting INSERT when the holder ends.
FairSpec == Spec /\ \A p \in Proc : WF_vars(Step(p))

-----------------------------------------------------------------------------
(* Properties.                                                             *)

Effects(k) == asked[k] + notes[k]

RowsOf(k) == ({rows[k]} \cup {open[p][k] : p \in Proc}) \ {None}

\* The audit table never claims what did not happen: a row that says
\* "executed" or "downgraded_write_mode" (record_action after the client call
\* returned) stands for a request GitHub has carried out, and a live run
\* never leaves a "shadow_logged" row.  The row and the effect are written in
\* different steps, to different systems, with failures between them.
RowsTellTheTruth ==
  \A k \in Keys : \A r \in RowsOf(k) :
    /\ r.outcome = "executed" => asked[k] > 0
    /\ r.outcome = "downgraded_write_mode" => notes[k] > 0
    /\ r.mode # "shadow" => Effects(k) > 0 /\ r.outcome # "shadow_logged"

InFlight(k) ==
  {p \in Proc : pc[p] = "record" /\ executed[p] /\ Key(p) = k}
Flushed(k) == {p \in Proc : open[p][k] # None /\ Mode(p) # "shadow"}
Backed(k) == IF rows[k] = None THEN 0
             ELSE IF rows[k].mode = "shadow" THEN 0 ELSE 1

\* Every effect on GitHub is recorded, about to be recorded, or was forgotten
\* at one of the points where execute_decision can lose it (a crash, a lost
\* reply, the session.rollback() after an IntegrityError, an escaping
\* exception).  No other path duplicates or loses an effect.
EffectsAccounted ==
  \A k \in Keys :
    Effects(k) = forgotten[k] + Cardinality(InFlight(k))
                 + Cardinality(Flushed(k)) + Backed(k)

\* The unique constraint of agent_actions keeps the books of a decision to one
\* effect: every further one was forgotten, or its run is about to find the row.
\* Two runs may both pass the pre-gate and both post; when neither dies, at
\* least one of them learns of it.
DuplicatesWereForgotten ==
  \A k \in Keys :
    Effects(k) <= 1 + forgotten[k] + Cardinality(InFlight(k))

\* A decision whose row is committed while no run is between its pre-gate
\* and its client call is settled.
Settled(k) ==
  rows[k] # None /\ \A p \in Proc : pc[p] = "exec" => Key(p) # k

\* Once settled, a decision stays settled and has no further effect, whatever
\* later runs ask for and whatever fails: the pre-gate of every later run
\* answers DEDUPED.
SettledForGood ==
  [][\A k \in Keys :
       Settled(k) => Settled(k)' /\ Effects(k)' = Effects(k)]_vars

\* Somebody was entitled to the effect: a decision is carried out as requested
\* only if some job asks for it live, with a client, at or above its action's
\* threshold and, unless it is a comment, in full mode.
Entitled(k) ==
  \E j \in Jobs : \E i \in DOMAIN j.decs :
    /\ Identity(j.decs[i]) = k
    /\ j.client
    /\ j.mode = "full" \/ (j.mode = "comment" /\ k.action \in COMMENT_ACTIONS)
    /\ j.decs[i].confidence >= Threshold[k.action]

\* WRITE_MODE and the confidence threshold bound what reaches GitHub, across
\* all runs together: no as-requested effect without an entitled job, and no
\* branch, file or pull request except through such an effect.
OnlyEntitledEffects ==
  /\ \A k \in Keys : asked[k] > 0 => Entitled(k)
  /\ \A b \in refs \cup files \cup pulls :
       \E k \in Keys : k.branch = b /\ asked[k] > 0

\* The count of effects per decision, as AtMostOnce sees it.
Ledger == INSTANCE AtMostOnce
            WITH Signature <- Keys, count <- [k \in Keys |-> Effects(k)]

\* Runs one after the other without losing an answer: the gate implements the
\* promise of agents/dedupe.py, one side effect per decision over all runs
\* and retries.
ImplementsAtMostOnce == Ledger!Spec

\* Every job that is started ends: it commits, raises or dies with its
\* process; two runs waiting for each other's rows do not wait for ever.
RunsEnd == \A p \in Proc : pc[p] = "gate" ~> pc[p] \in Ended

\* A chain step is sent to GitHub only when GitHub will take it: the branch
\* is there before the file, the file before the pull request, and nothing
\* is created twice (the order build_test_generation_decisions relies on).
CallsAreAcceptable ==
  \A p \in Proc :
    Calling(p) /\ Route(p) = "as_requested" => GithubAccepts(Dec(p))

-----------------------------------------------------------------------------
(* What comments and messages in the code say and some behaviours break.   *)

\* agents/dedupe.py: "the same action against the same target yields exactly
\* one side-effect, even across re-runs", stated of all runs, failures
\* included.
ExactlyOneSideEffect == \A k \in Keys : Effects(k) <= 1

\* _execute_decision_chain: a downgrade earlier in the chain invalidates what
\* follows, so no file write is attempted on a branch that was not created.
NoWriteWithoutBranch ==
  \A p \in Proc :
    /\ Calling(p)
    /\ Route(p) = "as_requested"
    /\ Dec(p).action = "update_file"
    => Dec(p).branch \in refs

=============================================================================
