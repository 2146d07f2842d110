------------------------- MODULE DecisionGateProofs -------------------------
(***************************************************************************)
(* Theorems about DecisionGate, for every set of processes, jobs, texts    *)
(* and faults.                                                             *)
(***************************************************************************)
EXTENDS DecisionGate, FiniteSetTheorems, TLAPS

USE DEF WriteMode, Outcome

-----------------------------------------------------------------------------
(* Types.                                                                  *)

\* The decision a process is at is one of its job's, and its signature is one
\* of the keys of agent_actions.
LEMMA DecisionType ==
  ASSUME TypeOK, NEW p \in Proc
  PROVE  /\ job[p] \in Jobs
         /\ job[p].decs \in Seq(Decision)
         /\ job[p].mode \in WriteMode
         /\ job[p].client \in BOOLEAN
         /\ at[p] \in DOMAIN job[p].decs
         /\ Dec(p) \in Decision
         /\ Key(p) \in Keys
<1>1. job[p] \in Jobs /\ at[p] \in DOMAIN job[p].decs
  BY DEF TypeOK
<1>2. job[p] \in Job
  BY <1>1, JobsAssumption
<1>3. job[p].decs \in Seq(Decision) /\ job[p].mode \in WriteMode
      /\ job[p].client \in BOOLEAN
  BY <1>2 DEF Job
<1>4. Dec(p) \in Decision
  BY <1>1, <1>3 DEF Dec
<1>5. Key(p) \in Keys
  BY <1>1 DEF Key, Dec, Keys
<1> QED
  BY <1>1, <1>3, <1>4, <1>5

\* A key is the identity of a decision: its action is one of Action.
LEMMA KeyOfADecision ==
  ASSUME TypeOK, NEW p \in Proc
  PROVE  Key(p).action = Dec(p).action
BY DEF Key, Identity

\* What the client call reports is an outcome.
LEMMA OutcomeType ==
  ASSUME NEW p \in Proc, NEW ok \in BOOLEAN
  PROVE  OutcomeOf(p, ok) \in Outcome
BY DEF OutcomeOf

\* A rollback leaves the table's types as they are.
LEMMA RollbackType ==
  ASSUME TypeOK, NEW p \in Proc, Rollback(p)
  PROVE  /\ rows' = rows
         /\ open' \in [Proc -> [Keys -> Row \cup {None}]]
         /\ forgotten' \in [Keys -> Nat]
<1>1. \A k \in Keys : LostWith(p, k) \in Nat
  BY DEF LostWith
<1>2. \A k \in Keys : forgotten[k] \in Nat
  BY DEF TypeOK
<1>3. \A k \in Keys : forgotten[k] + LostWith(p, k) \in Nat
  BY <1>1, <1>2
<1>4. forgotten' \in [Keys -> Nat]
  BY <1>3 DEF Rollback
<1>5. EmptySession \in [Keys -> Row \cup {None}]
  BY DEF EmptySession
<1> QED
  BY <1>4, <1>5 DEF Rollback, TypeOK

\* The effect of a request keeps the types of the counters and of GitHub.
LEMMA EffectType ==
  ASSUME TypeOK, NEW p \in Proc, TakeEffect(p)
  PROVE  /\ refs' \subseteq Branch \cup {None}
         /\ files' \subseteq Branch \cup {None}
         /\ pulls' \subseteq Branch \cup {None}
         /\ asked' \in [Keys -> Nat]
         /\ notes' \in [Keys -> Nat]
<1>1. Dec(p).branch \in Branch \cup {None} /\ Key(p) \in Keys
  BY DecisionType DEF Decision
<1>2. asked' \in [Keys -> Nat] /\ notes' \in [Keys -> Nat]
  BY <1>1 DEF TakeEffect, TypeOK
<1> QED
  BY <1>1, <1>2 DEF TakeEffect, TypeOK

LEMMA InitType == Init => TypeOK
<1> SUFFICES ASSUME Init PROVE TypeOK
  OBVIOUS
<1>1. PICK j0 \in Jobs : job = [p \in Proc |-> j0]
  BY JobsAssumption DEF Init
<1>2. 1 \in DOMAIN j0.decs
  BY JobsAssumption DEF Job
<1>3. EmptySession \in [Keys -> Row \cup {None}]
  BY DEF EmptySession
<1>4. at = [p \in Proc |-> 1]
  BY DEF Init
<1>5. /\ job \in [Proc -> Jobs]
       /\ at \in [Proc -> Nat \ {0}]
       /\ \A p \in Proc : at[p] \in DOMAIN job[p].decs
  BY <1>1, <1>2, <1>4
<1>6. /\ rows \in [Keys -> Row \cup {None}]
      /\ open \in [Proc -> [Keys -> Row \cup {None}]]
  BY <1>3 DEF Init
<1>7. /\ pc \in [Proc -> PC]
      /\ result \in [Proc -> Outcome]
      /\ executed \in [Proc -> BOOLEAN]
  BY DEF Init, PC
<1>8. /\ refs \subseteq Branch \cup {None}
      /\ files \subseteq Branch \cup {None}
      /\ pulls \subseteq Branch \cup {None}
  BY DEF Init
<1>9. /\ asked \in [Keys -> Nat] /\ notes \in [Keys -> Nat]
      /\ forgotten \in [Keys -> Nat]
      /\ runs \in 0..MaxRuns
  BY MaxRunsAssumption DEF Init
<1> QED
  BY <1>5, <1>6, <1>7, <1>8, <1>9 DEF TypeOK

\* Every step keeps the types.
LEMMA NextType == TypeOK /\ [Next]_vars => TypeOK'
<1> SUFFICES ASSUME TypeOK, [Next]_vars PROVE TypeOK'
  OBVIOUS
<1> USE DEF github, table
<1>1. ASSUME NEW p \in Proc, Start(p) PROVE TypeOK'
  <2>1. PICK j \in Jobs : job' = [job EXCEPT ![p] = j]
    BY <1>1 DEF Start
  <2>2. 1 \in DOMAIN j.decs
    BY JobsAssumption DEF Job
  <2>3. job' \in [Proc -> Jobs] /\ at' \in [Proc -> Nat \ {0}]
        /\ pc' \in [Proc -> PC] /\ runs' \in 0..MaxRuns
    BY <1>1, <2>1, MaxRunsAssumption DEF Start, TypeOK, PC
  <2>4. \A q \in Proc : at'[q] \in DOMAIN job'[q].decs
    BY <1>1, <2>1, <2>2 DEF Start, TypeOK
  <2> QED
    BY <1>1, <2>3, <2>4 DEF Start, TypeOK
<1>2. ASSUME NEW p \in Proc, Raise(p) PROVE TypeOK'
  <2>1. pc' \in [Proc -> PC]
    BY <1>2 DEF Raise, TypeOK, PC
  <2> QED
    BY <1>2, <2>1, RollbackType DEF Raise, TypeOK
<1>3. ASSUME NEW p \in Proc, UnknownAction(p) PROVE TypeOK'
  BY <1>2, <1>3 DEF UnknownAction
<1>4. ASSUME NEW p \in Proc, PregateHit(p) PROVE TypeOK'
  BY <1>4 DEF PregateHit, ToNext, TypeOK, PC
<1>5. ASSUME NEW p \in Proc, PregateMiss(p) PROVE TypeOK'
  BY <1>5 DEF PregateMiss, TypeOK, PC
<1>6. ASSUME NEW p \in Proc, NEW ok \in BOOLEAN, ToRecord(p, ok)
      PROVE  /\ result' \in [Proc -> Outcome]
             /\ executed' \in [Proc -> BOOLEAN]
             /\ pc' \in [Proc -> PC]
  BY <1>6, OutcomeType DEF ToRecord, TypeOK, PC
<1>7. ASSUME NEW p \in Proc, ExecuteShadow(p) PROVE TypeOK'
  BY <1>6, <1>7 DEF ExecuteShadow, TypeOK
<1>8. ASSUME NEW p \in Proc, ExecuteNoClient(p) PROVE TypeOK'
  BY <1>6, <1>8 DEF ExecuteNoClient, TypeOK
<1>9. ASSUME NEW p \in Proc, ExecuteLands(p) PROVE TypeOK'
  BY <1>6, <1>9, EffectType DEF ExecuteLands, TypeOK
<1>10. ASSUME NEW p \in Proc, ExecuteFails(p) PROVE TypeOK'
  BY <1>6, <1>10 DEF ExecuteFails, TypeOK
<1>11. ASSUME NEW p \in Proc, ExecuteReplyLost(p) PROVE TypeOK'
  <2>1. forgotten' \in [Keys -> Nat]
    BY <1>11, DecisionType DEF ExecuteReplyLost, TypeOK
  <2> QED
    BY <1>6, <1>11, <2>1, EffectType DEF ExecuteReplyLost, TypeOK
<1>12. ASSUME NEW p \in Proc, RecordSkipped(p) PROVE TypeOK'
  BY <1>12 DEF RecordSkipped, ToNext, TypeOK, PC
<1>13. ASSUME NEW p \in Proc, RecordRaises(p) PROVE TypeOK'
  BY <1>2, <1>13 DEF RecordRaises
<1>14. ASSUME NEW p \in Proc, RecordInserts(p) PROVE TypeOK'
  <2>1. Key(p) \in Keys /\ Mode(p) \in WriteMode /\ result[p] \in Outcome
    BY DecisionType DEF Mode, TypeOK
  <2>2. [outcome |-> result[p], mode |-> Mode(p)] \in Row
    BY <2>1 DEF Row
  <2>3. open' \in [Proc -> [Keys -> Row \cup {None}]]
    BY <1>14, <2>1, <2>2 DEF RecordInserts, TypeOK
  <2> QED
    BY <1>14, <2>3 DEF RecordInserts, ToNext, TypeOK, PC
<1>15. ASSUME NEW p \in Proc, RecordConflict(p) PROVE TypeOK'
  BY <1>15, RollbackType DEF RecordConflict, ToNext, TypeOK, PC
<1>16. ASSUME NEW p \in Proc, DeadlockVictim(p) PROVE TypeOK'
  BY <1>2, <1>16 DEF DeadlockVictim
<1>17. ASSUME NEW p \in Proc, NextDecision(p) PROVE TypeOK'
  <2>1. job[p].decs \in Seq(Decision) /\ at[p] \in Nat \ {0}
    BY DecisionType DEF TypeOK
  <2>2. at[p] + 1 \in DOMAIN job[p].decs
    BY <1>17, <2>1 DEF NextDecision, LoopGoesOn
  <2>3. at' \in [Proc -> Nat \ {0}]
    BY <1>17, <2>1 DEF NextDecision, TypeOK
  <2>4. \A q \in Proc : at'[q] \in DOMAIN job'[q].decs
    BY <1>17, <2>2 DEF NextDecision, TypeOK
  <2> QED
    BY <1>17, <2>3, <2>4 DEF NextDecision, TypeOK, PC
<1>18. ASSUME NEW p \in Proc, Commit(p) PROVE TypeOK'
  <2>1. EmptySession \in [Keys -> Row \cup {None}]
    BY DEF EmptySession
  <2>2. open' \in [Proc -> [Keys -> Row \cup {None}]]
    BY <1>18, <2>1 DEF Commit, TypeOK
  <2>3. rows' \in [Keys -> Row \cup {None}]
    BY <1>18 DEF Commit, TypeOK
  <2> QED
    BY <1>18, <2>2, <2>3 DEF Commit, TypeOK, PC
<1>19. ASSUME NEW p \in Proc, Crash(p) PROVE TypeOK'
  BY <1>19, RollbackType DEF Crash, TypeOK, PC
<1>20. CASE UNCHANGED vars
  BY <1>20 DEF vars, TypeOK
<1> QED
  BY <1>1, <1>3, <1>4, <1>5, <1>7, <1>8, <1>9, <1>10, <1>11, <1>12, <1>13,
     <1>14, <1>15, <1>16, <1>17, <1>18, <1>19, <1>20 DEF Next, Step, Quiet

\* The types hold in every reachable state: in particular no run ever points
\* past the end of its decisions and no outcome is left unset.
THEOREM TypeCorrect == Spec => []TypeOK
BY InitType, NextType, PTL DEF Spec

-----------------------------------------------------------------------------
(* What a step may change.                                                 *)

\* Only the two actions of a request that arrives touch GitHub, and they do
\* it as TakeEffect says, from a live run with a client.
LEMMA GithubChanges ==
  ASSUME [Next]_vars, ~UNCHANGED github
  PROVE  \E p \in Proc : /\ ExecuteLands(p) \/ ExecuteReplyLost(p)
                         /\ Calling(p) /\ CallSucceeds(p) /\ TakeEffect(p)
<1>1. PICK p \in Proc : ExecuteLands(p) \/ ExecuteReplyLost(p)
  BY DEF Next, Step, Quiet, vars, Start, Crash, UnknownAction, Raise,
         PregateHit, PregateMiss, ExecuteShadow, ExecuteNoClient, ExecuteFails,
         RecordSkipped, RecordRaises, RecordInserts, RecordConflict,
         DeadlockVictim, NextDecision, Commit
<1> QED
  BY <1>1 DEF ExecuteLands, ExecuteReplyLost

\* The effect counts only grow, and only that of the decision at hand.
LEMMA EffectGrows ==
  ASSUME TypeOK, NEW p \in Proc, TakeEffect(p)
  PROVE  /\ \A k \in Keys : asked'[k] >= asked[k] /\ notes'[k] >= notes[k]
         /\ \A k \in Keys \ {Key(p)} : asked'[k] = asked[k] /\ notes'[k] = notes[k]
         /\ Route(p) = "as_requested" =>
              asked'[Key(p)] = asked[Key(p)] + 1 /\ notes' = notes
         /\ Route(p) # "as_requested" =>
              notes'[Key(p)] = notes[Key(p)] + 1 /\ asked' = asked
<1>1. Key(p) \in Keys
  BY DecisionType
<1>2. \A k \in Keys : asked[k] \in Nat /\ notes[k] \in Nat
  BY DEF TypeOK
<1>3. CASE Route(p) = "as_requested"
  <2>1. asked' = [asked EXCEPT ![Key(p)] = @ + 1] /\ notes' = notes
    BY <1>3 DEF TakeEffect
  <2> QED
    BY <1>1, <1>2, <1>3, <2>1 DEF TypeOK
<1>4. CASE Route(p) # "as_requested"
  <2>1. notes' = [notes EXCEPT ![Key(p)] = @ + 1] /\ asked' = asked
    BY <1>4 DEF TakeEffect
  <2> QED
    BY <1>1, <1>2, <1>4, <2>1 DEF TypeOK
<1> QED
  BY <1>3, <1>4

-----------------------------------------------------------------------------
(* The inductive invariant.                                                *)

\* A decision is past the gate only if its action has a threshold.
Gated ==
  \A p \in Proc : pc[p] \in {"exec", "record"} =>
                    Dec(p).action \in DOMAIN Threshold

\* A row stands for an action that has a signature.
Signed ==
  \A k \in Keys : RowsOf(k) # {} => k.action \in SignatureShapes

\* Between the client call and the row, the outcome says what the call did.
OutcomeTellsTheTruth ==
  \A p \in Proc : pc[p] = "record" =>
    /\ result[p] = OutcomeOf(p, executed[p])
    /\ executed[p] => /\ Mode(p) # "shadow"
                      /\ Route(p) = "as_requested" => asked[Key(p)] > 0
                      /\ Route(p) # "as_requested" => notes[Key(p)] > 0

GateInv == TypeOK /\ Gated /\ Signed /\ OutcomeTellsTheTruth /\ RowsTellTheTruth

LEMMA InitGate == Init => GateInv
<1> SUFFICES ASSUME Init PROVE GateInv
  OBVIOUS
<1>1. TypeOK
  BY InitType
<1>2. \A p \in Proc : pc[p] = "idle"
  BY DEF Init
<1>3. \A k \in Keys : RowsOf(k) = {}
  <2> TAKE k \in Keys
  <2>1. rows = EmptySession /\ open = [p \in Proc |-> EmptySession]
    BY DEF Init
  <2>2. rows[k] = None /\ \A p \in Proc : open[p][k] = None
    BY <2>1 DEF EmptySession
  <2> QED
    BY <2>2 DEF RowsOf
<1> QED
  BY <1>1, <1>2, <1>3 DEF GateInv, Gated, Signed, OutcomeTellsTheTruth,
     RowsTellTheTruth

\* A process that moves leaves the others' local state alone.
LEMMA OthersKeep ==
  ASSUME TypeOK, NEW p \in Proc, NEW q \in Proc \ {p},
         Start(p) \/ Step(p) \/ Crash(p)
  PROVE  /\ pc'[q] = pc[q] /\ job'[q] = job[q] /\ at'[q] = at[q]
         /\ result'[q] = result[q] /\ executed'[q] = executed[q]
         /\ open'[q] = open[q]
BY DEF TypeOK, Step, table, Start, Crash, UnknownAction, Raise, Rollback,
   PregateHit, PregateMiss, ExecuteShadow, ExecuteNoClient, ExecuteLands,
   ExecuteFails, ExecuteReplyLost, RecordSkipped, RecordRaises, RecordInserts,
   RecordConflict, DeadlockVictim, NextDecision, Commit, ToRecord, ToNext

\* A process enters exec by PregateMiss only, and record by a client call that
\* leaves it at its decision.
LEMMA EntersExec ==
  ASSUME TypeOK, NEW p \in Proc, Start(p) \/ Step(p) \/ Crash(p),
         pc'[p] = "exec"
  PROVE  PregateMiss(p)
BY DEF TypeOK, Step, Start, Crash, UnknownAction, Raise, PregateHit,
   ExecuteShadow, ExecuteNoClient, ExecuteLands, ExecuteFails,
   ExecuteReplyLost, RecordSkipped, RecordRaises, RecordInserts,
   RecordConflict, DeadlockVictim, NextDecision, Commit, ToRecord, ToNext

LEMMA EntersRecord ==
  ASSUME TypeOK, NEW p \in Proc, Start(p) \/ Step(p) \/ Crash(p),
         pc'[p] = "record"
  PROVE  /\ pc[p] = "exec"
         /\ UNCHANGED <<job, at, rows, open>>
         /\ \/ ToRecord(p, TRUE) /\ Calling(p) /\ TakeEffect(p)
            \/ ToRecord(p, FALSE)
<1>1. \/ ExecuteShadow(p) \/ ExecuteNoClient(p) \/ ExecuteLands(p)
      \/ ExecuteFails(p) \/ ExecuteReplyLost(p)
  BY DEF TypeOK, Step, Start, Crash, UnknownAction, Raise, PregateHit,
     PregateMiss, RecordSkipped, RecordRaises, RecordInserts, RecordConflict,
     DeadlockVictim, NextDecision, Commit, ToNext
<1>2. CASE ExecuteLands(p)
  BY <1>2 DEF ExecuteLands, Calling, table
<1>3. CASE ExecuteShadow(p) \/ ExecuteNoClient(p) \/ ExecuteFails(p)
           \/ ExecuteReplyLost(p)
  <2>1. ToRecord(p, FALSE)
    BY <1>3 DEF ExecuteShadow, ExecuteNoClient, ExecuteFails, ExecuteReplyLost
  <2>2. pc[p] = "exec" /\ UNCHANGED <<job, at, rows, open>>
    BY <1>3 DEF ExecuteShadow, ExecuteNoClient, ExecuteFails,
                ExecuteReplyLost, Calling, table
  <2> QED
    BY <2>1, <2>2
<1> QED
  BY <1>1, <1>2, <1>3

\* Either nothing changes or one process moves.
LEMMA OneMoves ==
  ASSUME [Next]_vars
  PROVE  UNCHANGED vars \/ \E p \in Proc : Start(p) \/ Step(p) \/ Crash(p)
BY DEF Next, Quiet

\* Past the gate only by PregateMiss.
LEMMA NextGated == GateInv /\ [Next]_vars => Gated'
<1> SUFFICES ASSUME GateInv, [Next]_vars, NEW q \in Proc,
                    pc'[q] \in {"exec", "record"}
             PROVE  Dec(q)'.action \in DOMAIN Threshold
  BY DEF Gated
<1>1. TypeOK /\ Gated
  BY DEF GateInv
<1>2. CASE UNCHANGED vars
  BY <1>1, <1>2 DEF vars, Gated, Dec
<1>3. ASSUME NEW p \in Proc \ {q}, Start(p) \/ Step(p) \/ Crash(p)
      PROVE  Dec(q)'.action \in DOMAIN Threshold
  BY <1>1, <1>3, OthersKeep DEF Gated, Dec
<1>4. ASSUME Start(q) \/ Step(q) \/ Crash(q)
      PROVE  Dec(q)'.action \in DOMAIN Threshold
  <2>1. CASE pc'[q] = "exec"
    BY <1>1, <1>4, <2>1, EntersExec DEF PregateMiss, Dec
  <2>2. CASE pc'[q] = "record"
    BY <1>1, <1>4, <2>2, EntersRecord DEF Gated, Dec
  <2> QED
    BY <2>1, <2>2
<1> QED
  BY <1>2, <1>3, <1>4, OneMoves

\* A row that was not there before was inserted by RecordInserts.
LEMMA RowsChange ==
  ASSUME TypeOK, [Next]_vars, NEW k \in Keys, NEW r \in RowsOf(k)'
  PROVE  \/ r \in RowsOf(k)
         \/ \E p \in Proc : /\ RecordInserts(p)
                           /\ k = Key(p)
                           /\ r = [outcome |-> result[p], mode |-> Mode(p)]
<1> DEFINE new(p) == [outcome |-> result[p], mode |-> Mode(p)]
<1>1. r # None /\ (r = rows'[k] \/ \E q \in Proc : r = open'[q][k])
  BY DEF RowsOf
<1>2. CASE UNCHANGED table
  BY <1>2 DEF table, RowsOf
<1>3. ASSUME NEW p \in Proc, Rollback(p) PROVE r \in RowsOf(k)
  <2>1. rows' = rows
    BY <1>3 DEF Rollback
  <2>2. \A q \in Proc : open'[q][k] = open[q][k] \/ open'[q][k] = None
    BY <1>3 DEF Rollback, EmptySession, TypeOK
  <2> QED
    BY <1>1, <2>1, <2>2 DEF RowsOf
<1>4. ASSUME NEW p \in Proc, Commit(p) PROVE r \in RowsOf(k)
  <2>1. rows'[k] = open[p][k] \/ rows'[k] = rows[k]
    BY <1>4 DEF Commit
  <2>2. \A q \in Proc : open'[q][k] = open[q][k] \/ open'[q][k] = None
    BY <1>4 DEF Commit, EmptySession, TypeOK
  <2> QED
    BY <1>1, <2>1, <2>2 DEF RowsOf
<1>5. ASSUME NEW p \in Proc, RecordInserts(p)
      PROVE  r \in RowsOf(k) \/ (k = Key(p) /\ r = new(p))
  <2>1. rows' = rows /\ open' = [open EXCEPT ![p][Key(p)] = new(p)]
    BY <1>5 DEF RecordInserts
  <2>2. \A q \in Proc : \/ open'[q][k] = open[q][k]
                        \/ k = Key(p) /\ open'[q][k] = new(p)
    BY <2>1, DecisionType DEF TypeOK
  <2> QED
    BY <1>1, <2>1, <2>2 DEF RowsOf
<1>6. \/ UNCHANGED table
      \/ \E p \in Proc : Rollback(p) \/ Commit(p) \/ RecordInserts(p)
  BY DEF Next, Step, Quiet, vars, table, Start, Crash, UnknownAction, Raise,
     PregateHit, PregateMiss, ExecuteShadow, ExecuteNoClient, ExecuteLands,
     ExecuteFails, ExecuteReplyLost, RecordSkipped, RecordRaises,
     RecordConflict, DeadlockVictim, NextDecision
<1> HIDE DEF new
<1> QED
  BY <1>2, <1>3, <1>4, <1>5, <1>6 DEF new

LEMMA NextSigned == GateInv /\ [Next]_vars => Signed'
<1> SUFFICES ASSUME GateInv, [Next]_vars, NEW k \in Keys, NEW r \in RowsOf(k)'
             PROVE  k.action \in SignatureShapes
  BY DEF Signed
<1>1. CASE r \in RowsOf(k)
  BY <1>1 DEF GateInv, Signed
<1>2. ASSUME NEW p \in Proc, RecordInserts(p), k = Key(p)
      PROVE  k.action \in SignatureShapes
  BY <1>2, KeyOfADecision DEF RecordInserts, Inserting, GateInv
<1> QED
  BY <1>1, <1>2, RowsChange DEF GateInv

\* The effect counts never go down.
LEMMA CountsGrow ==
  ASSUME TypeOK, [Next]_vars, NEW k \in Keys
  PROVE  asked'[k] >= asked[k] /\ notes'[k] >= notes[k]
<1>1. asked[k] \in Nat /\ notes[k] \in Nat
  BY DEF TypeOK
<1>2. CASE UNCHANGED github
  BY <1>1, <1>2 DEF github
<1>3. CASE ~UNCHANGED github
  BY <1>3, GithubChanges, EffectGrows
<1> QED
  BY <1>2, <1>3

LEMMA NextOutcome == GateInv /\ [Next]_vars => OutcomeTellsTheTruth'
<1> SUFFICES ASSUME GateInv, [Next]_vars, NEW q \in Proc, pc'[q] = "record"
             PROVE  /\ result'[q] = OutcomeOf(q, executed[q])'
                    /\ executed'[q] =>
                         /\ Mode(q)' # "shadow"
                         /\ Route(q)' = "as_requested" => asked'[Key(q)'] > 0
                         /\ Route(q)' # "as_requested" => notes'[Key(q)'] > 0
  BY DEF OutcomeTellsTheTruth
<1>1. TypeOK /\ OutcomeTellsTheTruth
  BY DEF GateInv
\* Where q stays in record, its decision and outcome stay too.
<1>2. ASSUME pc[q] = "record", job'[q] = job[q], at'[q] = at[q],
             result'[q] = result[q], executed'[q] = executed[q]
      PROVE  /\ result'[q] = OutcomeOf(q, executed[q])'
             /\ executed'[q] =>
                  /\ Mode(q)' # "shadow"
                  /\ Route(q)' = "as_requested" => asked'[Key(q)'] > 0
                  /\ Route(q)' # "as_requested" => notes'[Key(q)'] > 0
  <2>1. Key(q) \in Keys /\ Key(q)' = Key(q) /\ Route(q)' = Route(q)
        /\ Mode(q)' = Mode(q)
    BY <1>1, <1>2, DecisionType DEF Key, Dec, Route, Mode
  <2>2. OutcomeOf(q, executed[q])' = OutcomeOf(q, executed[q])
    BY <1>2, <2>1 DEF OutcomeOf
  <2>3. asked'[Key(q)] >= asked[Key(q)] /\ notes'[Key(q)] >= notes[Key(q)]
    BY <1>1, <2>1, CountsGrow
  <2>4. /\ asked[Key(q)] \in Nat /\ notes[Key(q)] \in Nat
        /\ asked'[Key(q)] \in Nat /\ notes'[Key(q)] \in Nat
    BY <1>1, <2>1, NextType DEF TypeOK
  <2> QED
    BY <1>1, <1>2, <2>1, <2>2, <2>3, <2>4 DEF OutcomeTellsTheTruth
<1>3. CASE UNCHANGED vars
  BY <1>2, <1>3 DEF vars
<1>4. ASSUME NEW p \in Proc \ {q}, Start(p) \/ Step(p) \/ Crash(p)
      PROVE  /\ pc[q] = "record" /\ job'[q] = job[q] /\ at'[q] = at[q]
             /\ result'[q] = result[q] /\ executed'[q] = executed[q]
  BY <1>1, <1>4, OthersKeep
<1>5. CASE Start(q) \/ Step(q) \/ Crash(q)
  <2>1. \/ ToRecord(q, TRUE) /\ Calling(q) /\ TakeEffect(q)
        \/ ToRecord(q, FALSE)
    BY <1>1, <1>5, EntersRecord
  <2>2. job' = job /\ at' = at
    BY <1>1, <1>5, EntersRecord
  <2>3. Key(q) \in Keys /\ Key(q)' = Key(q) /\ Route(q)' = Route(q)
        /\ Mode(q)' = Mode(q)
    BY <1>1, <2>2, DecisionType DEF Key, Dec, Route, Mode
  <2>4. ASSUME NEW ok \in BOOLEAN, ToRecord(q, ok)
        PROVE  /\ executed'[q] = ok
               /\ result'[q] = OutcomeOf(q, executed[q])'
    <3>1. executed'[q] = ok /\ result'[q] = OutcomeOf(q, ok)
      BY <1>1, <2>4 DEF ToRecord, TypeOK
    <3>2. OutcomeOf(q, executed[q])' = OutcomeOf(q, ok)
      BY <2>2, <2>3, <3>1 DEF OutcomeOf
    <3> QED
      BY <3>1, <3>2
  <2>5. ASSUME Calling(q), TakeEffect(q)
        PROVE  /\ Mode(q) # "shadow"
               /\ Route(q) = "as_requested" => asked'[Key(q)] > 0
               /\ Route(q) # "as_requested" => notes'[Key(q)] > 0
    <3>1. asked[Key(q)] \in Nat /\ notes[Key(q)] \in Nat
      BY <1>1, <2>3 DEF TypeOK
    <3> QED
      BY <1>1, <2>5, <3>1, EffectGrows DEF Calling
  <2> QED
    BY <2>1, <2>3, <2>4, <2>5
<1> QED
  BY <1>2, <1>3, <1>4, <1>5, OneMoves

\* A row is inserted with the outcome the call had; later steps only add to
\* the counts it speaks of.
LEMMA NextTruth == GateInv /\ [Next]_vars => RowsTellTheTruth'
<1> SUFFICES ASSUME GateInv, [Next]_vars, NEW k \in Keys, NEW r \in RowsOf(k)'
             PROVE  /\ r.outcome = "executed" => asked'[k] > 0
                    /\ r.outcome = "downgraded_write_mode" => notes'[k] > 0
                    /\ r.mode # "shadow" =>
                         asked'[k] + notes'[k] > 0 /\ r.outcome # "shadow_logged"
  BY DEF RowsTellTheTruth, Effects
<1>1. TypeOK /\ OutcomeTellsTheTruth /\ RowsTellTheTruth
  BY DEF GateInv
<1>2. /\ asked[k] \in Nat /\ notes[k] \in Nat
      /\ asked'[k] \in Nat /\ notes'[k] \in Nat
      /\ asked'[k] >= asked[k] /\ notes'[k] >= notes[k]
  BY <1>1, NextType, CountsGrow DEF TypeOK
<1>3. CASE r \in RowsOf(k)
  BY <1>1, <1>2, <1>3 DEF RowsTellTheTruth, Effects
<1>4. ASSUME NEW p \in Proc, RecordInserts(p), k = Key(p),
             r = [outcome |-> result[p], mode |-> Mode(p)]
      PROVE  /\ r.outcome = "executed" => asked[k] > 0
             /\ r.outcome = "downgraded_write_mode" => notes[k] > 0
             /\ r.mode # "shadow" =>
                  asked[k] + notes[k] > 0 /\ r.outcome # "shadow_logged"
  <2>1. /\ result[p] = OutcomeOf(p, executed[p])
        /\ executed[p] => /\ Route(p) = "as_requested" => asked[k] > 0
                          /\ Route(p) # "as_requested" => notes[k] > 0
    BY <1>1, <1>4 DEF OutcomeTellsTheTruth, RecordInserts, Inserting
  <2>2. Mode(p) = "shadow" \/ executed[p]
    BY <1>4 DEF RecordInserts, Inserting, ShouldRecord
  <2>3. result[p] = "executed" => executed[p] /\ Route(p) = "as_requested"
    BY <2>1 DEF OutcomeOf, Route
  <2>4. result[p] = "downgraded_write_mode" =>
          Mode(p) # "shadow" /\ Route(p) # "as_requested"
    BY <2>1 DEF OutcomeOf, Route
  <2>5. result[p] = "shadow_logged" => Mode(p) = "shadow"
    BY <2>1 DEF OutcomeOf
  <2> QED
    BY <1>2, <1>4, <2>1, <2>2, <2>3, <2>4, <2>5
<1> QED
  BY <1>1, <1>2, <1>3, <1>4, RowsChange

LEMMA NextGate == GateInv /\ [Next]_vars => GateInv'
BY NextType, NextGated, NextSigned, NextOutcome, NextTruth DEF GateInv

\* The inductive invariant of execute_decision and its callers: a process only
\* calls and records for decisions that passed the pre-gate, with the outcome
\* the gate gives them, and rows and outcomes stand for what GitHub has done.
THEOREM GateInvariant == Spec => []GateInv
BY InitGate, NextGate, PTL DEF Spec

\* The audit table never claims what did not happen, with any number of
\* processes, in every order of their steps and under every fault.
THEOREM TruthfulRows == Spec => []RowsTellTheTruth
<1>1. GateInv => RowsTellTheTruth
  BY DEF GateInv
<1> QED
  BY <1>1, GateInvariant, PTL

-----------------------------------------------------------------------------
(* Who is entitled to an effect.                                           *)

LEMMA ThresholdType ==
  ASSUME NEW a \in DOMAIN Threshold
  PROVE  Threshold[a] \in Nat
BY DEF Threshold

\* A live request that is sent as asked for comes from an entitled job.
LEMMA LiveRequestEntitled ==
  ASSUME GateInv, NEW p \in Proc, Calling(p), Route(p) = "as_requested"
  PROVE  Entitled(Key(p))
<1>1. TypeOK /\ Gated
  BY DEF GateInv
<1>2. /\ job[p] \in Jobs /\ job[p].mode \in WriteMode
      /\ at[p] \in DOMAIN job[p].decs
      /\ Dec(p) \in Decision
  BY <1>1, DecisionType
<1>3. Identity(job[p].decs[at[p]]) = Key(p) /\ Key(p).action = Dec(p).action
  BY <1>1, KeyOfADecision DEF Key, Dec
<1>4. job[p].client /\ job[p].mode # "shadow"
  BY DEF Calling, Mode
<1>5. /\ ~(Dec(p).confidence < Threshold[Dec(p).action])
      /\ ~(job[p].mode = "comment" /\ Dec(p).action \notin COMMENT_ACTIONS)
  BY DEF Route, Mode
<1>6. Dec(p).confidence >= Threshold[Dec(p).action]
  <2>1. Dec(p).confidence \in Nat
    BY <1>2 DEF Decision
  <2>2. Threshold[Dec(p).action] \in Nat
    BY <1>1, ThresholdType DEF Gated, Calling
  <2> QED
    BY <1>5, <2>1, <2>2
<1> QED
  BY <1>2, <1>3, <1>4, <1>5, <1>6 DEF Entitled, Dec

LEMMA NextEntitled ==
  GateInv /\ OnlyEntitledEffects /\ [Next]_vars => OnlyEntitledEffects'
<1> SUFFICES ASSUME GateInv, OnlyEntitledEffects, [Next]_vars
             PROVE  OnlyEntitledEffects'
  OBVIOUS
<1>1. TypeOK
  BY DEF GateInv
<1>2. CASE UNCHANGED github
  BY <1>2 DEF github, OnlyEntitledEffects, Entitled
<1>3. CASE ~UNCHANGED github
  <2>1. PICK p \in Proc : Calling(p) /\ TakeEffect(p)
    BY <1>3, GithubChanges
  <2>2. Key(p) \in Keys
    BY <1>1, DecisionType
  <2>3. \A k \in Keys : asked[k] \in Nat /\ asked'[k] \in Nat /\ asked'[k] >= asked[k]
    BY <1>1, NextType, CountsGrow DEF TypeOK
  <2>4. ASSUME NEW k \in Keys, asked'[k] > 0 PROVE Entitled(k)
    <3>1. CASE asked[k] > 0
      BY <3>1 DEF OnlyEntitledEffects
    <3>2. CASE ~(asked[k] > 0)
      <4>1. k = Key(p) /\ Route(p) = "as_requested"
        BY <1>1, <2>1, <2>3, <2>4, <3>2, EffectGrows
      <4> QED
        BY <2>1, <4>1, LiveRequestEntitled
    <3> QED
      BY <3>1, <3>2
  <2>5. ASSUME NEW b \in refs' \cup files' \cup pulls'
        PROVE  \E k \in Keys : k.branch = b /\ asked'[k] > 0
    <3>1. CASE b \in refs \cup files \cup pulls
      BY <2>3, <3>1 DEF OnlyEntitledEffects
    <3>2. CASE b \notin refs \cup files \cup pulls
      <4>1. /\ Route(p) = "as_requested"
            /\ b = Dec(p).branch
            /\ Dec(p).action \in CodeActions
        BY <2>1, <2>5, <3>2 DEF TakeEffect, CodeActions
      <4>2. Key(p).branch = b
        BY <4>1 DEF Key, Identity
      <4>3. asked'[Key(p)] > 0
        BY <1>1, <2>1, <2>2, <2>3, <4>1, EffectGrows
      <4> QED
        BY <2>2, <4>2, <4>3
    <3> QED
      BY <3>1, <3>2
  <2> QED
    BY <2>4, <2>5 DEF OnlyEntitledEffects, Entitled
<1> QED
  BY <1>2, <1>3

LEMMA InitEntitled == Init => OnlyEntitledEffects
<1> SUFFICES ASSUME Init PROVE OnlyEntitledEffects
  OBVIOUS
<1>1. /\ asked = [k \in Keys |-> 0]
      /\ refs = {} /\ files = {} /\ pulls = {}
  BY DEF Init
<1> QED
  BY <1>1 DEF OnlyEntitledEffects

\* WRITE_MODE and the thresholds bound what reaches GitHub over all runs.
THEOREM EntitledEffects == Spec => []OnlyEntitledEffects
BY InitEntitled, NextEntitled, GateInvariant, PTL DEF Spec

-----------------------------------------------------------------------------
(* Settled decisions.                                                      *)

\* A committed row is never removed.
LEMMA RowsStay ==
  ASSUME TypeOK, [Next]_vars, NEW k \in Keys, rows[k] # None
  PROVE  rows'[k] # None
<1>1. CASE UNCHANGED rows
  BY <1>1
<1>2. ASSUME NEW p \in Proc, Commit(p) PROVE rows'[k] # None
  BY <1>2 DEF Commit
<1>3. UNCHANGED rows \/ \E p \in Proc : Commit(p)
  BY DEF Next, Step, Quiet, vars, table, Start, Crash, UnknownAction, Raise,
     Rollback, PregateHit, PregateMiss, ExecuteShadow, ExecuteNoClient,
     ExecuteLands, ExecuteFails, ExecuteReplyLost, RecordSkipped,
     RecordRaises, RecordInserts, RecordConflict, DeadlockVictim, NextDecision
<1> QED
  BY <1>1, <1>2, <1>3

LEMMA SettledStep ==
  ASSUME GateInv, [Next]_vars, NEW k \in Keys, Settled(k)
  PROVE  Settled(k)' /\ Effects(k)' = Effects(k)
<1>1. TypeOK /\ Signed
  BY DEF GateInv
<1>2. rows[k] # None /\ \A q \in Proc : pc[q] = "exec" => Key(q) # k
  BY DEF Settled
<1>3. Effects(k)' = Effects(k)
  <2>1. CASE UNCHANGED github
    BY <2>1 DEF github, Effects
  <2>2. CASE ~UNCHANGED github
    <3>1. PICK p \in Proc : Calling(p) /\ TakeEffect(p)
      BY <2>2, GithubChanges
    <3>2. Key(p) # k
      BY <1>2, <3>1 DEF Calling
    <3> QED
      BY <1>1, <3>1, <3>2, EffectGrows DEF Effects
  <2> QED
    BY <2>1, <2>2
<1>4. ASSUME NEW q \in Proc, pc'[q] = "exec" PROVE Key(q)' # k
  <2>1. CASE UNCHANGED vars
    BY <1>2, <1>4, <2>1 DEF vars, Key, Dec
  <2>2. ASSUME NEW p \in Proc \ {q}, Start(p) \/ Step(p) \/ Crash(p)
        PROVE  Key(q)' # k
    BY <1>1, <1>2, <1>4, <2>2, OthersKeep DEF Key, Dec
  <2>3. CASE Start(q) \/ Step(q) \/ Crash(q)
    <3>1. PregateMiss(q)
      BY <1>1, <1>4, <2>3, EntersExec
    <3>2. Key(q)' = Key(q)
      BY <3>1 DEF PregateMiss, Key, Dec
    <3>3. k.action \in SignatureShapes
      BY <1>1, <1>2 DEF Signed, RowsOf
    <3>4. Key(q) = k => Dec(q).action \in SignatureShapes
      BY <1>1, <3>3, KeyOfADecision
    <3> QED
      BY <1>2, <3>1, <3>2, <3>4 DEF PregateMiss, Visible
  <2> QED
    BY <2>1, <2>2, <2>3, OneMoves
<1>5. rows'[k] # None
  BY <1>1, <1>2, RowsStay
<1> QED
  BY <1>3, <1>4, <1>5 DEF Settled

\* Once the row of a decision is committed and nobody is past the pre-gate with
\* it, it stays settled and has no further effect.
THEOREM SettledDecisions == Spec => SettledForGood
<1>1. GateInv /\ [Next]_vars =>
        [\A k \in Keys : Settled(k) => Settled(k)' /\ Effects(k)' = Effects(k)]_vars
  BY SettledStep
<1> QED
  BY <1>1, GateInvariant, PTL DEF Spec, SettledForGood

-----------------------------------------------------------------------------
(* One run after the other: at most one effect per decision.               *)

\* One process, no crash, no lost answer, and only actions that have both a
\* threshold and a signature.
Serial ==
  /\ \A p, q \in Proc : p = q
  /\ "crash" \notin Faults /\ "reply_lost" \notin Faults
  /\ \A j \in Jobs : \A i \in DOMAIN j.decs :
       j.decs[i].action \in DOMAIN Threshold \cap SignatureShapes

Recorded(k) == rows[k] # None \/ \E p \in Proc : open[p][k] # None

\* A decision that took effect is recorded or about to be, and a decision that
\* is past its pre-gate is not recorded.
SerialInv ==
  /\ GateInv
  /\ \A k \in Keys : Effects(k) <= 1
  /\ \A k \in Keys : Effects(k) > 0 => Recorded(k) \/ InFlight(k) # {}
  /\ \A p \in Proc : pc[p] \in {"exec", "record"} => ~Recorded(Key(p))

LEMMA InitSerial == Init => SerialInv
<1> SUFFICES ASSUME Init PROVE SerialInv
  OBVIOUS
<1>1. /\ asked = [k \in Keys |-> 0] /\ notes = [k \in Keys |-> 0]
      /\ pc = [p \in Proc |-> "idle"]
  BY DEF Init
<1>2. \A k \in Keys : Effects(k) = 0
  BY <1>1 DEF Effects
<1> QED
  BY <1>1, <1>2, InitGate DEF SerialInv

\* Alone, a run is never rolled back.
LEMMA NoRollback ==
  ASSUME Serial, SerialInv, NEW p \in Proc
  PROVE  /\ ~UnknownAction(p) /\ ~RecordRaises(p) /\ ~RecordConflict(p)
         /\ ~DeadlockVictim(p) /\ ~Crash(p) /\ ~ExecuteReplyLost(p)
<1>1. job[p] \in Jobs /\ at[p] \in DOMAIN job[p].decs /\ Key(p) \in Keys
  BY DecisionType DEF SerialInv, GateInv
<1>2. Dec(p).action \in DOMAIN Threshold \cap SignatureShapes
  BY <1>1 DEF Serial, Dec
<1>3. ~UnknownAction(p) /\ ~RecordRaises(p)
  BY <1>2 DEF UnknownAction, RecordRaises
<1>4. ~RecordConflict(p)
  BY DEF RecordConflict, Inserting, SerialInv, Recorded
<1>5. ~DeadlockVictim(p)
  BY DEF DeadlockVictim, Blockers, Serial
<1>6. ~Crash(p) /\ ~ExecuteReplyLost(p)
  BY DEF Crash, ExecuteReplyLost, Serial
<1> QED
  BY <1>3, <1>4, <1>5, <1>6

\* A decision at its client call has had no effect yet.
LEMMA FreshAtExec ==
  ASSUME Serial, SerialInv, NEW p \in Proc, pc[p] = "exec"
  PROVE  Key(p) \in Keys /\ Effects(Key(p)) = 0
<1>1. Key(p) \in Keys /\ TypeOK
  BY DecisionType DEF SerialInv, GateInv
<1>2. ~Recorded(Key(p)) /\ InFlight(Key(p)) = {}
  BY DEF SerialInv, InFlight, Serial
<1>3. Effects(Key(p)) \in Nat
  BY <1>1 DEF Effects, TypeOK
<1> QED
  BY <1>1, <1>2, <1>3 DEF SerialInv

Count == [k \in Keys |-> Effects(k)]

\* Effects change at one decision only, from none to one.
LEMMA EffectStep ==
  ASSUME Serial, SerialInv, [Next]_vars
  PROVE  \/ Count' = Count
         \/ \E p \in Proc : /\ ExecuteLands(p) /\ Key(p) \in Keys
                           /\ Count[Key(p)] = 0
                           /\ Count' = [Count EXCEPT ![Key(p)] = 1]
<1>1. CASE UNCHANGED github
  BY <1>1 DEF github, Effects, Count
<1>2. CASE ~UNCHANGED github
  <2>1. PICK p \in Proc : /\ ExecuteLands(p) \/ ExecuteReplyLost(p)
                         /\ Calling(p) /\ TakeEffect(p)
    BY <1>2, GithubChanges
  <2>2. ExecuteLands(p)
    BY <2>1, NoRollback
  <2>3. TypeOK
    BY DEF SerialInv, GateInv
  <2>4. Key(p) \in Keys /\ Effects(Key(p)) = 0
    BY <2>1, FreshAtExec DEF Calling
  <2>5. asked[Key(p)] \in Nat /\ notes[Key(p)] \in Nat
    BY <2>3, <2>4 DEF TypeOK
  <2>6. asked'[Key(p)] + notes'[Key(p)] = 1
    BY <2>1, <2>3, <2>4, <2>5, EffectGrows DEF Effects
  <2>7. \A k \in Keys \ {Key(p)} : asked'[k] + notes'[k] = asked[k] + notes[k]
    BY <2>1, <2>3, EffectGrows
  <2>8. Count' = [k \in Keys |-> asked'[k] + notes'[k]]
    BY DEF Count, Effects
  <2>9. Count = [k \in Keys |-> asked[k] + notes[k]]
    BY DEF Count, Effects
  <2>10. Count' = [Count EXCEPT ![Key(p)] = 1]
    BY <2>4, <2>6, <2>7, <2>8, <2>9
  <2> QED
    BY <2>2, <2>4, <2>9, <2>10 DEF Effects
<1> QED
  BY <1>1, <1>2

\* Alone, the process that moves keeps the books: what took effect stays
\* recorded or on its way to the table.
LEMMA NextSerial ==
  ASSUME Serial, SerialInv, [Next]_vars
  PROVE  SerialInv'
<1>1. GateInv' /\ TypeOK /\ TypeOK' /\ OutcomeTellsTheTruth
  BY NextGate DEF SerialInv, GateInv
<1>2. Count \in [Keys -> Nat] /\ \A k \in Keys : Count[k] <= 1
  BY <1>1 DEF SerialInv, Count, Effects, TypeOK
<1>3. \A k \in Keys : Effects(k)' <= 1
  <2>1. \A k \in Keys : Count'[k] <= 1
    BY <1>2, EffectStep
  <2> QED
    BY <2>1 DEF Count
<1>4. CASE UNCHANGED vars
  <2>1. UNCHANGED <<rows, open, pc, job, at, executed, asked, notes>>
    BY <1>4 DEF vars, table, github
  <2>2. /\ \A k \in Keys : Effects(k)' = Effects(k) /\ Recorded(k)' = Recorded(k)
                          /\ InFlight(k)' = InFlight(k)
        /\ \A p \in Proc : Recorded(Key(p))' = Recorded(Key(p))
    BY <2>1 DEF Effects, Recorded, InFlight, Key, Dec
  <2> QED
    BY <1>1, <1>3, <2>1, <2>2 DEF SerialInv
<1>5. ASSUME NEW p \in Proc, Start(p) \/ Step(p) \/ Crash(p)
      PROVE  /\ \A k \in Keys : Effects(k)' > 0 => Recorded(k)' \/ InFlight(k)' # {}
             /\ \A q \in Proc : pc'[q] \in {"exec", "record"} => ~Recorded(Key(q))'
  <2>1. Proc = {p}
    BY DEF Serial
  <2>2. Key(p) \in Keys
    BY <1>1, DecisionType
  <2>3. ASSUME NEW k \in Keys, Effects(k) > 0, pc[p] # "record" \/ ~executed[p]
        PROVE  Recorded(k)
    BY <2>1, <2>3 DEF SerialInv, InFlight
  \* Steps that leave GitHub and the table alone.
  <2>4. CASE \/ Start(p) \/ PregateHit(p) \/ PregateMiss(p) \/ ExecuteShadow(p)
             \/ ExecuteNoClient(p) \/ ExecuteFails(p) \/ RecordSkipped(p)
             \/ NextDecision(p)
    <3>1. UNCHANGED <<rows, open, asked, notes>>
      BY <2>4 DEF Start, PregateHit, PregateMiss, ExecuteShadow,
         ExecuteNoClient, ExecuteFails, RecordSkipped, NextDecision, table, github
    <3>2. \A k \in Keys : Effects(k)' = Effects(k) /\ Recorded(k)' = Recorded(k)
      BY <3>1 DEF Effects, Recorded
    <3>3. pc[p] # "record" \/ ~executed[p]
      <4>1. RecordSkipped(p) => ~executed[p]
        BY <1>1 DEF RecordSkipped, ShouldRecord, OutcomeTellsTheTruth,
           OutcomeOf, NO_RECORD_OUTCOMES
      <4> QED
        BY <2>4, <4>1 DEF Start, Ended, PregateHit, PregateMiss, ExecuteShadow,
           ExecuteNoClient, ExecuteFails, Calling, NextDecision
    <3>4. ASSUME pc'[p] \in {"exec", "record"}
          PROVE  ~Recorded(Key(p)) /\ job' = job /\ at' = at
      <4>1. CASE pc'[p] = "exec"
        <5>1. PregateMiss(p)
          BY <1>1, <1>5, <4>1, EntersExec
        <5>2. Dec(p).action \in SignatureShapes
          BY <1>1, DecisionType DEF Serial, Dec
        <5> QED
          BY <2>1, <5>1, <5>2 DEF PregateMiss, Visible, Recorded
      <4>2. CASE pc'[p] = "record"
        BY <1>1, <1>5, <4>2, EntersRecord DEF SerialInv
      <4> QED
        BY <3>4, <4>1, <4>2
    <3>5. ASSUME pc'[p] \in {"exec", "record"} PROVE ~Recorded(Key(p))'
      <4>1. Key(p)' = Key(p)
        BY <3>4, <3>5 DEF Key, Dec
      <4> QED
        BY <3>1, <3>4, <3>5, <4>1 DEF Recorded
    <3> QED
      BY <2>1, <2>3, <3>2, <3>3, <3>5
  <2>5. CASE ExecuteLands(p)
    <3>1. /\ UNCHANGED <<rows, open, job, at>>
          /\ pc[p] = "exec" /\ pc'[p] = "record" /\ executed'[p]
      BY <1>1, <2>5 DEF ExecuteLands, Calling, ToRecord, table, TypeOK
    <3>2. Key(p)' = Key(p) /\ \A k \in Keys : Recorded(k)' = Recorded(k)
      BY <3>1 DEF Key, Dec, Recorded
    <3>3. InFlight(Key(p))' # {}
      BY <3>1, <3>2 DEF InFlight
    <3>4. ASSUME NEW k \in Keys \ {Key(p)} PROVE Effects(k)' = Effects(k)
      BY <1>1, <2>5, EffectGrows DEF ExecuteLands, Effects
    <3>5. \A k \in Keys : Effects(k)' > 0 => Recorded(k)' \/ InFlight(k)' # {}
      BY <2>3, <3>1, <3>2, <3>3, <3>4
    <3>6. ~Recorded(Key(p))'
      BY <2>2, <3>1, <3>2 DEF SerialInv, Recorded
    <3> QED
      BY <2>1, <3>5, <3>6
  <2>6. CASE RecordInserts(p)
    <3> DEFINE row == [outcome |-> result[p], mode |-> Mode(p)]
    <3>1. row \in Row
      BY <1>1, DecisionType DEF Row, Mode, TypeOK
    <3>2. row # None
      BY <3>1, NoneAssumption
    <3>3. /\ UNCHANGED <<rows, asked, notes>>
          /\ open' = [open EXCEPT ![p][Key(p)] = row]
          /\ pc'[p] = "next"
      BY <1>1, <2>6 DEF RecordInserts, ToNext, github, TypeOK
    <3> HIDE DEF row
    <3>4. open'[p][Key(p)] = row /\ \A k \in Keys \ {Key(p)} : open'[p][k] = open[p][k]
      BY <1>1, <2>2, <3>3 DEF TypeOK
    <3>5. \A k \in Keys : Recorded(k) => Recorded(k)'
      BY <2>1, <3>2, <3>3, <3>4 DEF Recorded
    <3>6. ASSUME NEW k \in Keys, Effects(k)' > 0 PROVE Recorded(k)'
      <4>1. Effects(k) > 0
        BY <3>3, <3>6 DEF Effects
      <4>2. CASE k = Key(p)
        BY <2>1, <3>2, <3>4, <4>2 DEF Recorded
      <4>3. CASE k # Key(p)
        <5>1. InFlight(k) = {}
          BY <2>1, <4>3 DEF InFlight
        <5> QED
          BY <3>5, <4>1, <5>1 DEF SerialInv
      <4> QED
        BY <4>2, <4>3
    <3> QED
      BY <2>1, <3>3, <3>6
  <2>7. CASE Commit(p)
    <3>1. /\ UNCHANGED <<asked, notes>>
          /\ rows' = [k \in Keys |-> IF open[p][k] # None THEN open[p][k] ELSE rows[k]]
          /\ pc[p] = "next" /\ pc'[p] = "done"
      BY <1>1, <2>7 DEF Commit, github, TypeOK
    <3>2. \A k \in Keys : Recorded(k) => Recorded(k)'
      BY <2>1, <3>1 DEF Recorded
    <3>3. \A k \in Keys : Effects(k)' = Effects(k)
      BY <3>1 DEF Effects
    <3> QED
      BY <2>1, <2>3, <3>1, <3>2, <3>3
  <2> QED
    BY <1>5, <2>4, <2>5, <2>6, <2>7, NoRollback DEF Step
<1> QED
  BY <1>1, <1>3, <1>4, <1>5, OneMoves DEF SerialInv

\* The decision's count of effects goes up as AtMostOnce allows.
THEOREM SerialRunsPerformOnce ==
  ASSUME Serial
  PROVE  Spec => ImplementsAtMostOnce
<1>1. Init => SerialInv
  BY InitSerial
<1>2. SerialInv /\ [Next]_vars => SerialInv'
  BY NextSerial
<1>3. Init => Ledger!Init
  <2> SUFFICES ASSUME Init PROVE Ledger!Init
    OBVIOUS
  <2>1. asked = [k \in Keys |-> 0] /\ notes = [k \in Keys |-> 0]
    BY DEF Init
  <2> QED
    BY <2>1 DEF Ledger!Init, Effects
<1>4. SerialInv /\ [Next]_vars => [Ledger!Next]_Count
  BY EffectStep DEF Ledger!Next, Ledger!Perform, Count
<1> QED
  BY <1>1, <1>2, <1>3, <1>4, PTL DEF Spec, ImplementsAtMostOnce, Ledger!Spec, Count

\* What agents/dedupe.py promises without exception holds when runs follow each
\* other, no answer is lost and nobody dies: at most one side effect.
THEOREM OneSideEffectWhenSerial ==
  ASSUME Serial
  PROVE  Spec => []ExactlyOneSideEffect
<1>1. Init => SerialInv
  BY InitSerial
<1>2. SerialInv /\ [Next]_vars => SerialInv'
  BY NextSerial
<1>3. SerialInv => ExactlyOneSideEffect
  BY DEF SerialInv, ExactlyOneSideEffect
<1> QED
  BY <1>1, <1>2, <1>3, PTL DEF Spec

-----------------------------------------------------------------------------
(* Every effect is accounted for.                                          *)

\* EffectsAccounted counts processes: only finitely many have run so far.
HasRun == {p \in Proc : pc[p] # "idle"}

\* The unique index: one session at most holds a key, no committed row has it,
\* and a decision past its pre-gate is not one its own session has recorded.
OneHolder ==
  \A k \in Keys : \A p, q \in Proc :
    open[p][k] # None /\ open[q][k] # None => p = q

Uncommitted ==
  \A k \in Keys : \A p \in Proc : open[p][k] # None =>
    /\ rows[k] = None
    /\ open[p][k].mode = Mode(p)
    /\ pc[p] \notin Ended

NotRecordedYet ==
  \A p \in Proc :
    pc[p] \in {"exec", "record"} /\ Dec(p).action \in SignatureShapes =>
      open[p][Key(p)] = None

BooksInv ==
  /\ GateInv
  /\ IsFiniteSet(HasRun)
  /\ OneHolder /\ Uncommitted /\ NotRecordedYet
  /\ EffectsAccounted

One(b) == IF b THEN 1 ELSE 0

\* Changing whether one element is in a set changes its size by one.
LEMMA SizeMoves ==
  ASSUME NEW S, NEW T, NEW x, IsFiniteSet(S), S \ {x} = T \ {x}
  PROVE  /\ IsFiniteSet(T)
         /\ Cardinality(S) \in Nat /\ Cardinality(T) \in Nat
         /\ Cardinality(T) + One(x \in S) = Cardinality(S) + One(x \in T)
<1> DEFINE R == S \ {x}
<1>1. IsFiniteSet(R) /\ R = T \ {x}
  BY FS_RemoveElement
<1>2. Cardinality(R) \in Nat
  BY <1>1, FS_CardinalityType
<1>3. ASSUME NEW U, U \ {x} = R
      PROVE  IsFiniteSet(U) /\ Cardinality(U) = Cardinality(R) + One(x \in U)
  <2>1. CASE x \in U
    <3>1. U = R \cup {x} /\ x \notin R
      BY <1>3, <2>1
    <3>2. IsFiniteSet(R \cup {x}) /\ Cardinality(R \cup {x}) = Cardinality(R) + 1
      BY <1>1, <3>1, FS_AddElement
    <3> QED
      BY <2>1, <3>1, <3>2 DEF One
  <2>2. CASE x \notin U
    <3>1. U = R
      BY <1>3, <2>2
    <3> QED
      BY <1>1, <1>2, <2>2, <3>1 DEF One
  <2> QED
    BY <2>1, <2>2
<1>4. /\ Cardinality(S) = Cardinality(R) + One(x \in S)
      /\ IsFiniteSet(T) /\ Cardinality(T) = Cardinality(R) + One(x \in T)
  BY <1>1, <1>3
<1>5. One(x \in S) \in Nat /\ One(x \in T) \in Nat
  BY DEF One
<1> QED
  BY <1>2, <1>4, <1>5

\* The sets EffectsAccounted counts are finite.
LEMMA CountedFinite ==
  ASSUME BooksInv, NEW k \in Keys
  PROVE  IsFiniteSet(InFlight(k)) /\ IsFiniteSet(Flushed(k))
<1>1. InFlight(k) \subseteq HasRun
  BY DEF InFlight, HasRun
<1>2. Flushed(k) \subseteq HasRun
  BY DEF Flushed, HasRun, BooksInv, Uncommitted, Ended
<1> QED
  BY <1>1, <1>2, FS_Subset DEF BooksInv

\* The books balance after a step of p if p's own entries do.
LEMMA Balances ==
  ASSUME BooksInv, TypeOK', NEW p \in Proc, Start(p) \/ Step(p) \/ Crash(p),
         NEW k \in Keys,
         Effects(k)' + forgotten[k] + One(p \in InFlight(k))
           + One(p \in Flushed(k)) + Backed(k)
         = Effects(k) + forgotten'[k] + One(p \in InFlight(k)')
           + One(p \in Flushed(k)') + Backed(k)'
  PROVE  Effects(k)' = forgotten'[k] + Cardinality(InFlight(k)')
                       + Cardinality(Flushed(k)') + Backed(k)'
<1>1. TypeOK
  BY DEF BooksInv, GateInv
<1>2. InFlight(k) \ {p} = InFlight(k)' \ {p}
  <2>1. \A q \in Proc \ {p} : Key(q)' = Key(q)
    BY <1>1, OthersKeep DEF Key, Dec
  <2> QED
    BY <1>1, <2>1, OthersKeep DEF InFlight
<1>3. Flushed(k) \ {p} = Flushed(k)' \ {p}
  BY <1>1, OthersKeep DEF Flushed, Mode
<1> DEFINE i == Cardinality(InFlight(k))
           i1 == Cardinality(InFlight(k)')
           f == Cardinality(Flushed(k))
           f1 == Cardinality(Flushed(k)')
           a == One(p \in InFlight(k))
           a1 == One(p \in InFlight(k)')
           b == One(p \in Flushed(k))
           b1 == One(p \in Flushed(k)')
<1>4. i \in Nat /\ i1 \in Nat /\ i1 + a = i + a1
  BY <1>2, CountedFinite, SizeMoves
<1>5. f \in Nat /\ f1 \in Nat /\ f1 + b = f + b1
  BY <1>3, CountedFinite, SizeMoves
<1>6. a \in Nat /\ a1 \in Nat /\ b \in Nat /\ b1 \in Nat
  BY DEF One
<1>7. /\ Effects(k) \in Nat /\ Effects(k)' \in Nat
      /\ forgotten[k] \in Nat /\ forgotten'[k] \in Nat
      /\ Backed(k) \in Nat /\ Backed(k)' \in Nat
  BY <1>1 DEF TypeOK, Effects, Backed
<1>8. Effects(k) = forgotten[k] + i + f + Backed(k)
  BY DEF BooksInv, EffectsAccounted
<1> HIDE DEF i, i1, f, f1, a, a1, b, b1
<1>9. Effects(k)' + forgotten[k] + a + b + Backed(k)
        = Effects(k) + forgotten'[k] + a1 + b1 + Backed(k)'
  BY DEF a, a1, b, b1
<1>10. Effects(k)' = forgotten'[k] + i1 + f1 + Backed(k)'
  BY <1>4, <1>5, <1>6, <1>7, <1>8, <1>9
<1> QED
  BY <1>10 DEF i1, f1

\* What a step of p does to its own session.
LEMMA SessionSteps ==
  ASSUME BooksInv, NEW p \in Proc, Start(p) \/ Step(p) \/ Crash(p)
  PROVE  \/ /\ open' = [open EXCEPT ![p] = EmptySession] /\ rows' = rows
         \/ /\ Commit(p) /\ open' = [open EXCEPT ![p] = EmptySession]
            /\ \A k \in Keys : rows'[k] # rows[k] => open[p][k] # None
         \/ /\ RecordInserts(p) /\ rows' = rows
            /\ open' = [open EXCEPT ![p][Key(p)] =
                          [outcome |-> result[p], mode |-> Mode(p)]]
         \/ /\ open' = open /\ rows' = rows
            /\ pc'[p] = "gate" /\ pc[p] \in Ended
         \/ /\ open' = open /\ rows' = rows
            /\ job' = job /\ pc'[p] \notin Ended
<1>1. TypeOK
  BY DEF BooksInv, GateInv
<1>2. ASSUME Rollback(p)
      PROVE  open' = [open EXCEPT ![p] = EmptySession] /\ rows' = rows
  BY <1>2 DEF Rollback
<1>3. CASE Commit(p)
  BY <1>3 DEF Commit
<1>4. CASE RecordInserts(p)
  BY <1>4 DEF RecordInserts
<1>5. CASE Start(p)
  BY <1>1, <1>5 DEF Start, table, TypeOK
<1>6. CASE UnknownAction(p) \/ RecordRaises(p) \/ RecordConflict(p)
           \/ DeadlockVictim(p) \/ Crash(p)
  BY <1>2, <1>6 DEF UnknownAction, RecordRaises, RecordConflict,
     DeadlockVictim, Crash, Raise
<1>7. CASE \/ PregateHit(p) \/ PregateMiss(p) \/ ExecuteShadow(p)
           \/ ExecuteNoClient(p) \/ ExecuteLands(p) \/ ExecuteFails(p)
           \/ ExecuteReplyLost(p) \/ RecordSkipped(p) \/ NextDecision(p)
  BY <1>1, <1>7 DEF PregateHit, PregateMiss, ExecuteShadow, ExecuteNoClient,
     ExecuteLands, ExecuteFails, ExecuteReplyLost, RecordSkipped,
     NextDecision, ToRecord, ToNext, table, Ended, TypeOK
<1> QED
  BY <1>3, <1>4, <1>5, <1>6, <1>7 DEF Step

\* The unique index keeps sessions and table apart.
LEMMA NextUnique ==
  ASSUME BooksInv, NEW p \in Proc, Start(p) \/ Step(p) \/ Crash(p)
  PROVE  OneHolder' /\ Uncommitted' /\ NotRecordedYet'
<1>1. TypeOK /\ OneHolder /\ Uncommitted /\ NotRecordedYet
  BY DEF BooksInv, GateInv
<1>2. Key(p) \in Keys /\ \A q \in Proc \ {p} : Key(q)' = Key(q) /\ Mode(q)' = Mode(q)
  BY <1>1, DecisionType, OthersKeep DEF Key, Dec, Mode
<1>3. \A q \in Proc \ {p} : open'[q] = open[q] /\ pc'[q] = pc[q]
  BY <1>1, OthersKeep
<1>4. ASSUME NEW q \in Proc, pc'[q] \in {"exec", "record"},
             Dec(q)'.action \in SignatureShapes
      PROVE  open'[q][Key(q)'] = None
  <2>1. CASE q # p
    <3>1. Dec(q)' = Dec(q)
      BY <1>1, <2>1, OthersKeep DEF Dec
    <3> QED
      BY <1>1, <1>2, <1>3, <1>4, <2>1, <3>1 DEF NotRecordedYet
  <2>2. CASE q = p /\ pc'[p] = "exec"
    <3>1. PregateMiss(p)
      BY <1>1, <2>2, EntersExec
    <3>2. open' = open /\ Key(p)' = Key(p) /\ Dec(p)' = Dec(p)
      BY <3>1 DEF PregateMiss, table, Key, Dec
    <3> QED
      BY <1>4, <2>2, <3>1, <3>2 DEF PregateMiss, Visible
  <2>3. CASE q = p /\ pc'[p] = "record"
    <3>1. pc[p] = "exec" /\ UNCHANGED <<job, at, open>>
      BY <1>1, <2>3, EntersRecord
    <3>2. Key(p)' = Key(p) /\ Dec(p)' = Dec(p)
      BY <3>1 DEF Key, Dec
    <3> QED
      BY <1>1, <1>4, <2>3, <3>1, <3>2 DEF NotRecordedYet
  <2> QED
    BY <1>4, <2>1, <2>2, <2>3
<1>5. NotRecordedYet'
  BY <1>4 DEF NotRecordedYet
\* p's session is empty afterwards.
<1>6. ASSUME open' = [open EXCEPT ![p] = EmptySession],
             \A k \in Keys : rows'[k] # rows[k] => open[p][k] # None
      PROVE  OneHolder' /\ Uncommitted'
  <2>1. \A k \in Keys : open'[p][k] = None
    BY <1>1, <1>6 DEF EmptySession, TypeOK
  <2>2. OneHolder'
    BY <1>1, <1>3, <2>1 DEF OneHolder
  <2>3. ASSUME NEW k \in Keys, NEW q \in Proc, open'[q][k] # None
        PROVE  rows'[k] = None /\ open'[q][k].mode = Mode(q)' /\ pc'[q] \notin Ended
    <3>1. q # p /\ open[q][k] # None
      BY <1>3, <2>1, <2>3
    <3>2. open[p][k] = None
      BY <1>1, <3>1 DEF OneHolder
    <3> QED
      BY <1>1, <1>2, <1>3, <1>6, <3>1, <3>2 DEF Uncommitted
  <2> QED
    BY <2>2, <2>3 DEF Uncommitted
<1>7. CASE RecordInserts(p) /\ rows' = rows
           /\ open' = [open EXCEPT ![p][Key(p)] =
                         [outcome |-> result[p], mode |-> Mode(p)]]
  <2> DEFINE new == [outcome |-> result[p], mode |-> Mode(p)]
  <2>1. new.mode = Mode(p)
    OBVIOUS
  <2>2. open' = [open EXCEPT ![p][Key(p)] = new]
    BY <1>7
  <2> HIDE DEF new
  <2>3. /\ open'[p][Key(p)] = new
        /\ \A k \in Keys \ {Key(p)} : open'[p][k] = open[p][k]
    BY <1>1, <1>2, <2>2 DEF TypeOK
  <2>4. /\ rows[Key(p)] = None /\ job' = job /\ pc'[p] = "next"
        /\ \A q \in Proc \ {p} : open[q][Key(p)] = None
        /\ pc[p] = "record"
    BY <1>1, <1>7 DEF RecordInserts, Inserting, Blockers, ToNext, TypeOK
  <2>5. Mode(p)' = Mode(p) /\ pc'[p] \notin Ended
    BY <2>4 DEF Mode, Ended
  <2>6. OneHolder'
    BY <1>1, <1>3, <2>3, <2>4 DEF OneHolder
  <2>7. ASSUME NEW k \in Keys, NEW q \in Proc, open'[q][k] # None
        PROVE  rows'[k] = None /\ open'[q][k].mode = Mode(q)' /\ pc'[q] \notin Ended
    <3>1. CASE q = p /\ k = Key(p)
      BY <1>7, <2>1, <2>3, <2>4, <2>5, <3>1
    <3>2. CASE q = p /\ k # Key(p)
      BY <1>1, <1>7, <2>3, <2>5, <2>7, <3>2 DEF Uncommitted
    <3>3. CASE q # p
      BY <1>1, <1>2, <1>3, <1>7, <2>7, <3>3 DEF Uncommitted
    <3> QED
      BY <3>1, <3>2, <3>3
  <2> QED
    BY <1>5, <2>6, <2>7 DEF Uncommitted
<1>8. ASSUME open' = open, rows' = rows,
             \/ pc'[p] = "gate" /\ pc[p] \in Ended
             \/ job' = job /\ pc'[p] \notin Ended
      PROVE  OneHolder' /\ Uncommitted'
  <2>1. OneHolder'
    BY <1>1, <1>8 DEF OneHolder
  <2>2. ASSUME NEW k \in Keys, NEW q \in Proc, open'[q][k] # None
        PROVE  rows'[k] = None /\ open'[q][k].mode = Mode(q)' /\ pc'[q] \notin Ended
    <3>1. CASE q # p
      BY <1>1, <1>2, <1>3, <1>8, <2>2, <3>1 DEF Uncommitted
    <3>2. CASE q = p
      BY <1>1, <1>8, <2>2, <3>2 DEF Uncommitted, Mode
    <3> QED
      BY <3>1, <3>2
  <2> QED
    BY <2>1, <2>2 DEF Uncommitted
<1>9. OneHolder' /\ Uncommitted'
  BY <1>6, <1>7, <1>8, SessionSteps
<1> QED
  BY <1>5, <1>9

\* Only what p has flushed and what it is about to record counts as p's own.
LEMMA Own ==
  ASSUME NEW p \in Proc, NEW k \in Keys
  PROVE  /\ p \in InFlight(k) <=> pc[p] = "record" /\ executed[p] /\ Key(p) = k
         /\ p \in Flushed(k) <=> open[p][k] # None /\ Mode(p) # "shadow"
         /\ LostWith(p, k) = One(p \in Flushed(k)) + One(p \in InFlight(k))
<1>1. p \in InFlight(k) <=> pc[p] = "record" /\ executed[p] /\ Key(p) = k
  BY DEF InFlight
<1>2. p \in Flushed(k) <=> open[p][k] # None /\ Mode(p) # "shadow"
  BY DEF Flushed
<1> QED
  BY <1>1, <1>2 DEF LostWith, One

LEMMA OwnAfter ==
  ASSUME NEW p \in Proc, NEW k \in Keys
  PROVE  /\ p \in InFlight(k)' <=> pc'[p] = "record" /\ executed'[p] /\ Key(p)' = k
         /\ p \in Flushed(k)' <=> open'[p][k] # None /\ Mode(p)' # "shadow"
BY DEF InFlight, Flushed

\* Whatever p does, what happened for a key, what is forgotten, on its way,
\* flushed and committed change together.
LEMMA OwnBooksBalance ==
  ASSUME BooksInv, TypeOK', NEW p \in Proc, Start(p) \/ Step(p) \/ Crash(p),
         NEW k \in Keys
  PROVE  Effects(k)' + forgotten[k] + One(p \in InFlight(k))
           + One(p \in Flushed(k)) + Backed(k)
         = Effects(k) + forgotten'[k] + One(p \in InFlight(k)')
           + One(p \in Flushed(k)') + Backed(k)'
<1> DEFINE Goal ==
      Effects(k)' + forgotten[k] + One(p \in InFlight(k))
           + One(p \in Flushed(k)) + Backed(k)
         = Effects(k) + forgotten'[k] + One(p \in InFlight(k)')
           + One(p \in Flushed(k)') + Backed(k)'
<1>1. TypeOK /\ OutcomeTellsTheTruth /\ Uncommitted /\ NotRecordedYet
  BY DEF BooksInv, GateInv
<1>2. /\ Effects(k) \in Nat /\ Effects(k)' \in Nat
      /\ forgotten[k] \in Nat /\ forgotten'[k] \in Nat
      /\ Backed(k) \in Nat /\ Backed(k)' \in Nat
  BY <1>1 DEF TypeOK, Effects, Backed
<1>3. \A b : One(b) \in Nat
  BY DEF One
<1>4. One(TRUE) = 1 /\ One(FALSE) = 0
  BY DEF One
<1>5. Key(p) \in Keys /\ Mode(p) \in WriteMode
  BY <1>1, DecisionType DEF Mode
\* The session is rolled back.
<1>6. ASSUME Rollback(p), github' = github, pc'[p] # "record"
      PROVE  Goal
  <2>1. Effects(k)' = Effects(k) /\ Backed(k)' = Backed(k)
    BY <1>6 DEF github, Rollback, Effects, Backed
  <2>2. open'[p][k] = None
    BY <1>1, <1>6 DEF Rollback, EmptySession, TypeOK
  <2>3. p \notin InFlight(k)' /\ p \notin Flushed(k)'
    BY <1>6, <2>2, OwnAfter
  <2>4. forgotten'[k] = forgotten[k] + (One(p \in Flushed(k)) + One(p \in InFlight(k)))
    BY <1>6, Own DEF Rollback
  <2>5. One(p \in InFlight(k)') = 0 /\ One(p \in Flushed(k)') = 0
    BY <2>3 DEF One
  <2> QED
    BY <1>2, <1>3, <2>1, <2>4, <2>5
\* Nothing is counted differently.
<1>7. ASSUME github' = github, rows' = rows, forgotten' = forgotten,
             p \notin InFlight(k), p \notin InFlight(k)',
             p \in Flushed(k) <=> p \in Flushed(k)'
      PROVE  Goal
  <2>1. Effects(k)' = Effects(k) /\ Backed(k)' = Backed(k)
    BY <1>7 DEF github, Effects, Backed
  <2>2. One(p \in InFlight(k)) = 0 /\ One(p \in InFlight(k)') = 0
        /\ One(p \in Flushed(k)) = One(p \in Flushed(k)')
    BY <1>7 DEF One
  <2> QED
    BY <1>2, <1>3, <1>7, <2>1, <2>2
<1>8. CASE UnknownAction(p) \/ RecordRaises(p) \/ DeadlockVictim(p) \/ Crash(p)
           \/ RecordConflict(p)
  BY <1>1, <1>6, <1>8 DEF UnknownAction, RecordRaises, DeadlockVictim, Crash,
     RecordConflict, Raise, ToNext, TypeOK, github
<1>9. CASE Start(p)
  <2>1. open[p][k] = None /\ open' = open /\ pc[p] # "record" /\ pc'[p] = "gate"
    BY <1>1, <1>9 DEF Start, Uncommitted, table, TypeOK, Ended
  <2>2. /\ p \notin InFlight(k) /\ p \notin InFlight(k)'
        /\ p \notin Flushed(k) /\ p \notin Flushed(k)'
    BY <2>1, Own, OwnAfter
  <2> QED
    BY <1>7, <1>9, <2>2 DEF Start, table
<1>10. CASE \/ PregateHit(p) \/ PregateMiss(p) \/ ExecuteShadow(p)
            \/ ExecuteNoClient(p) \/ ExecuteFails(p) \/ RecordSkipped(p)
            \/ NextDecision(p)
  <2>1. github' = github /\ rows' = rows /\ open' = open /\ job' = job
        /\ forgotten' = forgotten
    BY <1>10 DEF PregateHit, PregateMiss, ExecuteShadow, ExecuteNoClient,
       ExecuteFails, RecordSkipped, NextDecision, table
  <2>2. p \notin InFlight(k)
    <3>1. RecordSkipped(p) => ~executed[p]
      BY <1>1 DEF RecordSkipped, ShouldRecord, OutcomeTellsTheTruth,
         OutcomeOf, NO_RECORD_OUTCOMES
    <3>2. pc[p] # "record" \/ ~executed[p]
      BY <1>10, <3>1 DEF PregateHit, PregateMiss, ExecuteShadow,
         ExecuteNoClient, ExecuteFails, Calling, NextDecision
    <3> QED
      BY <3>2, Own
  <2>3. p \notin InFlight(k)'
    <3>1. pc'[p] # "record" \/ ~executed'[p]
      BY <1>1, <1>10 DEF PregateHit, PregateMiss, ExecuteShadow,
         ExecuteNoClient, ExecuteFails, RecordSkipped, NextDecision, ToRecord,
         ToNext, TypeOK
    <3> QED
      BY <3>1, OwnAfter
  <2>4. p \in Flushed(k) <=> p \in Flushed(k)'
    BY <2>1, Own, OwnAfter DEF Mode
  <2> QED
    BY <1>7, <2>1, <2>2, <2>3, <2>4
<1>11. CASE ExecuteLands(p) \/ ExecuteReplyLost(p)
  <2>1. /\ TakeEffect(p) /\ pc[p] = "exec" /\ pc'[p] = "record"
        /\ job' = job /\ at' = at /\ open' = open /\ rows' = rows
    BY <1>1, <1>11 DEF ExecuteLands, ExecuteReplyLost, Calling, ToRecord,
       table, TypeOK
  <2>2. Key(p)' = Key(p) /\ Backed(k)' = Backed(k)
    BY <2>1 DEF Key, Dec, Backed
  <2>3. p \notin InFlight(k) /\ (p \in Flushed(k) <=> p \in Flushed(k)')
    BY <2>1, Own, OwnAfter DEF Mode
  <2>4. One(p \in InFlight(k)) = 0 /\ One(p \in Flushed(k)) = One(p \in Flushed(k)')
    BY <2>3 DEF One
  <2>5. Effects(k)' = Effects(k) + One(k = Key(p))
    <3>1. asked[k] \in Nat /\ notes[k] \in Nat
      BY <1>1 DEF TypeOK
    <3>2. CASE k = Key(p)
      <4>1. One(k = Key(p)) = 1
        BY <3>2 DEF One
      <4>2. asked'[k] + notes'[k] = asked[k] + notes[k] + 1
        BY <1>1, <2>1, <3>1, <3>2, EffectGrows
      <4> QED
        BY <4>1, <4>2 DEF Effects
    <3>3. CASE k # Key(p)
      <4>1. One(k = Key(p)) = 0
        BY <3>3 DEF One
      <4> QED
        BY <1>1, <2>1, <3>1, <3>3, <4>1, EffectGrows DEF Effects
    <3> QED
      BY <3>2, <3>3
  <2>6. CASE ExecuteLands(p)
    <3>1. executed'[p] /\ forgotten' = forgotten
      BY <1>1, <2>6 DEF ExecuteLands, ToRecord, TypeOK
    <3>2. One(p \in InFlight(k)') = One(k = Key(p))
      BY <2>1, <2>2, <3>1, OwnAfter DEF One
    <3> QED
      BY <1>2, <1>3, <2>2, <2>4, <2>5, <3>1, <3>2
  <2>7. CASE ExecuteReplyLost(p)
    <3>1. ~executed'[p]
      BY <1>1, <2>7 DEF ExecuteReplyLost, ToRecord, TypeOK
    <3>2. p \notin InFlight(k)'
      BY <3>1, OwnAfter
    <3>3. One(p \in InFlight(k)') = 0
      BY <3>2 DEF One
    <3>4. forgotten'[k] = forgotten[k] + One(k = Key(p))
      BY <1>1, <1>2, <1>5, <2>7 DEF ExecuteReplyLost, One, TypeOK
    <3> QED
      BY <1>2, <1>3, <2>2, <2>4, <2>5, <3>3, <3>4
  <2> QED
    BY <1>11, <2>6, <2>7
<1>12. CASE RecordInserts(p)
  <2> DEFINE new == [outcome |-> result[p], mode |-> Mode(p)]
  <2>1. /\ github' = github /\ rows' = rows /\ forgotten' = forgotten
        /\ open' = [open EXCEPT ![p][Key(p)] = new]
        /\ job' = job /\ at' = at /\ pc[p] = "record" /\ pc'[p] = "next"
        /\ ShouldRecord(p) /\ Dec(p).action \in SignatureShapes
    BY <1>1, <1>12 DEF RecordInserts, Inserting, ToNext, TypeOK
  <2>2. new # None
    <3>1. new \in Row
      BY <1>1, <1>5 DEF Row, TypeOK
    <3> QED
      BY <3>1, NoneAssumption
  <2> HIDE DEF new
  <2>3. /\ open'[p][Key(p)] # None
        /\ k # Key(p) => open'[p][k] = open[p][k]
    BY <1>1, <1>5, <2>1, <2>2 DEF TypeOK
  <2>4. Effects(k)' = Effects(k) /\ Backed(k)' = Backed(k) /\ Mode(p)' = Mode(p)
    BY <2>1 DEF github, Effects, Backed, Mode
  <2>5. executed[p] <=> Mode(p) # "shadow"
    BY <1>1, <2>1 DEF OutcomeTellsTheTruth, ShouldRecord
  <2>6. open[p][Key(p)] = None
    BY <1>1, <2>1 DEF NotRecordedYet
  <2>7. p \notin InFlight(k)'
    BY <2>1, OwnAfter
  <2>8. One(p \in InFlight(k)') = 0
    BY <2>7 DEF One
  <2>9. CASE k = Key(p)
    <3>1. /\ p \in InFlight(k) <=> Mode(p) # "shadow"
          /\ p \in Flushed(k)' <=> Mode(p) # "shadow"
          /\ p \notin Flushed(k)
      BY <2>1, <2>3, <2>4, <2>5, <2>6, <2>9, Own, OwnAfter
    <3>2. /\ One(p \in InFlight(k)) = One(p \in Flushed(k)')
          /\ One(p \in Flushed(k)) = 0
      BY <3>1 DEF One
    <3> QED
      BY <1>2, <1>3, <2>1, <2>4, <2>8, <3>2
  <2>10. CASE k # Key(p)
    <3>1. p \notin InFlight(k) /\ (p \in Flushed(k) <=> p \in Flushed(k)')
      BY <2>3, <2>4, <2>10, Own, OwnAfter
    <3> QED
      BY <1>7, <2>1, <2>7, <3>1
  <2> QED
    BY <2>9, <2>10
<1>13. CASE Commit(p)
  <2>1. /\ github' = github /\ forgotten' = forgotten
        /\ rows'[k] = IF open[p][k] # None THEN open[p][k] ELSE rows[k]
        /\ pc[p] = "next" /\ pc'[p] = "done"
    BY <1>1, <1>13 DEF Commit, TypeOK
  <2>2. open'[p][k] = None
    BY <1>1, <1>13 DEF Commit, EmptySession, TypeOK
  <2>3. p \notin InFlight(k) /\ p \notin InFlight(k)' /\ p \notin Flushed(k)'
    BY <2>1, <2>2, Own, OwnAfter
  <2>4. /\ One(p \in InFlight(k)) = 0 /\ One(p \in InFlight(k)') = 0
        /\ One(p \in Flushed(k)') = 0
    BY <2>3 DEF One
  <2>5. Effects(k)' = Effects(k)
    BY <2>1 DEF github, Effects
  <2>6. Backed(k)' = Backed(k) + One(p \in Flushed(k))
    <3>1. CASE open[p][k] = None
      <4>1. p \notin Flushed(k)
        BY <3>1, Own
      <4> QED
        BY <1>2, <2>1, <3>1, <4>1 DEF Backed, One
    <3>2. CASE open[p][k] # None
      <4>1. rows[k] = None /\ rows'[k] = open[p][k] /\ open[p][k].mode = Mode(p)
        BY <1>1, <2>1, <3>2 DEF Uncommitted
      <4>2. p \in Flushed(k) <=> Mode(p) # "shadow"
        BY <3>2, Own
      <4> QED
        BY <3>2, <4>1, <4>2 DEF Backed, One
    <3> QED
      BY <3>1, <3>2
  <2> QED
    BY <1>2, <1>3, <2>1, <2>4, <2>5, <2>6
<1> QED
  BY <1>8, <1>9, <1>10, <1>11, <1>12, <1>13 DEF Step

LEMMA NextBooks == BooksInv /\ [Next]_vars => BooksInv'
<1> SUFFICES ASSUME BooksInv, [Next]_vars PROVE BooksInv'
  OBVIOUS
<1>1. GateInv' /\ TypeOK /\ TypeOK'
  BY NextGate DEF BooksInv, GateInv
<1>2. CASE UNCHANGED vars
  <2>1. UNCHANGED <<rows, open, pc, job, at, executed, asked, notes, forgotten>>
    BY <1>2 DEF vars, table, github
  <2>2. /\ HasRun' = HasRun /\ OneHolder' = OneHolder
        /\ Uncommitted' = Uncommitted /\ NotRecordedYet' = NotRecordedYet
    BY <2>1 DEF HasRun, OneHolder, Uncommitted, NotRecordedYet, Key, Dec, Mode
  <2>3. EffectsAccounted'
    BY <2>1 DEF BooksInv, EffectsAccounted, Effects, InFlight, Flushed,
       Backed, Key, Dec, Mode
  <2> QED
    BY <1>1, <2>2, <2>3 DEF BooksInv
<1>3. ASSUME NEW p \in Proc, Start(p) \/ Step(p) \/ Crash(p) PROVE BooksInv'
  <2>1. IsFiniteSet(HasRun')
    <3>1. HasRun \ {p} = HasRun' \ {p}
      BY <1>1, <1>3, OthersKeep DEF HasRun
    <3> QED
      BY <3>1, SizeMoves DEF BooksInv
  <2>2. OneHolder' /\ Uncommitted' /\ NotRecordedYet'
    BY <1>3, NextUnique
  <2>3. EffectsAccounted'
    BY <1>1, <1>3, OwnBooksBalance, Balances DEF EffectsAccounted
  <2> QED
    BY <1>1, <2>1, <2>2, <2>3 DEF BooksInv
<1> QED
  BY <1>2, <1>3, OneMoves

LEMMA InitBooks == Init => BooksInv
<1> SUFFICES ASSUME Init PROVE BooksInv
  OBVIOUS
<1>1. GateInv
  BY InitGate
<1>2. /\ pc = [p \in Proc |-> "idle"] /\ rows = EmptySession
      /\ open = [p \in Proc |-> EmptySession]
      /\ asked = [k \in Keys |-> 0] /\ notes = [k \in Keys |-> 0]
      /\ forgotten = [k \in Keys |-> 0]
  BY DEF Init
<1>3. \A k \in Keys : rows[k] = None /\ \A p \in Proc : open[p][k] = None
  BY <1>2 DEF EmptySession
<1>4. HasRun = {}
  BY <1>2 DEF HasRun
<1>5. IsFiniteSet(HasRun)
  BY <1>4, FS_EmptySet
<1>6. OneHolder /\ Uncommitted /\ NotRecordedYet
  BY <1>2, <1>3 DEF OneHolder, Uncommitted, NotRecordedYet
<1>7. ASSUME NEW k \in Keys
      PROVE  Effects(k) = forgotten[k] + Cardinality(InFlight(k))
                          + Cardinality(Flushed(k)) + Backed(k)
  <2>1. InFlight(k) = {} /\ Flushed(k) = {}
    BY <1>2, <1>3 DEF InFlight, Flushed
  <2>2. Cardinality(InFlight(k)) = 0 /\ Cardinality(Flushed(k)) = 0
    BY <2>1, FS_EmptySet
  <2> QED
    BY <1>2, <1>3, <2>2 DEF Effects, Backed
<1> QED
  BY <1>1, <1>5, <1>6, <1>7 DEF BooksInv, EffectsAccounted

\* Every effect on GitHub has its row, is on the way to it, or was forgotten at
\* one of the named points, for any number of processes and all faults.
THEOREM EffectsAreAccounted == Spec => []EffectsAccounted
<1>1. BooksInv => EffectsAccounted
  BY DEF BooksInv
<1> QED
  BY <1>1, InitBooks, NextBooks, PTL DEF Spec

\* Of every two effects of a decision, at least one was forgotten or its run is
\* about to find the row of the other, for any number of racing processes.
THEOREM DuplicatesForgotten == Spec => []DuplicatesWereForgotten
<1>1. ASSUME BooksInv, NEW k \in Keys
      PROVE  Effects(k) <= 1 + forgotten[k] + Cardinality(InFlight(k))
  <2>1. /\ IsFiniteSet(InFlight(k)) /\ IsFiniteSet(Flushed(k))
        /\ TypeOK /\ OneHolder /\ Uncommitted
        /\ Effects(k) = forgotten[k] + Cardinality(InFlight(k))
                        + Cardinality(Flushed(k)) + Backed(k)
    BY <1>1, CountedFinite DEF BooksInv, GateInv, EffectsAccounted
  <2>2. /\ Cardinality(InFlight(k)) \in Nat /\ Cardinality(Flushed(k)) \in Nat
        /\ forgotten[k] \in Nat /\ Backed(k) \in 0..1
    BY <2>1, FS_CardinalityType DEF TypeOK, Backed
  <2>3. Cardinality(Flushed(k)) + Backed(k) <= 1
    <3>1. CASE Flushed(k) = {}
      BY <2>2, <3>1, FS_EmptySet
    <3>2. CASE Flushed(k) # {}
      <4>1. PICK p \in Flushed(k) : TRUE
        BY <3>2
      <4>2. Flushed(k) = {p}
        BY <2>1, <4>1 DEF Flushed, OneHolder
      <4>3. rows[k] = None
        BY <2>1, <4>1 DEF Flushed, Uncommitted
      <4>4. Cardinality(Flushed(k)) = 1 /\ Backed(k) = 0
        BY <4>2, <4>3, FS_Singleton DEF Backed
      <4> QED
        BY <4>4
    <3> QED
      BY <3>1, <3>2
  <2> QED
    BY <2>1, <2>2, <2>3
<1>2. BooksInv => DuplicatesWereForgotten
  BY <1>1 DEF DuplicatesWereForgotten
<1> QED
  BY <1>2, InitBooks, NextBooks, PTL DEF Spec

-----------------------------------------------------------------------------
(* One run after the other: a chain asks only for what GitHub will take.   *)

ChainOrder == <<"create_branch", "update_file", "open_pr">>

\* Chains as build_test_generation_decisions makes them, run live and without
\* a --fallback-issue, and with one content for each branch.
LiveChains ==
  /\ \A j \in Jobs : \A i \in DOMAIN j.decs :
       j.decs[i].action \in CodeActions =>
         /\ j.stop /\ j.mode # "shadow"
         /\ LandingIssue(j.decs[i]) = None
         /\ i \in 1..3
         /\ \A n \in 1..i : /\ j.decs[n].action = ChainOrder[n]
                            /\ j.decs[n].branch = j.decs[i].branch
  /\ \A j, l \in Jobs : \A i \in DOMAIN j.decs : \A n \in DOMAIN l.decs :
       /\ j.decs[i].action \in CodeActions
       /\ l.decs[n].action \in CodeActions
       /\ j.decs[i].branch = l.decs[n].branch
       => j.decs[i].text = l.decs[n].text

\* What stands on GitHub for a chain step that was carried out.
Stands(k) ==
  CASE k.action = "create_branch" -> k.branch \in refs
    [] k.action = "update_file"   -> k.branch \in files
    [] k.action = "open_pr"       -> k.branch \in pulls

\* GitHub has what was asked for and no more; a chain leaves neither notes nor
\* rows of a dry run, and goes on only over steps that were carried out.
ChainInv ==
  /\ SerialInv
  /\ \A k \in Keys : k.action \in CodeActions =>
       /\ Stands(k) <=> asked[k] > 0
       /\ notes[k] = 0
       /\ \A r \in RowsOf(k) : r.mode # "shadow"
  /\ \A p \in Proc : pc[p] \notin Ended =>
       /\ \A n \in 1..(at[p] - 1) :
            job[p].decs[n].action \in CodeActions =>
              asked[Identity(job[p].decs[n])] > 0
       /\ /\ pc[p] = "next" /\ result[p] \in PROGRESS_OUTCOMES
          /\ Dec(p).action \in CodeActions
          => asked[Key(p)] > 0

LEMMA KeyOfChain ==
  ASSUME LiveChains, NEW k \in Keys, k.action \in CodeActions
  PROVE  /\ \E j \in Jobs : \E i \in DOMAIN j.decs :
              /\ k = Identity(j.decs[i])
              /\ j.decs[i].action = k.action /\ j.decs[i].branch = k.branch
         /\ k.issue = None
<1>1. PICK j \in Jobs : \E i \in DOMAIN j.decs : k = Identity(j.decs[i])
  BY DEF Keys
<1>2. PICK i \in DOMAIN j.decs : k = Identity(j.decs[i])
  BY <1>1
<1>3. k.action = j.decs[i].action
  BY <1>2 DEF Identity
<1>4. k.branch = j.decs[i].branch /\ k.issue = None
  BY <1>2, <1>3 DEF Identity, CodeActions, IssueActions
<1> QED
  BY <1>2, <1>3, <1>4

\* A step of a branch has one key.
LEMMA OneKey ==
  ASSUME LiveChains, NEW k \in Keys, NEW m \in Keys, k.action \in CodeActions,
         m.action = k.action, m.branch = k.branch
  PROVE  m = k
<1> DEFINE Of(j, i, x) == /\ x = Identity(j.decs[i])
                          /\ j.decs[i].action = x.action
                          /\ j.decs[i].branch = x.branch
<1>1. \E j \in Jobs : \E i \in DOMAIN j.decs : Of(j, i, k)
  BY KeyOfChain
<1>2. \E l \in Jobs : \E n \in DOMAIN l.decs : Of(l, n, m)
  BY KeyOfChain
<1>3. PICK j \in Jobs : \E i \in DOMAIN j.decs : Of(j, i, k)
  BY <1>1
<1>4. PICK i \in DOMAIN j.decs : Of(j, i, k)
  BY <1>3
<1>5. PICK l \in Jobs : \E n \in DOMAIN l.decs : Of(l, n, m)
  BY <1>2
<1>6. PICK n \in DOMAIN l.decs : Of(l, n, m)
  BY <1>5
<1>7. j.decs[i].text = l.decs[n].text
  BY <1>4, <1>6 DEF LiveChains
<1> QED
  BY <1>4, <1>6, <1>7 DEF Identity, CodeActions, IssueActions

\* The current decision of a process, if it is a step of a chain.
LEMMA ChainStepAt ==
  ASSUME TypeOK, LiveChains, NEW p \in Proc, Dec(p).action \in CodeActions
  PROVE  /\ job[p].stop /\ Mode(p) # "shadow" /\ LandingIssue(Dec(p)) = None
         /\ at[p] \in 1..3 /\ Key(p) \in Keys
         /\ Key(p).action = Dec(p).action /\ Key(p).branch = Dec(p).branch
         /\ \A n \in 1..at[p] :
              /\ n \in DOMAIN job[p].decs
              /\ job[p].decs[n].action = ChainOrder[n]
              /\ job[p].decs[n].branch = Dec(p).branch
              /\ Identity(job[p].decs[n]) \in Keys
<1>1. job[p] \in Jobs /\ at[p] \in DOMAIN job[p].decs /\ Key(p) \in Keys
      /\ job[p].decs \in Seq(Decision)
  BY DecisionType
<1>2. \A n \in 1..at[p] : n \in DOMAIN job[p].decs
  BY <1>1
<1>3. Key(p).action = Dec(p).action /\ Key(p).branch = Dec(p).branch
  BY DEF Key, Identity
<1> QED
  BY <1>1, <1>2, <1>3 DEF LiveChains, Dec, Mode, Keys

\* A recorded chain step was carried out.
LEMMA RecordedStands ==
  ASSUME ChainInv, NEW k \in Keys, k.action \in CodeActions, Recorded(k)
  PROVE  asked[k] > 0
<1>1. TypeOK /\ RowsTellTheTruth
  BY DEF ChainInv, SerialInv, GateInv
<1>2. PICK r \in RowsOf(k) : TRUE
  BY DEF Recorded, RowsOf
<1>3. Effects(k) > 0 /\ notes[k] = 0 /\ asked[k] \in Nat
  BY <1>1, <1>2 DEF ChainInv, RowsTellTheTruth, TypeOK
<1> QED
  BY <1>3 DEF Effects

LEMMA ChainCallsAccepted ==
  ASSUME Serial, LiveChains, ChainInv, NEW p \in Proc, Calling(p),
         Route(p) = "as_requested"
  PROVE  GithubAccepts(Dec(p))
<1>1. TypeOK /\ pc[p] = "exec"
  BY DEF ChainInv, SerialInv, GateInv, Calling
<1>2. CASE Dec(p).action \notin CodeActions
  BY <1>2 DEF GithubAccepts, CodeActions
<1>3. CASE Dec(p).action \in CodeActions
  <2>1. Effects(Key(p)) = 0
    BY <1>1, FreshAtExec DEF ChainInv
  <2>2. Key(p) \in Keys /\ asked[Key(p)] \in Nat /\ notes[Key(p)] \in Nat
    BY <1>1, DecisionType DEF TypeOK
  <2>3. ~(asked[Key(p)] > 0)
    BY <2>1, <2>2 DEF Effects
  <2>4. ~Stands(Key(p))
    BY <1>1, <1>3, <2>3, ChainStepAt DEF ChainInv
  <2> DEFINE before == Identity(job[p].decs[at[p] - 1])
  <2>5. ASSUME at[p] # 1
        PROVE  /\ before \in Keys /\ before.action = ChainOrder[at[p] - 1]
               /\ before.branch = Dec(p).branch /\ Stands(before)
    <3>1. at[p] - 1 \in 1..(at[p] - 1) /\ at[p] - 1 \in 1..at[p] /\ at[p] - 1 \in 1..2
      BY <1>1, <1>3, <2>5, ChainStepAt
    <3>2. /\ before \in Keys /\ job[p].decs[at[p] - 1].action = ChainOrder[at[p] - 1]
          /\ job[p].decs[at[p] - 1].branch = Dec(p).branch
      BY <1>1, <1>3, <3>1, ChainStepAt
    <3>3. ChainOrder[at[p] - 1] \in CodeActions
      BY <3>1 DEF ChainOrder, CodeActions
    <3>4. before.action = ChainOrder[at[p] - 1] /\ before.branch = Dec(p).branch
      BY <3>2, <3>3 DEF Identity
    <3>5. asked[before] > 0
      BY <1>1, <3>1, <3>2, <3>3 DEF ChainInv, Ended
    <3> QED
      BY <3>2, <3>3, <3>4, <3>5 DEF ChainInv
  <2> HIDE DEF before
  <2>6. at[p] \in 1..3 /\ Dec(p).action = ChainOrder[at[p]]
    BY <1>1, <1>3, ChainStepAt DEF Dec
  <2>7. Key(p).action = Dec(p).action /\ Key(p).branch = Dec(p).branch
    BY <1>1, <1>3, ChainStepAt
  <2>8. CASE at[p] = 1
    BY <2>4, <2>6, <2>7, <2>8 DEF ChainOrder, Stands, GithubAccepts
  <2>9. CASE at[p] = 2
    <3>1. before.action = "create_branch" /\ before.branch = Dec(p).branch /\ Stands(before)
      BY <2>5, <2>9 DEF ChainOrder
    <3>2. Dec(p).action = "update_file"
      BY <2>6, <2>9 DEF ChainOrder
    <3> QED
      BY <2>4, <2>7, <3>1, <3>2 DEF Stands, GithubAccepts
  <2>10. CASE at[p] = 3
    <3>1. before.action = "update_file" /\ before.branch = Dec(p).branch /\ Stands(before)
      BY <2>5, <2>10 DEF ChainOrder
    <3>2. Dec(p).action = "open_pr"
      BY <2>6, <2>10 DEF ChainOrder
    <3> QED
      BY <2>4, <2>7, <3>1, <3>2 DEF Stands, GithubAccepts
  <2> QED
    BY <2>6, <2>8, <2>9, <2>10
<1> QED
  BY <1>2, <1>3

\* A request makes what it is for, and nothing else.
LEMMA NextStands ==
  ASSUME LiveChains, ChainInv, [Next]_vars, NEW k \in Keys, k.action \in CodeActions
  PROVE  (Stands(k)' <=> asked'[k] > 0) /\ notes'[k] = 0
<1>1. TypeOK /\ (Stands(k) <=> asked[k] > 0) /\ notes[k] = 0
  BY DEF ChainInv, SerialInv, GateInv
<1>2. CASE UNCHANGED github
  <2>1. Stands(k)' = Stands(k) /\ asked'[k] = asked[k] /\ notes'[k] = notes[k]
    BY <1>2 DEF github, Stands
  <2> QED
    BY <1>1, <2>1
<1>3. CASE ~UNCHANGED github
  <2>1. PICK p \in Proc : CallSucceeds(p) /\ TakeEffect(p)
    BY <1>3, GithubChanges
  <2> DEFINE made == /\ Route(p) = "as_requested"
                     /\ Dec(p).action = k.action /\ Dec(p).branch = k.branch
  <2>2. made <=> Route(p) = "as_requested" /\ Key(p) = k
    <3>1. ASSUME made PROVE Key(p) = k
      <4>1. Key(p) \in Keys /\ Key(p).action = k.action /\ Key(p).branch = k.branch
        BY <1>1, <3>1, ChainStepAt
      <4> QED
        BY <4>1, OneKey
    <3>2. ASSUME Key(p) = k PROVE Dec(p).action = k.action /\ Dec(p).branch = k.branch
      <4>1. Dec(p).action = k.action
        BY <1>1, <3>2, KeyOfADecision
      <4> QED
        BY <1>1, <3>2, <4>1, ChainStepAt
    <3> QED
      BY <3>1, <3>2
  <2>3. Stands(k)' <=> Stands(k) \/ made
    <3>1. CASE k.action = "create_branch"
      BY <2>1, <3>1 DEF Stands, TakeEffect
    <3>2. CASE k.action = "update_file"
      BY <2>1, <3>2 DEF Stands, TakeEffect
    <3>3. CASE k.action = "open_pr"
      BY <2>1, <3>3 DEF Stands, TakeEffect
    <3> QED
      BY <3>1, <3>2, <3>3 DEF CodeActions
  <2> HIDE DEF made
  <2>4. asked'[k] > 0 <=> asked[k] > 0 \/ made
    <3>1. asked[k] \in Nat
      BY <1>1 DEF TypeOK
    <3>2. CASE made
      BY <1>1, <2>1, <2>2, <3>1, <3>2, EffectGrows
    <3>3. CASE ~made
      BY <1>1, <2>1, <2>2, <3>1, <3>3, EffectGrows
    <3> QED
      BY <3>2, <3>3
  <2>5. notes'[k] = 0
    <3>1. CASE Key(p) # k
      BY <1>1, <2>1, <3>1, EffectGrows
    <3>2. CASE Key(p) = k
      <4>1. Dec(p).action \in CodeActions
        BY <1>1, <3>2, KeyOfADecision
      <4>2. LandingIssue(Dec(p)) = None
        BY <1>1, <4>1, ChainStepAt
      <4>3. Route(p) = "as_requested"
        BY <2>1, <4>2 DEF CallSucceeds
      <4> QED
        BY <1>1, <2>1, <4>3, EffectGrows
    <3> QED
      BY <3>1, <3>2
  <2> QED
    BY <1>1, <2>3, <2>4, <2>5
<1> QED
  BY <1>2, <1>3

LEMMA NextChainRows ==
  ASSUME LiveChains, ChainInv, [Next]_vars, NEW k \in Keys, k.action \in CodeActions,
         NEW r \in RowsOf(k)'
  PROVE  r.mode # "shadow"
<1>1. TypeOK
  BY DEF ChainInv, SerialInv, GateInv
<1>2. CASE r \in RowsOf(k)
  BY <1>2 DEF ChainInv
<1>3. ASSUME NEW p \in Proc, k = Key(p), r = [outcome |-> result[p], mode |-> Mode(p)]
      PROVE  r.mode # "shadow"
  <2>1. Dec(p).action \in CodeActions
    BY <1>1, <1>3, KeyOfADecision
  <2>2. Mode(p) # "shadow"
    BY <1>1, <2>1, ChainStepAt
  <2> QED
    BY <1>3, <2>2
<1> QED
  BY <1>1, <1>2, <1>3, RowsChange

\* A chain that goes on has carried out what is behind it.
LEMMA NextProgress ==
  ASSUME Serial, LiveChains, ChainInv, [Next]_vars, NEW q \in Proc, pc'[q] \notin Ended
  PROVE  /\ \A n \in 1..(at'[q] - 1) :
              job'[q].decs[n].action \in CodeActions =>
                asked'[Identity(job'[q].decs[n])] > 0
         /\ /\ pc'[q] = "next" /\ result'[q] \in PROGRESS_OUTCOMES
            /\ Dec(q)'.action \in CodeActions
            => asked'[Key(q)'] > 0
<1> DEFINE Behind == \A n \in 1..(at[q] - 1) :
                       job[q].decs[n].action \in CodeActions =>
                         asked[Identity(job[q].decs[n])] > 0
           Here == /\ pc[q] = "next" /\ result[q] \in PROGRESS_OUTCOMES
                   /\ Dec(q).action \in CodeActions
                   => asked[Key(q)] > 0
<1>1. TypeOK /\ OutcomeTellsTheTruth /\ job[q] \in Jobs
      /\ at[q] \in DOMAIN job[q].decs /\ job[q].decs \in Seq(Decision) /\ Key(q) \in Keys
  BY DecisionType DEF ChainInv, SerialInv, GateInv
<1>2. pc[q] \notin Ended => Behind /\ Here
  BY DEF ChainInv
<1>3. \A k \in Keys : asked[k] > 0 => asked'[k] > 0
  <2>1. \A k \in Keys : asked[k] \in Nat /\ asked'[k] \in Nat
    BY <1>1, NextType DEF TypeOK
  <2>2. \A k \in Keys : asked'[k] >= asked[k]
    BY <1>1, CountsGrow
  <2> QED
    BY <2>1, <2>2
<1>4. \A n \in 1..at[q] : n \in DOMAIN job[q].decs /\ Identity(job[q].decs[n]) \in Keys
  BY <1>1 DEF Keys
\* q keeps its decision.
<1>5. ASSUME pc[q] \notin Ended, job'[q] = job[q], at'[q] = at[q],
             /\ pc'[q] = "next" /\ result'[q] \in PROGRESS_OUTCOMES
             /\ Dec(q).action \in CodeActions
             => asked[Key(q)] > 0
      PROVE  Behind' /\ Here'
  <2>1. Dec(q)' = Dec(q) /\ Key(q)' = Key(q)
    BY <1>5 DEF Dec, Key
  <2>2. Behind'
    BY <1>1, <1>2, <1>3, <1>4, <1>5
  <2>3. Here'
    BY <1>1, <1>3, <1>5, <2>1
  <2> QED
    BY <2>2, <2>3
<1>6. CASE UNCHANGED vars
  BY <1>2, <1>5, <1>6 DEF vars
<1>7. ASSUME NEW p \in Proc \ {q}, Start(p) \/ Step(p) \/ Crash(p)
      PROVE  Behind' /\ Here'
  BY <1>1, <1>2, <1>5, <1>7, OthersKeep
<1>8. CASE Start(q)
  <2>1. at'[q] = 1 /\ pc'[q] = "gate"
    BY <1>1, <1>8 DEF Start, TypeOK
  <2> QED
    BY <2>1
<1>9. CASE NextDecision(q)
  <2>1. /\ pc[q] = "next" /\ pc'[q] = "gate" /\ at'[q] = at[q] + 1 /\ job' = job
        /\ job[q].stop => result[q] \in PROGRESS_OUTCOMES
    BY <1>1, <1>9 DEF NextDecision, LoopGoesOn, TypeOK
  <2>2. Behind /\ Here
    BY <1>2, <2>1 DEF Ended
  <2>3. ASSUME NEW n \in 1..at[q], job[q].decs[n].action \in CodeActions
        PROVE  asked[Identity(job[q].decs[n])] > 0
    <3>1. CASE n = at[q]
      BY <1>1, <2>1, <2>2, <2>3, <3>1, ChainStepAt DEF Dec, Key
    <3>2. CASE n # at[q]
      BY <1>1, <2>2, <2>3, <3>2
    <3> QED
      BY <3>1, <3>2
  <2>4. Behind'
    BY <1>1, <1>3, <1>4, <2>1, <2>3
  <2> QED
    BY <2>1, <2>4
<1>10. CASE PregateHit(q)
  <2>1. /\ pc[q] = "gate" /\ job' = job /\ at' = at /\ Recorded(Key(q))
    BY <1>10 DEF PregateHit, Visible, Recorded
  <2>2. Dec(q).action \in CodeActions => asked[Key(q)] > 0
    BY <1>1, <2>1, KeyOfADecision, RecordedStands
  <2> QED
    BY <1>5, <2>1, <2>2 DEF Ended
<1>11. CASE \/ PregateMiss(q) \/ ExecuteShadow(q) \/ ExecuteNoClient(q)
            \/ ExecuteLands(q) \/ ExecuteFails(q)
  <2>1. /\ pc[q] \notin Ended /\ job' = job /\ at' = at /\ pc'[q] # "next"
    BY <1>1, <1>11 DEF PregateMiss, ExecuteShadow, ExecuteNoClient,
       ExecuteLands, ExecuteFails, Calling, ToRecord, Ended, TypeOK
  <2> QED
    BY <1>5, <2>1
<1>12. CASE RecordSkipped(q) \/ RecordInserts(q)
  <2>1. /\ pc[q] = "record" /\ job' = job /\ at' = at /\ result'[q] = result[q]
    BY <1>1, <1>12 DEF RecordSkipped, RecordInserts, Inserting, ToNext, TypeOK
  <2>2. ASSUME result[q] \in PROGRESS_OUTCOMES, Dec(q).action \in CodeActions
        PROVE  asked[Key(q)] > 0
    <3>1. Mode(q) # "shadow"
      BY <1>1, <2>2, ChainStepAt
    <3>2. result[q] = OutcomeOf(q, executed[q])
      BY <1>1, <2>1 DEF OutcomeTellsTheTruth
    <3>3. executed[q] /\ Route(q) = "as_requested"
      BY <2>2, <3>1, <3>2 DEF OutcomeOf, PROGRESS_OUTCOMES, Route
    <3> QED
      BY <1>1, <2>1, <3>3 DEF OutcomeTellsTheTruth
  <2> QED
    BY <1>5, <2>1, <2>2 DEF Ended
<1>13. ~Commit(q)
  BY <1>1 DEF Commit, Ended, TypeOK
<1>14. Behind' /\ Here'
  BY <1>6, <1>7, <1>8, <1>9, <1>10, <1>11, <1>12, <1>13, NoRollback, OneMoves
     DEF Step, ChainInv
<1> QED
  BY <1>14

LEMMA InitChain == Init => ChainInv
<1> SUFFICES ASSUME Init PROVE ChainInv
  OBVIOUS
<1>1. /\ asked = [k \in Keys |-> 0] /\ notes = [k \in Keys |-> 0]
      /\ refs = {} /\ files = {} /\ pulls = {}
      /\ pc = [p \in Proc |-> "idle"] /\ rows = EmptySession
      /\ open = [p \in Proc |-> EmptySession]
  BY DEF Init
<1>2. \A k \in Keys : RowsOf(k) = {}
  BY <1>1 DEF RowsOf, EmptySession
<1>3. ASSUME NEW k \in Keys, k.action \in CodeActions
      PROVE  /\ Stands(k) <=> asked[k] > 0
             /\ notes[k] = 0
             /\ \A r \in RowsOf(k) : r.mode # "shadow"
  <2>1. ~Stands(k)
    BY <1>1, <1>3 DEF Stands, CodeActions
  <2> QED
    BY <1>1, <1>2, <2>1
<1>4. \A p \in Proc : pc[p] \in Ended
  BY <1>1 DEF Ended
<1> QED
  BY <1>3, <1>4, InitSerial DEF ChainInv

LEMMA NextChain ==
  ASSUME Serial, LiveChains, ChainInv, [Next]_vars
  PROVE  ChainInv'
<1>1. SerialInv'
  BY NextSerial DEF ChainInv
<1>2. ASSUME NEW k \in Keys, k.action \in CodeActions
      PROVE  /\ Stands(k)' <=> asked'[k] > 0
             /\ notes'[k] = 0
             /\ \A r \in RowsOf(k)' : r.mode # "shadow"
  BY <1>2, NextStands, NextChainRows
<1>3. ASSUME NEW p \in Proc, pc'[p] \notin Ended
      PROVE  /\ \A n \in 1..(at'[p] - 1) :
                  job'[p].decs[n].action \in CodeActions =>
                    asked'[Identity(job'[p].decs[n])] > 0
             /\ /\ pc'[p] = "next" /\ result'[p] \in PROGRESS_OUTCOMES
                /\ Dec(p)'.action \in CodeActions
                => asked'[Key(p)'] > 0
  BY <1>3, NextProgress
<1> QED
  BY <1>1, <1>2, <1>3 DEF ChainInv

\* A chain asks GitHub only for what GitHub will accept, however many chains of
\* however many branches run and whichever of their requests fail, as long as
\* runs follow each other and the chains are as LiveChains says.
THEOREM ChainsAreAcceptable ==
  ASSUME Serial, LiveChains
  PROVE  Spec => []CallsAreAcceptable
<1>1. Init => ChainInv
  BY InitChain
<1>2. ChainInv /\ [Next]_vars => ChainInv'
  BY NextChain
<1>3. ChainInv => CallsAreAcceptable
  BY ChainCallsAccepted DEF CallsAreAcceptable
<1> QED
  BY <1>1, <1>2, <1>3, PTL DEF Spec

\* For such chains the comment of _execute_decision_chain is right: no file is
\* written onto a branch that was not created.
THEOREM NoWriteOutsideABranch ==
  ASSUME Serial, LiveChains
  PROVE  Spec => []NoWriteWithoutBranch
<1>1. CallsAreAcceptable => NoWriteWithoutBranch
  BY DEF CallsAreAcceptable, NoWriteWithoutBranch, GithubAccepts
<1> QED
  BY <1>1, ChainsAreAcceptable, PTL

=============================================================================
