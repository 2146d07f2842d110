------------------------ MODULE WebhookIngressProofs ------------------------
(***************************************************************************)
(* Theorems about WebhookIngress, for any deliveries, repositories, window *)
(* and number of tries, handlers and restarts.                             *)
(***************************************************************************)
EXTENDS WebhookIngress, FiniteSetTheorems, TLAPS

\* What the gates let through.
Clean(d) ==
  /\ HasJob(Event[d])
  /\ Event[d].sender # "Bot" /\ Event[d].signature = "valid"

RepoOf(d) == JobOf(d).repo

\* A job is that of a clean delivery, at some try.
IsJob(j) ==
  \E d \in Delivery, n \in 1..MaxTries : Clean(d) /\ j = [JobOf(d) EXCEPT !.try = n]
Job == {j \in {[JobOf(d) EXCEPT !.try = n] : d \in Delivery, n \in 1..MaxTries} : IsJob(j)}

-----------------------------------------------------------------------------
(* The operators.                                                          *)

LEMMA JobFields ==
  ASSUME NEW d \in Delivery, Clean(d)
  PROVE  /\ d \in Delivery
         /\ Event[d].type \in {"pull_request", "issues", "push"}
         /\ Event[d].repo \in Repo /\ RepoOf(d) \in Repo
         /\ RepoOf(d) = Lower[Event[d].repo]
         /\ JobOf(d).by = d /\ JobOf(d).try = 1
         /\ JobOf(d) \in Job
<1>1. Event[d].repo # None /\ Event[d].type \in {"pull_request", "issues", "push"}
  BY DEF Clean, HasJob, Exact, Wildcard
<1>2. Event[d].repo \in Repo /\ Lower[Event[d].repo] \in Repo
  BY <1>1, EventAssumption, LowerAssumption
<1>3. RepoOf(d) = Lower[Event[d].repo] /\ JobOf(d).by = d /\ JobOf(d).try = 1
  BY DEF RepoOf, JobOf
<1>4. JobOf(d) = [JobOf(d) EXCEPT !.try = 1] /\ 1 \in 1..MaxTries
  BY BoundAssumption DEF JobOf
<1>5. JobOf(d) \in Job
  BY <1>4 DEF Job, IsJob
<1> QED
  BY <1>1, <1>2, <1>3, <1>5

\* Whose job it is never changes, and a job is not None.
LEMMA JobMeaning ==
  ASSUME NEW j \in Job
  PROVE  /\ j # None /\ j.by \in Delivery /\ Clean(j.by)
         /\ j.try \in 1..MaxTries
         /\ j.id = JobOf(j.by).id
<1>1. PICK d \in Delivery, n \in 1..MaxTries : Clean(d) /\ j = [JobOf(d) EXCEPT !.try = n]
  BY DEF Job, IsJob
<1>2. /\ j.by = d /\ j.try = n /\ j.id = JobOf(d).id
  BY <1>1 DEF JobOf
<1>3. j # None
  BY <1>1, NoneAssumption DEF Clean
<1> QED
  BY <1>1, <1>2, <1>3

LEMMA TriedAgain ==
  ASSUME NEW j \in Job, j.try < MaxTries
  PROVE  /\ [j EXCEPT !.try = @ + 1] \in Job
         /\ [j EXCEPT !.try = @ + 1].by = j.by
         /\ [j EXCEPT !.try = @ + 1].id = j.id
<1>1. PICK d \in Delivery, n \in 1..MaxTries : Clean(d) /\ j = [JobOf(d) EXCEPT !.try = n]
  BY DEF Job, IsJob
<1>2. j.try = n
  BY <1>1 DEF JobOf
<1>3. n + 1 \in 1..MaxTries
  BY <1>2, BoundAssumption
<1>4. [j EXCEPT !.try = @ + 1] = [JobOf(d) EXCEPT !.try = n + 1]
  BY <1>1, <1>2 DEF JobOf
<1>5. [j EXCEPT !.try = @ + 1] \in Job
  BY <1>1, <1>3, <1>4 DEF Job, IsJob
<1>6. /\ [j EXCEPT !.try = @ + 1].by = j.by
      /\ [j EXCEPT !.try = @ + 1].id = j.id
  BY <1>1, <1>4 DEF JobOf
<1> QED
  BY <1>5, <1>6

\* Past every gate.
LEMMA Passed ==
  ASSUME NEW d \in Delivery, StopsAt(d) = {}
  PROVE  Clean(d) /\ ~CheckCooldown(RepoOf(d))
<1>1. \A i \in 1..9 : ~(Gates(d)[i][1])
  BY DEF StopsAt
<1>2. ~(Event[d].signature # "valid")
  <2>1. Gates(d)[2][1] <=> (Event[d].signature # "valid")
    BY DEF Gates
  <2>2. ~Gates(d)[2][1]
    BY <1>1
  <2> QED
    BY <2>1, <2>2
<1>3. ~(Event[d].sender = "Bot")
  <2>1. Gates(d)[6][1] <=> (Event[d].sender = "Bot")
    BY DEF Gates
  <2>2. ~Gates(d)[6][1]
    BY <1>1
  <2> QED
    BY <2>1, <2>2
<1>4. HasJob(Event[d])
  <2>1. Gates(d)[7][1] <=> ~HasJob(Event[d])
    BY DEF Gates
  <2>2. ~Gates(d)[7][1]
    BY <1>1
  <2> QED
    BY <2>1, <2>2
<1>5. ~CheckCooldown(Lower[Event[d].repo])
  <2>1. Gates(d)[8][1] <=> (HasJob(Event[d]) /\ CheckCooldown(Lower[Event[d].repo]))
    BY DEF Gates
  <2>2. ~Gates(d)[8][1]
    BY <1>1
  <2> QED
    BY <1>4, <2>1, <2>2
<1> QED
  BY <1>2, <1>3, <1>4, <1>5 DEF Clean, RepoOf, JobOf

\* The first gate that stops d gives an answer, and it is one of a refusal.
LEMMA VerdictType ==
  ASSUME NEW d \in Delivery, StopsAt(d) # {}
  PROVE  Verdict(d) \in Answers \ {"dispatched", "500"}
<1> DEFINE first == CHOOSE i \in StopsAt(d) : \A k \in StopsAt(d) : i <= k
<1>1. StopsAt(d) \subseteq 1..9
  BY DEF StopsAt
<1>2. \E i \in StopsAt(d) : \A k \in StopsAt(d) : i <= k
  BY <1>1
<1>3. first \in 1..9
  BY <1>1, <1>2
<1>4. Verdict(d) = Gates(d)[first][2]
  BY DEF Verdict
<1> HIDE DEF first
<1>5. \A i \in 1..9 : Gates(d)[i][2] \in Answers \ {"dispatched", "500"}
  BY DEF Gates, Answers
<1> QED
  BY <1>3, <1>4, <1>5

-----------------------------------------------------------------------------
(* The invariant.                                                          *)

TypesOK ==
  /\ secret \in BOOLEAN /\ pool \in BOOLEAN
  /\ hpc \in [Delivery -> {"unsent", "enqueue", "resume", "over"}]
  /\ reply \in [Delivery -> BOOLEAN]
  /\ answer \in [Delivery -> Answers \cup {None}]
  /\ last \in [Repo -> 0..MaxTime \cup {None}]
  /\ now \in 0..MaxTime
  /\ enqueued \subseteq [by : Delivery, repo : Repo, at : 0..MaxTime]
  /\ beside \in [Delivery -> SUBSET Delivery]
  /\ restarts \in 0..MaxRestarts

WorkOK ==
  /\ queue \in Seq(Job) /\ running \in Job \cup {None}
  /\ succeeded \subseteq Job /\ failed \subseteq Job
  /\ \A i, k \in 1..Len(queue) : queue[i].id = queue[k].id => i = k
  /\ running # None => \A i \in 1..Len(queue) : queue[i].id # running.id

HasJobBy(d) == \E j \in AllJobs : j.by = d

\* A handler and what it has put in the queue.
HandlerOK(d) ==
  /\ hpc[d] \in {"enqueue", "resume"} => Clean(d)
  /\ hpc[d] \in {"unsent", "enqueue"} => answer[d] = None /\ ~HasJobBy(d)
  /\ hpc[d] = "resume" => answer[d] = None /\ (reply[d] <=> HasJobBy(d))
  /\ answer[d] = "dispatched" => HasJobBy(d)
  /\ answer[d] \in Answers \ {"dispatched", "500"} => ~HasJobBy(d)
HandlersOK == \A d \in Delivery : HandlerOK(d)

\* An enqueue is awaiting its answer, started the cooldown, or was not heard of.
EnqueueOK(x) ==
  /\ x.repo = RepoOf(x.by) /\ x.at <= now
  /\ \/ hpc[x.by] = "resume" /\ reply[x.by]
     \/ hpc[x.by] = "over" /\ answer[x.by] = "500"
     \/ /\ hpc[x.by] = "over" /\ answer[x.by] = "dispatched"
        /\ last[x.repo] # None /\ x.at <= last[x.repo]

Handling(d) == hpc[d] \in {"enqueue", "resume"}
Beside(d, e) == d \in beside[e] \/ e \in beside[d]

\* A request that has passed the gates saw the cooldown of every enqueue that
\* it was not in progress with.
SawOK(d, x) ==
  x.repo = RepoOf(d) /\ x.by # d =>
    Beside(d, x.by) \/ answer[x.by] = "500" \/ x.at + Window <= now

RateOK ==
  /\ \A x \in enqueued : EnqueueOK(x)
  /\ \A d, e \in Delivery : Handling(d) /\ Handling(e) /\ d # e => Beside(d, e)
  /\ \A d \in Delivery, x \in enqueued : hpc[d] = "enqueue" => SawOK(d, x)
  /\ ApartOrOverlapping

IInv == TypesOK /\ WorkOK /\ HandlersOK /\ RateOK

LEMMA InitOK == Init => IInv
<1> SUFFICES ASSUME Init PROVE IInv
  OBVIOUS
<1>1. TypesOK
  BY BoundAssumption DEF Init, TypesOK
<1>2. WorkOK
  BY DEF Init, WorkOK
<1>3. AllJobs = {}
  BY DEF Init, AllJobs, LiveJobs
<1>4. HandlersOK
  BY <1>3, NoneAssumption DEF Init, HandlersOK, HandlerOK, HasJobBy, Answers
<1>5. RateOK
  BY DEF Init, RateOK, ApartOrOverlapping, Handling
<1> QED
  BY <1>1, <1>2, <1>4, <1>5 DEF IInv

-----------------------------------------------------------------------------
(* The queue and the worker.                                               *)

\* Jobs move between queue, worker and results; none appears or vanishes.
LEMMA TakeWork ==
  ASSUME WorkOK, Take
  PROVE  WorkOK' /\ \A d : HasJobBy(d)' <=> HasJobBy(d)
<1>1. /\ running = None /\ queue # << >> /\ queue \in Seq(Job)
      /\ running' = Head(queue) /\ queue' = Tail(queue)
      /\ UNCHANGED <<succeeded, failed>>
  BY DEF Take, WorkOK
<1>2. /\ Len(queue) \in Nat \ {0} /\ Head(queue) = queue[1] /\ queue[1] \in Job
      /\ queue' \in Seq(Job) /\ Len(queue') = Len(queue) - 1
      /\ \A i \in 1..Len(queue') : queue'[i] = queue[i + 1] /\ i + 1 \in 1..Len(queue)
  BY <1>1
<1>3. running' # None
  BY <1>1, <1>2, JobMeaning
<1>4. WorkOK'
  <2>1. \A i, k \in 1..Len(queue') : queue'[i].id = queue'[k].id => i = k
    BY <1>2 DEF WorkOK
  <2>2. \A i \in 1..Len(queue') : queue'[i].id # running'.id
    BY <1>1, <1>2 DEF WorkOK
  <2> QED
    BY <1>1, <1>2, <2>1, <2>2 DEF WorkOK
<1>5. LiveJobs' = LiveJobs
  <2>1. DOMAIN queue = 1..Len(queue) /\ DOMAIN queue' = 1..Len(queue')
    BY <1>1, <1>2
  <2>2. \A i \in DOMAIN queue : i = 1 \/ (i - 1 \in DOMAIN queue' /\ queue[i] = queue'[i - 1])
    BY <1>2, <2>1
  <2>3. \A i \in DOMAIN queue' : i + 1 \in DOMAIN queue /\ queue'[i] = queue[i + 1]
    BY <1>2, <2>1
  <2>4. 1 \in DOMAIN queue /\ queue[1] = running'
    BY <1>1, <1>2, <2>1
  <2>5. /\ LiveJobs = {queue[i] : i \in DOMAIN queue}
        /\ LiveJobs' = {queue'[i] : i \in DOMAIN queue'} \cup {running'}
    BY <1>1, <1>3 DEF LiveJobs
  <2>6. LiveJobs \subseteq LiveJobs'
    BY <2>2, <2>4, <2>5
  <2>7. LiveJobs' \subseteq LiveJobs
    BY <2>3, <2>4, <2>5
  <2> QED
    BY <2>6, <2>7
<1> QED
  BY <1>1, <1>4, <1>5 DEF HasJobBy, AllJobs

\* A job goes to the end of the queue.
LEMMA Queued ==
  ASSUME WorkOK, NEW j \in Job, queue' = Append(queue, j),
         running' \in {running, None},
         \A i \in 1..Len(queue) : queue[i].id # j.id,
         running' # None => running.id # j.id,
         UNCHANGED <<succeeded, failed>>
  PROVE  /\ WorkOK'
         /\ \A d : HasJobBy(d)' <=>
              \/ j.by = d
              \/ \E i \in 1..Len(queue) : queue[i].by = d
              \/ running' # None /\ running.by = d
              \/ \E x \in succeeded \cup failed : x.by = d
<1>1. queue \in Seq(Job)
  BY DEF WorkOK
<1>2. /\ queue' \in Seq(Job) /\ Len(queue') = Len(queue) + 1 /\ Len(queue) \in Nat
      /\ queue'[Len(queue) + 1] = j
      /\ \A i \in 1..Len(queue) : queue'[i] = queue[i]
  BY <1>1
<1>3. WorkOK'
  <2>1. \A i \in 1..Len(queue') : i \in 1..Len(queue) \/ i = Len(queue) + 1
    BY <1>2
  <2>2. \A i, k \in 1..Len(queue') : queue'[i].id = queue'[k].id => i = k
    BY <1>2, <2>1 DEF WorkOK
  <2>3. running' # None => \A i \in 1..Len(queue') : queue'[i].id # running'.id
    BY <1>2, <2>1 DEF WorkOK
  <2> QED
    BY <1>2, <2>2, <2>3 DEF WorkOK
<1>4. LiveJobs' = {queue[i] : i \in 1..Len(queue)} \cup {j}
                    \cup (IF running' = None THEN {} ELSE {running})
  <2>1. DOMAIN queue' = 1..(Len(queue) + 1)
    BY <1>2
  <2>2. {queue'[i] : i \in DOMAIN queue'} = {queue[i] : i \in 1..Len(queue)} \cup {j}
    BY <1>2, <2>1
  <2> QED
    BY <2>2 DEF LiveJobs
<1> QED
  BY <1>3, <1>4 DEF HasJobBy, AllJobs

LEMMA HasJobMeaning ==
  ASSUME WorkOK, NEW d
  PROVE  HasJobBy(d) <=>
           \/ \E i \in 1..Len(queue) : queue[i].by = d
           \/ running # None /\ running.by = d
           \/ \E x \in succeeded \cup failed : x.by = d
<1>1. DOMAIN queue = 1..Len(queue)
  BY DEF WorkOK
<1> QED
  BY <1>1 DEF HasJobBy, AllJobs, LiveJobs

LEMMA WorkStep ==
  ASSUME WorkOK, Work
  PROVE  WorkOK' /\ \A d : HasJobBy(d)' <=> HasJobBy(d)
<1>1. CASE Take
  BY <1>1, TakeWork
<1>2. ASSUME running # None, running' = None, UNCHANGED queue,
             \/ succeeded' = succeeded \cup {running} /\ UNCHANGED failed
             \/ failed' = failed \cup {running} /\ UNCHANGED succeeded
      PROVE  WorkOK' /\ \A d : HasJobBy(d)' <=> HasJobBy(d)
  BY <1>2 DEF WorkOK, HasJobBy, AllJobs, LiveJobs
<1>3. CASE Failing /\ running.try < MaxTries /\ Retry
  <2> DEFINE j == [running EXCEPT !.try = @ + 1]
  <2>1. running # None /\ running \in Job /\ running' = None
    BY <1>3 DEF Failing, WorkOK
  <2>2. j \in Job /\ j.by = running.by /\ j.id = running.id
    BY <1>3, <2>1, TriedAgain
  <2>3. queue' = Append(queue, j) /\ UNCHANGED <<succeeded, failed>>
    BY <1>3 DEF Failing, Retry
  <2>4. \A i \in 1..Len(queue) : queue[i].id # j.id
    BY <2>1, <2>2 DEF WorkOK
  <2> HIDE DEF j
  <2> QED
    BY <2>1, <2>2, <2>3, <2>4, Queued, HasJobMeaning
<1> QED
  BY <1>1, <1>2, <1>3 DEF Work, Succeed, Fail, Failing, GiveUp

\* A steady web process does not notice the worker.
LEMMA WorkOnly ==
  ASSUME IInv, WorkOK', \A d : HasJobBy(d)' <=> HasJobBy(d), UNCHANGED <<web, now>>
  PROVE  IInv'
<1>1. UNCHANGED <<secret, pool, hpc, reply, answer, last, enqueued, beside, restarts, now>>
  BY DEF web
<1>2. TypesOK'
  BY <1>1 DEF IInv, TypesOK
<1>3. HandlersOK'
  BY <1>1 DEF IInv, HandlersOK, HandlerOK, Clean
<1>4. RateOK'
  BY <1>1 DEF IInv, RateOK, EnqueueOK, SawOK, Beside, Handling, ApartOrOverlapping,
       RepoOf, JobOf
<1> QED
  BY <1>2, <1>3, <1>4 DEF IInv

-----------------------------------------------------------------------------
(* The handlers.                                                           *)

\* An answer without an effect: refused at a gate.
LEMMA RefuseOK ==
  ASSUME IInv, NEW d \in Delivery, Refuse(d)
  PROVE  IInv'
<1>1. /\ hpc[d] = "unsent" /\ StopsAt(d) # {}
      /\ answer' = [answer EXCEPT ![d] = Verdict(d)] /\ hpc' = [hpc EXCEPT ![d] = "over"]
      /\ UNCHANGED <<secret, pool, reply, last, enqueued, beside, restarts, now, worker>>
  BY DEF Refuse, Answer
<1>2. Verdict(d) \in Answers \ {"dispatched", "500"}
  BY <1>1, VerdictType
<1> HIDE DEF Verdict
<1>3. TypesOK /\ WorkOK /\ HandlersOK /\ RateOK
  BY DEF IInv
<1>4. TypesOK'
  BY <1>1, <1>2, <1>3 DEF TypesOK
<1>5. WorkOK' /\ \A e : HasJobBy(e)' <=> HasJobBy(e)
  BY <1>1, <1>3 DEF WorkOK, worker, HasJobBy, AllJobs, LiveJobs
<1>6. HandlersOK'
  BY <1>1, <1>2, <1>3, <1>5, NoneAssumption DEF HandlersOK, HandlerOK, TypesOK, Clean
\* d has enqueued nothing.
<1>7. \A x \in enqueued : x.by \in Delivery /\ x.by # d
  BY <1>1, <1>3 DEF RateOK, EnqueueOK, TypesOK
<1>8. RateOK'
  BY <1>1, <1>3, <1>7 DEF RateOK, EnqueueOK, SawOK, Beside, Handling, ApartOrOverlapping,
       TypesOK, RepoOf, JobOf
<1> QED
  BY <1>4, <1>5, <1>6, <1>8 DEF IInv

\* The handler passes the gates: the cooldown it saw is over.
LEMMA AdmitOK ==
  ASSUME IInv, NEW d \in Delivery, Admit(d)
  PROVE  IInv'
<1>1. /\ hpc[d] = "unsent" /\ StopsAt(d) = {}
      /\ hpc' = [hpc EXCEPT ![d] = "enqueue"] /\ beside' = [beside EXCEPT ![d] = InHandling]
      /\ UNCHANGED <<secret, pool, reply, answer, last, enqueued, restarts, now, worker>>
  BY DEF Admit
<1>2. Clean(d) /\ ~CheckCooldown(RepoOf(d)) /\ RepoOf(d) \in Repo
  BY <1>1, Passed, JobFields
<1>3. TypesOK /\ WorkOK /\ HandlersOK /\ RateOK
  BY DEF IInv
<1>4. InHandling \subseteq Delivery /\ \A e \in Delivery : e \in InHandling <=> Handling(e)
  BY DEF InHandling, Handling
<1>5. TypesOK'
  BY <1>1, <1>3, <1>4 DEF TypesOK
<1>6. WorkOK' /\ \A e : HasJobBy(e)' <=> HasJobBy(e)
  BY <1>1, <1>3 DEF WorkOK, worker, HasJobBy, AllJobs, LiveJobs
<1>7. HandlersOK'
  BY <1>1, <1>2, <1>3, <1>6 DEF HandlersOK, HandlerOK, TypesOK, Clean
<1>8. \A x \in enqueued : x.by \in Delivery /\ x.by # d /\ x.at \in Nat /\ x.repo \in Repo
  BY <1>1, <1>3 DEF RateOK, EnqueueOK, TypesOK
<1>9. ~Handling(d) /\ Handling(d)' /\ \A e \in Delivery \ {d} : Handling(e)' <=> Handling(e)
  BY <1>1, <1>3 DEF Handling, TypesOK
<1>10. /\ beside'[d] = InHandling
       /\ \A e \in Delivery \ {d} : beside'[e] = beside[e]
  BY <1>1, <1>3 DEF TypesOK
<1>11. \A e, f \in Delivery : Beside(e, f) /\ e # d /\ f # d => Beside(e, f)'
  BY <1>10 DEF Beside
<1>12. \A x \in enqueued : EnqueueOK(x)'
  BY <1>1, <1>3, <1>8 DEF RateOK, EnqueueOK, TypesOK, RepoOf, JobOf
<1>13. \A e, f \in Delivery : Handling(e)' /\ Handling(f)' /\ e # f => Beside(e, f)'
  BY <1>3, <1>4, <1>9, <1>10, <1>11 DEF RateOK, Beside
<1>14. \A x \in enqueued : SawOK(d, x)'
  <2> SUFFICES ASSUME NEW x \in enqueued, x.repo = RepoOf(d)
               PROVE  Beside(d, x.by)' \/ answer[x.by] = "500" \/ x.at + Window <= now
    BY <1>1 DEF SawOK, RepoOf, JobOf
  <2>1. EnqueueOK(x) /\ x.by \in Delivery
    BY <1>3, <1>8 DEF RateOK
  <2>2. CASE hpc[x.by] = "resume"
    BY <1>4, <1>10, <2>1, <2>2 DEF Handling, Beside
  <2>3. CASE answer[x.by] = "500"
    BY <2>3
  <2>4. CASE last[x.repo] # None /\ x.at <= last[x.repo]
    <3>1. /\ last[x.repo] \in Nat /\ now \in Nat /\ Window \in Nat /\ x.at \in Nat
      BY <1>3, <1>8, <2>4, BoundAssumption DEF TypesOK
    <3>2. ~(now - last[x.repo] < Window)
      BY <1>2, <2>4 DEF CheckCooldown
    <3> QED
      BY <2>4, <3>1, <3>2
  <2> QED
    BY <2>1, <2>2, <2>3, <2>4 DEF EnqueueOK
<1>15. \A e \in Delivery \ {d}, x \in enqueued : hpc'[e] = "enqueue" => SawOK(e, x)'
  BY <1>1, <1>3, <1>8, <1>11 DEF RateOK, SawOK, TypesOK, RepoOf, JobOf
<1>16. ApartOrOverlapping'
  BY <1>1, <1>3, <1>8, <1>10 DEF RateOK, ApartOrOverlapping
<1>17. RateOK'
  BY <1>1, <1>12, <1>13, <1>14, <1>15, <1>16 DEF RateOK
<1> QED
  BY <1>5, <1>6, <1>7, <1>17 DEF IInv

\* An id that is not live is put in the queue for d.
LEMMA PutWork ==
  ASSUME WorkOK, NEW d \in Delivery, Clean(d), JobOf(d).id \notin LiveIds, PutInQueue(d)
  PROVE  WorkOK' /\ \A e : HasJobBy(e)' <=> HasJobBy(e) \/ e = d
<1>1. JobOf(d) \in Job /\ JobOf(d).by = d
  BY JobFields
<1>2. queue' = Append(queue, JobOf(d)) /\ UNCHANGED <<running, succeeded, failed>>
  BY DEF PutInQueue
<1>3. DOMAIN queue = 1..Len(queue)
  BY DEF WorkOK
<1>4. /\ \A i \in 1..Len(queue) : queue[i].id # JobOf(d).id
      /\ running # None => running.id # JobOf(d).id
  BY <1>3 DEF LiveIds
<1> QED
  BY <1>1, <1>2, <1>4, Queued, HasJobMeaning

\* What PutInQueue adds to the enqueues.
LEMMA PutEnqueue ==
  ASSUME NEW d \in Delivery, PutInQueue(d)
  PROVE  \E new : /\ new.by = d /\ new.repo = RepoOf(d) /\ new.at = now
                 /\ new = [by |-> d, repo |-> RepoOf(d), at |-> now]
                 /\ enqueued' = enqueued \cup {new}
BY DEF PutInQueue, RepoOf

\* Redis takes the job of d while its handler is suspended: whoever enqueued for
\* the repository was in progress with d, was not heard of, or is a window away.
LEMMA PutRate ==
  ASSUME IInv, NEW d \in Delivery, hpc[d] = "enqueue", PutInQueue(d),
         hpc' \in {[hpc EXCEPT ![d] = "resume"], [hpc EXCEPT ![d] = "over"]},
         hpc'[d] = "resume" => reply' = [reply EXCEPT ![d] = TRUE] /\ UNCHANGED answer,
         hpc'[d] = "over" => answer' = [answer EXCEPT ![d] = "500"] /\ UNCHANGED reply,
         UNCHANGED <<last, beside, now>>
  PROVE  RateOK' /\ enqueued' \subseteq [by : Delivery, repo : Repo, at : 0..MaxTime]
<1>1. TypesOK /\ HandlersOK /\ RateOK
  BY DEF IInv
<1>2. Clean(d) /\ RepoOf(d) \in Repo
  BY <1>1, JobFields DEF HandlersOK, HandlerOK
<1>3. PICK new : /\ new.by = d /\ new.repo = RepoOf(d) /\ new.at = now
                 /\ new = [by |-> d, repo |-> RepoOf(d), at |-> now]
                 /\ enqueued' = enqueued \cup {new}
  BY PutEnqueue
<1>4. new \in [by : Delivery, repo : Repo, at : 0..MaxTime]
  BY <1>1, <1>2, <1>3 DEF TypesOK
<1>5. \A x \in enqueued : /\ x.by \in Delivery /\ x.by # d /\ x.at \in Nat
                          /\ x.repo \in Repo
  BY <1>1 DEF RateOK, EnqueueOK, TypesOK
<1>6. /\ hpc'[d] \in {"resume", "over"} /\ \A e \in Delivery \ {d} : hpc'[e] = hpc[e]
      /\ \A e \in Delivery \ {d} : reply'[e] = reply[e] /\ answer'[e] = answer[e]
      /\ hpc'[d] = "resume" => reply'[d]
      /\ hpc'[d] = "over" => answer'[d] = "500"
  BY <1>1 DEF TypesOK
<1>7. \A x \in enqueued' : EnqueueOK(x)'
  <2>1. EnqueueOK(new)'
    BY <1>1, <1>3, <1>6 DEF EnqueueOK, TypesOK, RepoOf, JobOf
  <2>2. \A x \in enqueued : EnqueueOK(x)'
    BY <1>1, <1>5, <1>6 DEF RateOK, EnqueueOK, RepoOf, JobOf
  <2> QED
    BY <1>3, <2>1, <2>2
<1>8. \A e, f \in Delivery : Handling(e)' /\ Handling(f)' /\ e # f => Beside(e, f)'
  BY <1>1, <1>6 DEF RateOK, Handling, Beside
<1>9. \A e \in Delivery, x \in enqueued' : hpc'[e] = "enqueue" => SawOK(e, x)'
  <2> SUFFICES ASSUME NEW e \in Delivery, NEW x \in enqueued', hpc'[e] = "enqueue"
               PROVE  SawOK(e, x)'
    OBVIOUS
  <2>1. e # d /\ hpc[e] = "enqueue"
    BY <1>6
  <2>2. CASE x \in enqueued
    BY <1>1, <1>5, <1>6, <2>1, <2>2 DEF RateOK, SawOK, Beside, RepoOf, JobOf
  <2>3. CASE x = new
    <3>1. Beside(e, d)
      BY <1>1, <2>1 DEF RateOK, Handling
    <3> QED
      BY <1>3, <2>3, <3>1 DEF SawOK, Beside
  <2> QED
    BY <1>3, <2>2, <2>3
<1>10. ApartOrOverlapping'
  <2>1. \A x \in enqueued : x.repo = RepoOf(d) =>
          Beside(d, x.by) \/ answer[x.by] = "500" \/ x.at + Window <= now
    BY <1>1, <1>5 DEF RateOK, SawOK
  <2>2. \A x \in enqueued : x.repo = new.repo =>
          \/ new.at >= x.at + Window
          \/ x.by \in beside'[new.by] \/ new.by \in beside'[x.by]
          \/ answer'[x.by] = "500"
    BY <1>1, <1>3, <1>5, <1>6, <2>1, BoundAssumption DEF Beside, TypesOK
  <2>3. \A x, y \in enqueued : x.by # y.by /\ x.repo = y.repo =>
          \/ x.at >= y.at + Window \/ y.at >= x.at + Window
          \/ x.by \in beside'[y.by] \/ y.by \in beside'[x.by]
          \/ "500" \in {answer'[x.by], answer'[y.by]}
    BY <1>1, <1>5, <1>6 DEF RateOK, ApartOrOverlapping
  <2> QED
    BY <1>3, <2>2, <2>3 DEF ApartOrOverlapping
<1> QED
  BY <1>1, <1>3, <1>4, <1>7, <1>8, <1>9, <1>10 DEF RateOK, TypesOK

LEMMA RedisEnqueuesOK ==
  ASSUME IInv, NEW d \in Delivery, RedisEnqueues(d)
  PROVE  IInv'
<1>1. /\ hpc[d] = "enqueue" /\ hpc' = [hpc EXCEPT ![d] = "resume"]
      /\ UNCHANGED <<secret, pool, answer, last, beside, restarts, now>>
  BY DEF RedisEnqueues
<1>2. TypesOK /\ WorkOK /\ HandlersOK /\ RateOK
  BY DEF IInv
<1>3. Clean(d) /\ ~HasJobBy(d) /\ answer[d] = None
  BY <1>1, <1>2 DEF HandlersOK, HandlerOK
<1>4. hpc'[d] = "resume"
  BY <1>1, <1>2 DEF TypesOK
<1>5. CASE reply' = [reply EXCEPT ![d] = FALSE] /\ UNCHANGED <<worker, enqueued>>
  <2>1. TypesOK'
    BY <1>1, <1>2, <1>5 DEF TypesOK
  <2>2. WorkOK' /\ \A e : HasJobBy(e)' <=> HasJobBy(e)
    BY <1>2, <1>5 DEF WorkOK, worker, HasJobBy, AllJobs, LiveJobs
  <2>3. HandlersOK'
    BY <1>1, <1>2, <1>3, <1>5, <2>2, NoneAssumption
       DEF HandlersOK, HandlerOK, TypesOK, Clean, Answers
  <2>4. \A x \in enqueued : x.by \in Delivery /\ x.by # d
    BY <1>1, <1>2 DEF RateOK, EnqueueOK, TypesOK
  <2>5. RateOK'
    BY <1>1, <1>2, <1>5, <2>4 DEF RateOK, EnqueueOK, SawOK, Beside, Handling,
         ApartOrOverlapping, TypesOK, RepoOf, JobOf
  <2> QED
    BY <2>1, <2>2, <2>3, <2>5 DEF IInv
<1>6. CASE /\ JobOf(d).id \notin LiveIds
           /\ reply' = [reply EXCEPT ![d] = TRUE]
           /\ PutInQueue(d)
  <2>1. RateOK' /\ enqueued' \subseteq [by : Delivery, repo : Repo, at : 0..MaxTime]
    BY <1>1, <1>4, <1>6, PutRate
  <2>2. TypesOK'
    BY <1>1, <1>2, <1>6, <2>1 DEF TypesOK
  <2>3. WorkOK' /\ \A e : HasJobBy(e)' <=> HasJobBy(e) \/ e = d
    BY <1>2, <1>3, <1>6, PutWork
  <2>4. HandlersOK'
    BY <1>1, <1>2, <1>3, <1>6, <2>3, NoneAssumption
       DEF HandlersOK, HandlerOK, TypesOK, Clean, Answers
  <2> QED
    BY <2>1, <2>2, <2>3, <2>4 DEF IInv
<1> QED
  BY <1>5, <1>6 DEF RedisEnqueues

LEMMA RedisErrorOK ==
  ASSUME IInv, NEW d \in Delivery, RedisError(d)
  PROVE  IInv'
<1>1. /\ hpc[d] = "enqueue" /\ hpc' = [hpc EXCEPT ![d] = "over"]
      /\ answer' = [answer EXCEPT ![d] = "500"]
      /\ UNCHANGED <<secret, pool, reply, last, beside, restarts, now>>
  BY DEF RedisError, Answer
<1>2. TypesOK /\ WorkOK /\ HandlersOK /\ RateOK
  BY DEF IInv
<1>3. Clean(d) /\ ~HasJobBy(d)
  BY <1>1, <1>2 DEF HandlersOK, HandlerOK
<1>4. hpc'[d] = "over"
  BY <1>1, <1>2 DEF TypesOK
<1>5. CASE UNCHANGED <<worker, enqueued>>
  <2>1. TypesOK'
    BY <1>1, <1>2, <1>5 DEF TypesOK, Answers
  <2>2. WorkOK' /\ \A e : HasJobBy(e)' <=> HasJobBy(e)
    BY <1>2, <1>5 DEF WorkOK, worker, HasJobBy, AllJobs, LiveJobs
  <2>3. HandlersOK'
    BY <1>1, <1>2, <1>3, <2>2 DEF HandlersOK, HandlerOK, TypesOK, Clean
  <2>4. \A x \in enqueued : x.by \in Delivery /\ x.by # d
    BY <1>1, <1>2 DEF RateOK, EnqueueOK, TypesOK
  <2>5. RateOK'
    BY <1>1, <1>2, <1>5, <2>4 DEF RateOK, EnqueueOK, SawOK, Beside, Handling,
         ApartOrOverlapping, TypesOK, RepoOf, JobOf
  <2> QED
    BY <2>1, <2>2, <2>3, <2>5 DEF IInv
<1>6. CASE JobOf(d).id \notin LiveIds /\ PutInQueue(d)
  <2>1. RateOK' /\ enqueued' \subseteq [by : Delivery, repo : Repo, at : 0..MaxTime]
    BY <1>1, <1>4, <1>6, PutRate
  <2>2. TypesOK'
    BY <1>1, <1>2, <1>6, <2>1 DEF TypesOK, Answers
  <2>3. WorkOK' /\ \A e : HasJobBy(e)' <=> HasJobBy(e) \/ e = d
    BY <1>2, <1>3, <1>6, PutWork
  <2>4. HandlersOK'
    BY <1>1, <1>2, <1>3, <1>6, <2>3 DEF HandlersOK, HandlerOK, TypesOK, Clean
  <2> QED
    BY <2>1, <2>2, <2>3, <2>4 DEF IInv
<1> QED
  BY <1>5, <1>6 DEF RedisError

\* The handler resumes: the cooldown never goes back.
LEMMA ResumeOK ==
  ASSUME IInv, NEW d \in Delivery, Resume(d)
  PROVE  IInv'
<1> DEFINE a == IF reply[d] THEN "dispatched" ELSE "already_queued"
<1>1. /\ hpc[d] = "resume" /\ hpc' = [hpc EXCEPT ![d] = "over"]
      /\ answer' = [answer EXCEPT ![d] = a]
      /\ last' = IF reply[d] THEN [last EXCEPT ![RepoOf(d)] = now] ELSE last
      /\ UNCHANGED <<secret, pool, reply, enqueued, beside, restarts, now, worker>>
  BY DEF Resume, Answer, RepoOf
<1>2. TypesOK /\ WorkOK /\ HandlersOK /\ RateOK
  BY DEF IInv
<1>3. Clean(d) /\ (reply[d] <=> HasJobBy(d)) /\ RepoOf(d) \in Repo /\ answer[d] = None
  BY <1>1, <1>2, JobFields DEF HandlersOK, HandlerOK
<1>4. TypesOK'
  BY <1>1, <1>2, <1>3 DEF TypesOK, Answers
<1>5. WorkOK' /\ \A e : HasJobBy(e)' <=> HasJobBy(e)
  BY <1>1, <1>2 DEF WorkOK, worker, HasJobBy, AllJobs, LiveJobs
<1>6. HandlersOK'
  BY <1>1, <1>2, <1>3, <1>5 DEF HandlersOK, HandlerOK, TypesOK, Clean
<1>7. \A x \in enqueued : /\ x.by \in Delivery /\ x.at \in Nat /\ x.repo \in Repo
                          /\ x.by = d => reply[d]
  BY <1>1, <1>2 DEF RateOK, EnqueueOK, TypesOK
<1>8. \A r \in Repo : last'[r] = last[r] \/ last'[r] = now
  BY <1>1, <1>2, <1>3 DEF TypesOK
<1>9. now \in Nat /\ now # None
  BY <1>2, NoneAssumption DEF TypesOK
<1>10. \A x \in enqueued : EnqueueOK(x)'
  <2> SUFFICES ASSUME NEW x \in enqueued PROVE EnqueueOK(x)'
    OBVIOUS
  <2>1. EnqueueOK(x) /\ x.at <= now
    BY <1>2 DEF RateOK, EnqueueOK
  <2>2. CASE x.by = d
    <3>1. x.repo = RepoOf(d) /\ last'[RepoOf(d)] = now
      BY <1>1, <1>2, <1>3, <1>7, <2>1, <2>2 DEF EnqueueOK, TypesOK
    <3> QED
      BY <1>1, <1>2, <1>7, <1>9, <2>1, <2>2, <3>1 DEF EnqueueOK, TypesOK, RepoOf, JobOf
  <2>3. CASE x.by # d
    <3>1. last[x.repo] # None /\ x.at <= last[x.repo] =>
            last'[x.repo] # None /\ x.at <= last'[x.repo]
      BY <1>7, <1>8, <1>9, <2>1
    <3> QED
      BY <1>1, <1>2, <1>7, <2>1, <2>3, <3>1 DEF EnqueueOK, TypesOK, RepoOf, JobOf
  <2> QED
    BY <2>2, <2>3
<1>11. \A e, f \in Delivery : Handling(e)' /\ Handling(f)' /\ e # f => Beside(e, f)'
  BY <1>1, <1>2 DEF RateOK, Handling, Beside, TypesOK
<1>12. \A e \in Delivery : answer[e] = "500" => answer'[e] = "500"
  BY <1>1, <1>2, <1>3, NoneAssumption DEF TypesOK, Answers
<1>13. \A e \in Delivery, x \in enqueued : hpc'[e] = "enqueue" => SawOK(e, x)'
  BY <1>1, <1>2, <1>7, <1>12 DEF RateOK, SawOK, Beside, TypesOK, RepoOf, JobOf
<1>14. ApartOrOverlapping'
  BY <1>1, <1>2, <1>7, <1>12 DEF RateOK, ApartOrOverlapping
<1>15. RateOK'
  BY <1>1, <1>10, <1>11, <1>13, <1>14 DEF RateOK
<1> QED
  BY <1>4, <1>5, <1>6, <1>15 DEF IInv

\* The dict is gone, and so is every request that could have read it.
LEMMA RestartOK ==
  ASSUME IInv, WebRestart
  PROVE  IInv'
<1>1. /\ restarts < MaxRestarts /\ restarts' = restarts + 1
      /\ last' = [r \in Repo |-> None]
      /\ hpc' = [d \in Delivery |-> IF d \in InHandling THEN "over" ELSE hpc[d]]
      /\ pool' \in BOOLEAN /\ enqueued' = {}
      /\ UNCHANGED <<secret, reply, answer, beside, now, worker>>
  BY DEF WebRestart
<1>2. TypesOK /\ WorkOK /\ HandlersOK
  BY DEF IInv
<1>3. TypesOK'
  BY <1>1, <1>2, BoundAssumption DEF TypesOK
<1>4. WorkOK' /\ \A e : HasJobBy(e)' <=> HasJobBy(e)
  BY <1>1, <1>2 DEF WorkOK, worker, HasJobBy, AllJobs, LiveJobs
<1>5. \A d \in Delivery : hpc'[d] \in {hpc[d], "over"} /\ ~Handling(d)'
  BY <1>1, <1>2 DEF InHandling, Handling, TypesOK
<1>6. HandlersOK'
  BY <1>1, <1>2, <1>4, <1>5 DEF HandlersOK, HandlerOK, Clean, Handling
<1>7. RateOK'
  BY <1>1, <1>5 DEF RateOK, ApartOrOverlapping, Handling
<1> QED
  BY <1>3, <1>4, <1>6, <1>7 DEF IInv

LEMMA TickOK ==
  ASSUME IInv, Tick
  PROVE  IInv'
<1>1. /\ now < MaxTime /\ now' = now + 1 /\ UNCHANGED worker
      /\ UNCHANGED <<secret, pool, hpc, reply, answer, last, enqueued, beside, restarts>>
  BY DEF Tick, web
<1>2. TypesOK /\ WorkOK /\ HandlersOK /\ RateOK
  BY DEF IInv
<1>3. TypesOK'
  BY <1>1, <1>2, BoundAssumption DEF TypesOK
<1>4. WorkOK' /\ \A e : HasJobBy(e)' <=> HasJobBy(e)
  BY <1>1, <1>2 DEF WorkOK, worker, HasJobBy, AllJobs, LiveJobs
<1>5. HandlersOK'
  BY <1>1, <1>2, <1>4 DEF HandlersOK, HandlerOK, Clean
<1>6. \A x \in enqueued : x.at \in Nat
  BY <1>2 DEF TypesOK
<1>7. RateOK'
  <2>1. now \in Nat /\ Window \in Nat
    BY <1>2, BoundAssumption DEF TypesOK
  <2>2. \A x \in enqueued : EnqueueOK(x)'
    BY <1>1, <1>2, <1>6, <2>1 DEF RateOK, EnqueueOK, RepoOf, JobOf
  <2>3. \A d \in Delivery, x \in enqueued : hpc'[d] = "enqueue" => SawOK(d, x)'
    BY <1>1, <1>2, <1>6, <2>1 DEF RateOK, SawOK, Beside, RepoOf, JobOf
  <2> QED
    BY <1>1, <1>2, <2>2, <2>3 DEF RateOK, Beside, Handling, ApartOrOverlapping
<1> QED
  BY <1>3, <1>4, <1>5, <1>7 DEF IInv

-----------------------------------------------------------------------------
(* The theorems.                                                           *)

LEMMA StepOK ==
  ASSUME IInv, [Next]_vars
  PROVE  IInv'
<1>1. CASE Work
  <2>1. WorkOK' /\ \A d : HasJobBy(d)' <=> HasJobBy(d)
    BY <1>1, WorkStep DEF IInv
  <2>2. UNCHANGED <<web, now>>
    BY <1>1 DEF Work, Take, Succeed, Fail, Failing
  <2> QED
    BY <2>1, <2>2, WorkOnly
<1>2. CASE Quiet \/ UNCHANGED vars
  <2>1. UNCHANGED <<web, now, worker>>
    BY <1>2 DEF Quiet, vars
  <2>2. WorkOK' /\ \A d : HasJobBy(d)' <=> HasJobBy(d)
    BY <2>1 DEF IInv, WorkOK, worker, HasJobBy, AllJobs, LiveJobs
  <2> QED
    BY <2>1, <2>2, WorkOnly
<1>3. CASE \E d \in Delivery : Handle(d)
  BY <1>3, RefuseOK, AdmitOK, RedisEnqueuesOK, ResumeOK, RedisErrorOK DEF Handle
<1> QED
  BY <1>1, <1>2, <1>3, RestartOK, TickOK DEF Next

THEOREM Invariant == Spec => []IInv
<1>1. Init => IInv
  BY InitOK
<1>2. IInv /\ [Next]_vars => IInv'
  BY StepOK
<1> QED
  BY <1>1, <1>2, PTL DEF Spec

\* Types, the tries of queued and running jobs among them: a job is never run
\* more often than max_tries.
THEOREM TypeCorrect == Spec => []TypeOK
<1>1. IInv => TypeOK
  <2> SUFFICES ASSUME IInv PROVE TypeOK
    OBVIOUS
  <2>1. \A i \in DOMAIN queue : queue[i].try \in 1..MaxTries
    BY JobMeaning DEF IInv, WorkOK
  <2>2. running # None => running.try \in 1..MaxTries
    BY JobMeaning DEF IInv, WorkOK
  <2> QED
    BY <2>1, <2>2 DEF IInv, TypesOK, TypeOK
<1> QED
  BY <1>1, Invariant, PTL

\* No delivery of a bot, with a wrong signature or outside the allowlist ever
\* becomes a job, for any interleaving of handlers, restarts and retries.
THEOREM NeverSelfTriggered == Spec => []NoSelfTrigger
<1>1. IInv => NoSelfTrigger
  <2> SUFFICES ASSUME IInv, NEW j \in AllJobs
               PROVE  /\ Event[j.by].sender # "Bot" /\ Event[j.by].signature = "valid"
                      /\ Event[j.by].type \in {"pull_request", "issues", "push"}
    BY DEF NoSelfTrigger
  <2>1. j \in Job
    BY DEF IInv, WorkOK, AllJobs, LiveJobs
  <2>2. j.by \in Delivery /\ Clean(j.by)
    BY <2>1, JobMeaning
  <2> QED
    BY <2>2, JobFields DEF Clean
<1> QED
  BY <1>1, Invariant, PTL

\* What GitHub was answered is what happened to the queue.
THEOREM HonestAnswers == Spec => []AnswersAreHonest
<1>1. IInv => AnswersAreHonest
  BY DEF IInv, HandlersOK, HandlerOK, HasJobBy, AnswersAreHonest
<1> QED
  BY <1>1, Invariant, PTL

\* The cooldown holds up to requests in progress together and lost replies,
\* for any window and number of handlers.
THEOREM EnqueuesApart == Spec => []ApartOrOverlapping
<1>1. IInv => ApartOrOverlapping
  BY DEF IInv, RateOK
<1> QED
  BY <1>1, Invariant, PTL

\* However handlers, retries and restarts interleave, and however payloads
\* spell the repository, a pull request, an issue or a pushed sha has at most
\* one job that is queued or running.
THEOREM SubjectsLiveOnce == Spec => []OneLiveJobPerSubject
<1>1. IInv => OneLiveJobPerSubject
  <2> DEFINE live == IF running = None THEN queue ELSE Append(queue, running)
  <2> SUFFICES ASSUME IInv, NEW i \in DOMAIN live, NEW k \in DOMAIN live, i # k
               PROVE  SubjectOf(live[i]) # SubjectOf(live[k])
    BY DEF OneLiveJobPerSubject
  <2>1. /\ queue \in Seq(Job)
        /\ Len(queue) \in Nat /\ DOMAIN queue = 1..Len(queue)
        /\ \A m, n \in 1..Len(queue) : queue[m].id = queue[n].id => m = n
        /\ running \in Job \cup {None}
        /\ running # None => \A n \in 1..Len(queue) : queue[n].id # running.id
    BY DEF IInv, WorkOK
  <2>2. \A n \in DOMAIN live :
          /\ live[n] \in Job
          /\ \/ n \in 1..Len(queue) /\ live[n] = queue[n]
             \/ n = Len(queue) + 1 /\ running # None /\ live[n] = running
    BY <2>1
  \* The id determines what the job is about, and conversely.
  <2>3. \A j \in Job : SubjectOf(j) = j.id
    BY JobMeaning DEF SubjectOf, JobOf
  <2> HIDE DEF live
  <2>4. live[i].id # live[k].id
    BY <2>1, <2>2
  <2> QED
    BY <2>2, <2>3, <2>4
<1> QED
  BY <1>1, Invariant, PTL
=============================================================================
