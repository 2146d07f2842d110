--------------------------- MODULE WebhookIngress ---------------------------
(***************************************************************************)
(* From a GitHub delivery to a finished job: receive_webhook and its gates *)
(* (web/webhooks.py, web/dispatch.py, web/cooldown.py), the Redis queue    *)
(* behind pool.enqueue_job, and the ARQ worker of worker.py that runs the  *)
(* jobs of jobs/__init__.py one at a time.                                 *)
(*                                                                         *)
(* A handler runs without interruption up to its await of enqueue_job; the *)
(* event loop may run other handlers before it resumes, which is when it   *)
(* records the cooldown.  Time is counted in ticks.                        *)
(***************************************************************************)
EXTENDS Naturals, Sequences, FiniteSets

CONSTANTS
  Delivery,       \* names of the deliveries GitHub makes
  Event,          \* Event[d]: what delivery d carries
  Repo,           \* repository names as payloads spell them
  Lower,          \* Lower[r]: the name in lower case
  Window,         \* DEFAULT_COOLDOWN_SECONDS
  MaxTries,       \* WorkerSettings.max_tries
  Faults,         \* which failures of the environment may happen
  MaxConcurrent,  \* bound: requests being handled at once
  MaxTime,        \* bound: last tick of the clock
  MaxRestarts,    \* bound: restarts of the web process
  None            \* an absent field, time, job or answer

FaultKinds == {"redis_error", "redis_reply_lost", "job_raises", "worker_dies"}

Answers == {"500_no_secret", "401", "500_not_json", "400", "pong", "bot", "no_handler",
            "cooldown", "503", "500", "already_queued", "dispatched"}

\* EVENT_HANDLERS.  An entry without action matches every action of its type.
Exact == [pull_request |-> {"opened", "synchronize"}, issues |-> {"opened"}]
Wildcard == {"push"}

FunctionFor == [pull_request |-> "review_pr", issues |-> "onboard_repo",
                push |-> "reindex_repo"]

\* dispatch_event finds a handler and the handler finds its fields.
HasJob(e) ==
  \/ /\ e.type \in DOMAIN Exact
     /\ e.action \in Exact[e.type]
     /\ e.subject # None
     /\ e.repo # None
  \/ /\ e.type \in Wildcard
     /\ e.repo # None

\* Mutant of JobOf: the id takes the repository as the payload spells it.
JobOfSpelling(d) ==
  [id   |-> <<FunctionFor[Event[d].type], Event[d].repo, Event[d].subject>>,
   repo |-> Lower[Event[d].repo],
   by   |-> d,
   try  |-> 1]

\* The JobRequest of a delivery.  Its id is made of the function, the lower
\* case repository and the subject: pull-request or issue number, pushed sha.
JobOf(d) ==
  [id   |-> <<FunctionFor[Event[d].type], Lower[Event[d].repo], Event[d].subject>>,
   repo |-> Lower[Event[d].repo],
   by   |-> d,
   try  |-> 1]

ASSUME EventAssumption ==
  \A d \in Delivery :
    /\ Event[d].repo \in Repo \cup {None}
    /\ Event[d].signature \in {"valid", "invalid", "missing"}
    /\ Event[d].sender \in {"User", "Bot"}
    /\ Event[d].json \in BOOLEAN
ASSUME LowerAssumption == Lower \in [Repo -> Repo]
ASSUME BoundAssumption ==
  /\ {Window, MaxTries, MaxConcurrent} \subseteq Nat \ {0}
  /\ {MaxTime, MaxRestarts} \subseteq Nat
  /\ Faults \subseteq FaultKinds
ASSUME NoneAssumption ==
  /\ None \notin Repo \cup Answers \cup Nat
  /\ \A d \in Delivery : HasJob(Event[d]) =>
       \A n \in 1..MaxTries : None # [JobOf(d) EXCEPT !.try = n]

-----------------------------------------------------------------------------
VARIABLES
  secret,    \* GITHUB_WEBHOOK_SECRET is configured
  pool,      \* app.state.arq_pool is there
  hpc,       \* hpc[d]: where the handler of d is
  reply,     \* reply[d]: enqueue_job returned a job (not None)
  answer,    \* answer[d]: the response GitHub got, or None
  last,      \* _last_enqueue, per lower-case repository
  now,
  queue,     \* Redis: jobs waiting, including those waiting for a retry
  running,   \* the job the worker runs, or None
  succeeded, failed,  \* jobs that ended
  enqueued,  \* [by, repo, at] of every enqueue since the web process started
  beside,    \* beside[d]: the requests in progress when d passed the gates
  restarts

web == <<secret, pool, hpc, reply, answer, last, enqueued, beside, restarts>>
worker == <<queue, running, succeeded, failed>>
vars == <<web, now, worker>>

TypeOK ==
  /\ secret \in BOOLEAN /\ pool \in BOOLEAN
  /\ hpc \in [Delivery -> {"unsent", "enqueue", "resume", "over"}]
  /\ reply \in [Delivery -> BOOLEAN]
  /\ answer \in [Delivery -> Answers \cup {None}]
  /\ last \in [Repo -> 0..MaxTime \cup {None}]
  /\ now \in 0..MaxTime
  /\ \A i \in DOMAIN queue : queue[i].try \in 1..MaxTries
  /\ running # None => running.try \in 1..MaxTries
  /\ enqueued \subseteq [by : Delivery, repo : Repo, at : 0..MaxTime]
  /\ beside \in [Delivery -> SUBSET Delivery]
  /\ restarts \in 0..MaxRestarts

Init ==
  /\ secret \in BOOLEAN
  /\ pool \in BOOLEAN
  /\ hpc = [d \in Delivery |-> "unsent"]
  /\ reply = [d \in Delivery |-> FALSE]
  /\ answer = [d \in Delivery |-> None]
  /\ last = [r \in Repo |-> None]
  /\ now = 0
  /\ queue = << >> /\ running = None /\ succeeded = {} /\ failed = {}
  /\ enqueued = {}
  /\ beside = [d \in Delivery |-> {}]
  /\ restarts = 0

-----------------------------------------------------------------------------
(* receive_webhook.                                                        *)

\* Mutant of CheckCooldown: the window ends one tick early.
CheckCooldownShort(r) == last[r] # None /\ now - last[r] + 1 < Window

CheckCooldown(r) == last[r] # None /\ now - last[r] < Window

\* Mutant of Gates: there is no bot filter.
GatesWithoutBotFilter(d) ==
  LET e == Event[d]
  IN << <<~secret, "500_no_secret">>,
        <<e.signature # "valid", "401">>,
        <<~e.json, "500_not_json">>,
        <<e.type = None, "400">>,
        <<e.type = "ping", "pong">>,
        <<FALSE, "bot">>,
        <<~HasJob(e), "no_handler">>,
        <<HasJob(e) /\ CheckCooldown(Lower[e.repo]), "cooldown">>,
        <<~pool, "503">> >>

\* The gates of receive_webhook in the order of the code: when a delivery is
\* stopped at one, and with which answer.  A body that is not JSON stops it
\* with an exception, before anything in it is looked at.
Gates(d) ==
  LET e == Event[d]
  IN << <<~secret, "500_no_secret">>,
        <<e.signature # "valid", "401">>,
        <<~e.json, "500_not_json">>,
        <<e.type = None, "400">>,
        <<e.type = "ping", "pong">>,
        <<e.sender = "Bot", "bot">>,
        <<~HasJob(e), "no_handler">>,
        <<HasJob(e) /\ CheckCooldown(Lower[e.repo]), "cooldown">>,
        <<~pool, "503">> >>

StopsAt(d) == LET gates == Gates(d) IN {i \in 1..9 : gates[i][1]}

\* The answer of the first gate that stops d.
Verdict(d) ==
  LET stops == StopsAt(d)
      first == CHOOSE i \in stops : \A k \in stops : i <= k
  IN Gates(d)[first][2]

InHandling == {d \in Delivery : hpc[d] \in {"enqueue", "resume"}}

Answer(d, a) ==
  /\ answer' = [answer EXCEPT ![d] = a]
  /\ hpc' = [hpc EXCEPT ![d] = "over"]

\* A delivery is turned away before anything is enqueued.
Refuse(d) ==
  /\ hpc[d] = "unsent"
  /\ StopsAt(d) # {}
  /\ Answer(d, Verdict(d))
  /\ UNCHANGED <<secret, pool, reply, last, enqueued, beside, restarts, now,
                 worker>>

\* All gates passed: the handler awaits enqueue_job.
Admit(d) ==
  /\ hpc[d] = "unsent"
  /\ Cardinality(InHandling) < MaxConcurrent
  /\ StopsAt(d) = {}
  /\ hpc' = [hpc EXCEPT ![d] = "enqueue"]
  /\ beside' = [beside EXCEPT ![d] = InHandling]
  /\ UNCHANGED <<secret, pool, reply, answer, last, enqueued, restarts, now,
                 worker>>

\* An id that is queued or running.
LiveIds ==
  {queue[i].id : i \in DOMAIN queue}
  \cup (IF running = None THEN {} ELSE {running.id})

\* The ids whose results may still be kept (keep_result).
EndedIds == {j.id : j \in succeeded \cup failed}

PutInQueue(d) ==
  /\ queue' = Append(queue, JobOf(d))
  /\ enqueued' = enqueued \cup
       {[by |-> d, repo |-> JobOf(d).repo, at |-> now]}
  /\ UNCHANGED <<running, succeeded, failed>>

\* Redis executes the enqueue: a live id is refused, and an id whose job has
\* ended may be, as long as its result is kept.
RedisEnqueues(d) ==
  /\ hpc[d] = "enqueue"
  /\ \/ /\ JobOf(d).id \in LiveIds \cup EndedIds
        /\ reply' = [reply EXCEPT ![d] = FALSE]
        /\ UNCHANGED <<worker, enqueued>>
     \/ /\ JobOf(d).id \notin LiveIds
        /\ reply' = [reply EXCEPT ![d] = TRUE]
        /\ PutInQueue(d)
  /\ hpc' = [hpc EXCEPT ![d] = "resume"]
  /\ UNCHANGED <<secret, pool, answer, last, beside, restarts, now>>

\* Mutant of Resume: the None of enqueue_job is not looked at.
ResumeUnchecked(d) ==
  /\ hpc[d] = "resume"
  /\ last' = [last EXCEPT ![JobOf(d).repo] = now]
  /\ Answer(d, "dispatched")
  /\ UNCHANGED <<secret, pool, reply, enqueued, beside, restarts, now, worker>>

\* The handler resumes: the cooldown starts only for a job that was taken.
Resume(d) ==
  /\ hpc[d] = "resume"
  /\ last' = IF reply[d] THEN [last EXCEPT ![JobOf(d).repo] = now] ELSE last
  /\ Answer(d, IF reply[d] THEN "dispatched" ELSE "already_queued")
  /\ UNCHANGED <<secret, pool, reply, enqueued, beside, restarts, now, worker>>

\* enqueue_job raises: FastAPI answers 500 and no cooldown is recorded.
RedisError(d) ==
  /\ hpc[d] = "enqueue"
  /\ \/ /\ "redis_error" \in Faults
        /\ UNCHANGED <<worker, enqueued>>
     \/ /\ "redis_reply_lost" \in Faults
        /\ JobOf(d).id \notin LiveIds
        /\ PutInQueue(d)
  /\ Answer(d, "500")
  /\ UNCHANGED <<secret, pool, reply, last, beside, restarts, now>>

\* The web process restarts: the dict is gone, requests in progress are cut
\* off, lifespan may or may not get a pool this time.
WebRestart ==
  /\ restarts < MaxRestarts
  /\ restarts' = restarts + 1
  /\ last' = [r \in Repo |-> None]
  /\ hpc' = [d \in Delivery |-> IF d \in InHandling THEN "over" ELSE hpc[d]]
  /\ pool' \in BOOLEAN
  /\ enqueued' = {}
  /\ UNCHANGED <<secret, reply, answer, beside, now, worker>>

Tick ==
  /\ now < MaxTime
  /\ now' = now + 1
  /\ UNCHANGED <<web, worker>>

-----------------------------------------------------------------------------
(* The ARQ worker: max_jobs = 1, max_tries = MaxTries.                     *)

Take ==
  /\ running = None
  /\ queue # << >>
  /\ running' = Head(queue)
  /\ queue' = Tail(queue)
  /\ UNCHANGED <<web, now, succeeded, failed>>

Succeed ==
  /\ running # None
  /\ running' = None
  /\ succeeded' = succeeded \cup {running}
  /\ UNCHANGED <<web, now, queue, failed>>

Retry ==
  /\ queue' = Append(queue, [running EXCEPT !.try = @ + 1])
  /\ UNCHANGED failed

GiveUp ==
  /\ failed' = failed \cup {running}
  /\ UNCHANGED queue

Failing ==
  /\ running # None
  /\ Faults \cap {"job_raises", "worker_dies"} # {}
  /\ running' = None
  /\ UNCHANGED <<web, now, succeeded>>

\* Mutant of Fail: one try too many.
FailOneTryMore ==
  /\ Failing
  /\ \/ running.try <= MaxTries /\ Retry
     \/ GiveUp

\* Mutant of Fail: a job that did not finish is gone.
FailForgets == Failing /\ UNCHANGED <<queue, failed>>

\* The worker dies under the job, or the job raises: it is tried again, after
\* what is ready by then, while it has tries left.  A job that raised may also
\* be given up at once.
Fail ==
  /\ Failing
  /\ \/ running.try < MaxTries /\ Retry
     \/ /\ running.try = MaxTries \/ "job_raises" \in Faults
        /\ GiveUp

Handle(d) == Refuse(d) \/ Admit(d) \/ RedisEnqueues(d) \/ Resume(d) \/ RedisError(d)
Work == Take \/ Succeed \/ Fail

\* Every delivery has been answered or cut off and the worker has nothing left.
Quiet ==
  /\ \A d \in Delivery : hpc[d] = "over"
  /\ running = None /\ queue = << >>
  /\ UNCHANGED vars

Next ==
  \/ \E d \in Delivery : Handle(d)
  \/ WebRestart \/ Tick \/ Work \/ Quiet

Spec == Init /\ [][Next]_vars

\* The event loop goes on while a handler can; the worker polls its queue.
FairSpec ==
  /\ Spec
  /\ WF_vars(\E d \in Delivery : Handle(d))
  /\ WF_vars(Work)

-----------------------------------------------------------------------------
(* Properties.                                                             *)

LiveJobs ==
  {queue[i] : i \in DOMAIN queue} \cup (IF running = None THEN {} ELSE {running})
AllJobs == LiveJobs \cup succeeded \cup failed

\* "Wall 3", deterministic job ids: whatever handlers, retries and restarts do
\* in between, no two live jobs review the same pull request, onboard for the
\* same issue or index the same pushed sha, however their payloads spell the
\* repository.
SubjectOf(j) ==
  <<FunctionFor[Event[j.by].type], Lower[Event[j.by].repo], Event[j.by].subject>>
OneLiveJobPerSubject ==
  LET live == IF running = None THEN queue ELSE Append(queue, running)
  IN \A i, k \in DOMAIN live : i # k => SubjectOf(live[i]) # SubjectOf(live[k])

\* Loop prevention: no job ever comes from an unauthentic delivery, from a bot
\* (GITA itself), or from an event outside the allowlist.
NoSelfTrigger ==
  \A j \in AllJobs :
    /\ Event[j.by].sender # "Bot"
    /\ Event[j.by].signature = "valid"
    /\ Event[j.by].type \in {"pull_request", "issues", "push"}

\* The answer GitHub keeps is what happened: "dispatched" means this delivery's
\* own job is queued, running or ended; every other answer but a 500 from
\* Redis means it put nothing in the queue.
AnswersAreHonest ==
  \A d \in Delivery :
    /\ answer[d] = "dispatched" => \E j \in AllJobs : j.by = d
    /\ answer[d] \in Answers \ {"dispatched", "500"} =>
         \A j \in AllJobs : j.by # d

\* web/cooldown.py: "One job per repo per ``window`` seconds."  Within the
\* life of a web process two jobs of a repository are enqueued at least Window
\* apart, except when one request passed the gates while the other was still
\* in progress (the check and the record lie on either side of an await) or
\* when the first one never heard that its job was enqueued.
ApartOrOverlapping ==
  \A x, y \in enqueued :
    x.by # y.by /\ x.repo = y.repo =>
      \/ x.at >= y.at + Window \/ y.at >= x.at + Window
      \/ x.by \in beside[y.by] \/ y.by \in beside[x.by]
      \/ "500" \in {answer[x.by], answer[y.by]}

\* A job whose delivery was answered "dispatched" is run to an end: it
\* succeeds or uses up its tries.
DispatchedJobsEnd ==
  \A d \in Delivery :
    answer[d] = "dispatched" ~> \E j \in succeeded \cup failed : j.by = d

\* README: "on `push`, GITA re-indexes only the files that changed".  The sha
\* of an authentic push by a user is re-indexed eventually.
Pushed(d) ==
  /\ Event[d].type = "push" /\ Event[d].repo # None
  /\ Event[d].sender = "User" /\ Event[d].signature = "valid"
  /\ answer[d] \notin {None, "500_no_secret", "503", "500"}

EveryPushIsReindexed ==
  \A d \in Delivery :
    Pushed(d) ~> \E j \in succeeded : j.id = JobOf(d).id
=============================================================================
