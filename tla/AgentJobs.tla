------------------------------ MODULE AgentJobs -----------------------------
(***************************************************************************)
(* The jobs that comment: run_pr_review_job and run_onboarding_job         *)
(* (jobs/runners.py) with cmd_review_pr (cli/commands.py), the recipes of  *)
(* the two agents, the reads of GithubClient and the ids of dispatch.py,   *)
(* over the index of IndexViews while commits, index runs and new heads of *)
(* pull requests come in between any two awaits.                           *)
(*                                                                         *)
(* The worker runs one job at a time; CLI processes run beside it.  The    *)
(* gate of decisions.py is reduced here to what a single comment meets:    *)
(* pre-gate, threshold, effect, row.                                       *)
(***************************************************************************)
EXTENDS Guardrails, Integers

CONSTANTS
  Worker, Clis,  \* processes
  PR, Issue,     \* what comments are posted on
  PrCommit,          \* commits of pull-request branches
  BaseOf,        \* BaseOf[h]: the base commit h was branched from
  HeadTree,      \* HeadTree[h][f]: content of f at h, or None
  PatchOf,       \* PatchOf[<<c, d>>]: the hunks of the patch from c to d, if any
  AddedIn,       \* AddedIn[<<c, d>>]: GitHub's count of added lines, patch or not
  FileOrder,     \* all files in the order GitHub lists them
  PageSize,      \* files per page of pulls/{n}/files
  MaxFiles,      \* _MAX_FILES_PER_REVIEW
  DeepReads,     \* deep_read_limit
  Replies,       \* findings the LLM may return, a set of sequences
  Picks,         \* file indices it may pick, a set of sequences
  Groupings,     \* milestones it may propose, a set of sequences
  Confidences,   \* confidences it may claim, in percent
  Texts,         \* bodies up to their first 200 characters
  MaxTries,
  Modes,         \* write modes to start from
  Budgets        \* bounds: how often each outside event may happen

Process == {Worker} \cup Clis
CommentThreshold == 30
EventKinds == {"push", "index", "move", "open", "cli", "fault"}

\* A @@ line of a patch; oldStart and oldCount are not in the ranges that
\* diff_parser extracts, but in the patch.
LineRange == [start : Nat, count : Nat, oldStart : Nat, oldCount : Nat]

ASSUME AgentAssumption ==
  /\ Worker \notin Clis /\ PR \cap Issue = {}
  /\ BaseOf \in [PrCommit -> Sha]
  /\ HeadTree \in [PrCommit -> [File -> Content \cup {None}]]
  /\ FileOrder \in Seq(File) /\ IsInjective(FileOrder) /\ ToSet(FileOrder) = File
  /\ None \notin PrCommit \cup PR \cup Issue
  /\ PageSize \in Nat \ {0} /\ MaxTries \in Nat \ {0}
  /\ MaxFiles \in Nat /\ DeepReads \in Nat
  /\ Modes \subseteq {"shadow", "comment"}
  /\ \A b \in Budgets : b \in [EventKinds -> Nat]

\* What answers of the LLM look like once the schemas have parsed them and the
\* recipes have clamped their confidences.
ASSUME ReplyAssumption ==
  /\ Replies \subseteq Seq(Finding)
  /\ Picks \subseteq Seq(Nat)
  /\ Groupings \subseteq Seq(Milestone)
  /\ Confidences \subseteq 0..100

\* Unified diffs, as git makes them: new-side ranges lie in the new file, which
\* has line 0 only if it is gone, and what precedes the first hunk is common to
\* both versions.
ASSUME PatchAssumption ==
  /\ PatchOf \in [(Content \cup {None}) \X (Content \cup {None}) -> Seq(LineRange)]
  /\ AddedIn \in [(Content \cup {None}) \X (Content \cup {None}) -> Nat]
  /\ \A c, d \in Content \cup {None} :
       LET ranges == PatchOf[<<c, d>>]
           length == IF d = None THEN 0 ELSE LinesOf[d]
       IN /\ \A k \in DOMAIN ranges :
               /\ ranges[k].start <= length
               /\ ranges[k].start + ranges[k].count - 1 <= length
          /\ ranges # <<>> /\ ranges[1].count > 0 /\ ranges[1].oldCount > 0 =>
               ranges[1].start = ranges[1].oldStart

VARIABLES
  prHead,      \* the head of each pull request on GitHub, None if not opened
  pending,     \* pull requests and issues with a webhook not yet delivered
  queue,       \* queued jobs
  ended,       \* targets with an ended job: ARQ may still keep its result
  job,         \* what each process is doing
  rows,        \* agent_actions
  mode,        \* WRITE_MODE
  reviews,     \* ghost: reviews the worker posted of each head, as such
  unrecorded,  \* ghost: those whose row was lost
  excused,     \* ghost: pull requests whose head may stay unreviewed
  budget

jobVars == <<prHead, pending, queue, ended, job, rows, mode, reviews,
             unrecorded, excused, budget>>
vars == <<graphVars, jobVars>>

\* A hunk of GitHub's answer; of is a ghost, the head it was listed for.
Hunk(f, h) ==
  LET old == TreeOf[BaseOf[h]][f]
      new == HeadTree[h][f]
  IN [file |-> f, ranges |-> PatchOf[<<old, new>>], added |-> AddedIn[<<old, new>>],
      of |-> h]

\* The files of a pull request, as the API lists them.
PrFiles ==
  [h \in PrCommit |->
     KeptAt(FileOrder, {i \in DOMAIN FileOrder :
                          HeadTree[h][FileOrder[i]] # TreeOf[BaseOf[h]][FileOrder[i]]})]

PC == {"idle", "resolve", "pr", "files", "skip", "analyze", "read", "verify",
       "group", "post", "commit"}

Idle == [kind |-> "none", target |-> None, pc |-> "idle", tries |-> 0,
         sha |-> None, page |-> 1, hunks |-> <<>>, moved |-> FALSE,
         picked |-> {}, found |-> <<>>, kept |-> <<>>, conf |-> 0,
         text |-> None, posted |-> FALSE]

Listed == [file : File, ranges : Seq(LineRange), added : Nat, of : PrCommit]
Heads == PrCommit \cup {None}

Job ==
  [kind : {"none", "review", "onboard"}, target : PR \cup Issue \cup {None}, pc : PC,
   tries : 0..(MaxTries - 1), sha : Heads, page : Nat \ {0}, hunks : Seq(Listed),
   moved : BOOLEAN, picked : SUBSET File, found : Seq(Finding), kept : Seq(Finding),
   conf : 0..100, text : Texts \cup {None}, posted : BOOLEAN]

\* What a process knows by the time it gets to each step.
JobShape(p, j) ==
  /\ j.pc = "idle" <=> j = Idle
  /\ j.kind = "none" <=> j = Idle
  /\ j.kind = "review" <=> j.target \in PR
  /\ j.kind = "onboard" => p = Worker /\ j.target \in Issue
  /\ j.pc \in {"pr", "files", "skip"} => j.kind = "review"
  /\ j.pc \in {"read", "group"} => j.kind = "onboard"
  /\ j.sha \in PrCommit <=> j.kind = "review" /\ j.pc \notin {"resolve", "pr"}
  /\ j.pc \in {"post", "commit"} => j.text \in Texts
  /\ j.posted => j.pc = "commit"

ReviewRow == [agent : {"pr_reviewer", "onboarding"}, target : PR \cup Issue,
              text : Texts, sha : Heads, read : SUBSET PrCommit, moved : BOOLEAN]
Asked == [target : PR \cup Issue, tries : 0..(MaxTries - 1)]

TypeOK ==
  /\ GraphTypeOK
  /\ prHead \in [PR -> Heads]
  /\ pending \subseteq PR \cup Issue
  /\ queue \subseteq Asked
  /\ ended \subseteq PR \cup Issue
  /\ job \in [Process -> Job]
  /\ \A p \in Process : JobShape(p, job[p])
  /\ rows \subseteq ReviewRow
  /\ mode \in Modes
  /\ reviews \in [PrCommit -> Nat] /\ unrecorded \in [PrCommit -> Nat]
  /\ excused \subseteq PR
  /\ budget \in [EventKinds -> Nat]

Init ==
  /\ GraphInit
  /\ prHead = [pr \in PR |-> None]
  /\ pending = {}
  /\ queue = {}
  /\ ended = {}
  /\ job = [p \in Process |-> Idle]
  /\ rows = {}
  /\ mode \in Modes
  /\ reviews = [h \in PrCommit |-> 0]
  /\ unrecorded = [h \in PrCommit |-> 0]
  /\ excused = PR   \* nobody has asked for a review yet
  /\ budget \in Budgets

Spend(what) ==
  /\ budget[what] > 0
  /\ budget' = [budget EXCEPT ![what] = @ - 1]

-----------------------------------------------------------------------------
(* Outside events: commits and index runs, heads, deliveries.              *)

PushBase ==
  /\ Spend("push")
  /\ Push
  /\ UNCHANGED <<prHead, pending, queue, ended, job, rows, mode, reviews, unrecorded,
                 excused>>

\* A reindex job runs while no other job does; `gita index` runs at any time.
IndexRuns ==
  /\ Spend("index")
  /\ Clis # {} \/ job[Worker] = Idle
  /\ FullIndex \/ IncrementalIndex
  /\ UNCHANGED <<prHead, pending, queue, ended, job, rows, mode, reviews, unrecorded,
                 excused>>

\* A pull request is opened at its head, or gets a new one.
MoveHead(pr, h) ==
  /\ Spend("move")
  /\ prHead' = [prHead EXCEPT ![pr] = h]
  /\ pending' = pending \cup {pr}
  /\ excused' = excused \ {pr}
  /\ job' = [p \in Process |->
               IF job[p].target = pr /\ job[p].pc = "files" /\ h # prHead[pr]
               THEN [job[p] EXCEPT !.moved = TRUE] ELSE job[p]]
  /\ UNCHANGED <<graphVars, queue, ended, rows, mode, reviews, unrecorded>>

OpenIssue(i) ==
  /\ Spend("open")
  /\ pending' = pending \cup {i}
  /\ UNCHANGED <<graphVars, prHead, queue, ended, job, rows, mode, reviews,
                 unrecorded, excused>>

\* A job id is its function and target; it is live while queued or running.
Live(t) == job[Worker].target = t \/ \E q \in queue : q.target = t

\* A job of t that will still read the head of its pull request.
YetToRead(t) ==
  \/ \E q \in queue : q.target = t
  \/ job[Worker].target = t /\ job[Worker].pc \in {"resolve", "pr"}

\* enqueue_job takes the job, or refuses an id that is live or was lately.
Deliver(t) ==
  /\ t \in pending
  /\ pending' = pending \ {t}
  /\ \/ /\ ~Live(t)
        /\ queue' = queue \cup {[target |-> t, tries |-> 0]}
        /\ UNCHANGED excused
     \/ /\ Live(t) \/ t \in ended
        /\ excused' = IF YetToRead(t) THEN excused ELSE excused \cup ({t} \cap PR)
        /\ UNCHANGED queue
  /\ UNCHANGED <<graphVars, prHead, ended, job, rows, mode, reviews, unrecorded,
                 budget>>

\* The cooldown or another gate of the ingress stops the delivery.
DeliveryStopped(t) ==
  /\ t \in pending
  /\ Spend("fault")
  /\ pending' = pending \ {t}
  /\ excused' = excused \cup ({t} \cap PR)
  /\ UNCHANGED <<graphVars, prHead, queue, ended, job, rows, mode, reviews,
                 unrecorded>>

-----------------------------------------------------------------------------
(* Jobs start and end.                                                     *)

Started(t, tries) ==
  [Idle EXCEPT !.kind = IF t \in PR THEN "review" ELSE "onboard",
               !.target = t, !.pc = "resolve", !.tries = tries]

Take ==
  /\ job[Worker] = Idle
  /\ \E q \in queue :
       /\ queue' = queue \ {q}
       /\ job' = [job EXCEPT ![Worker] = Started(q.target, q.tries)]
  /\ UNCHANGED <<graphVars, prHead, pending, ended, rows, mode, reviews, unrecorded,
                 excused, budget>>

\* cmd_review_pr: the index is looked up only after the pull request is read.
CliReviews(p, pr) ==
  /\ p \in Clis /\ job[p] = Idle /\ prHead[pr] # None
  /\ Spend("cli")
  /\ job' = [job EXCEPT ![p] = [Started(pr, 0) EXCEPT !.pc = "pr"]]
  /\ UNCHANGED <<graphVars, prHead, pending, queue, ended, rows, mode, reviews,
                 unrecorded, excused>>

Becomes(p, j) ==
  /\ job' = [job EXCEPT ![p] = j]
  /\ UNCHANGED ended

Ends(p) ==
  /\ job' = [job EXCEPT ![p] = Idle]
  /\ ended' = IF p = Worker THEN ended \cup {job[p].target} ELSE ended

\* The job ends without a row for the head it read, or before it read one.
EndsWithout(p) ==
  /\ Ends(p)
  /\ excused' =
       IF p = Worker /\ job[p].kind = "review"
          /\ job[p].sha \in {None, prHead[job[p].target]}
       THEN excused \cup {job[p].target} ELSE excused

\* Mutant of TriedAgain: one try too many.
TriedOnceMore(j) == j.tries < MaxTries

TriedAgain(j) == j.tries + 1 < MaxTries

\* An exception escapes the job or its process dies.  What the effect left is
\* on GitHub; the row is not.  ARQ may put the job back.
Fails(p) ==
  /\ job[p] # Idle
  /\ Spend("fault")
  /\ unrecorded' = IF job[p].posted
                   THEN [unrecorded EXCEPT ![job[p].sha] = @ + 1] ELSE unrecorded
  /\ \/ /\ p = Worker /\ TriedAgain(job[p])
        /\ queue' = queue \cup {[target |-> job[p].target, tries |-> job[p].tries + 1]}
        /\ Becomes(p, Idle)
        /\ UNCHANGED excused
     \/ EndsWithout(p) /\ UNCHANGED queue
  /\ UNCHANGED <<graphVars, prHead, pending, rows, mode, reviews>>

Local == UNCHANGED <<graphVars, prHead, pending, queue, rows, mode, reviews,
                     unrecorded, budget>>

-----------------------------------------------------------------------------
(* Reviewing a pull request.                                               *)

\* resolve_repo: the repository has a row once it has been indexed.
Registered == repoHead # None

ResolveRepo(p) ==
  /\ job[p].pc = "resolve"
  /\ IF ~Registered THEN EndsWithout(p)
     ELSE /\ Becomes(p, [job[p] EXCEPT !.pc = IF job[p].kind = "review" THEN "pr"
                                             ELSE "analyze"])
          /\ UNCHANGED excused
  /\ Local

\* get_pr: the head is the one GitHub has now, not the one of the delivery.
ReadPr(p) ==
  /\ job[p].pc = "pr"
  /\ Becomes(p, [job[p] EXCEPT !.sha = prHead[job[p].target], !.pc = "files"])
  /\ UNCHANGED excused
  /\ Local

\* Mutant of IsLastPage: a full page is taken for the last one.
IsLastPageAlways(batch) == Len(batch) <= PageSize

IsLastPage(batch) == Len(batch) < PageSize

\* get_pr_files: one request per page, of the head GitHub has by then.
ReadFiles(p) ==
  /\ job[p].pc = "files"
  /\ LET h == prHead[job[p].target]
         from == (job[p].page - 1) * PageSize
         batch == SubSeq(PrFiles[h], from + 1, Min({from + PageSize, Len(PrFiles[h])}))
         hunks == job[p].hunks \o [i \in DOMAIN batch |-> Hunk(batch[i], h)]
     IN Becomes(p, IF IsLastPage(batch)
                   THEN [job[p] EXCEPT !.hunks = hunks, !.page = 1,
                          !.pc = IF p = Worker THEN "skip" ELSE "analyze"]
                   ELSE [job[p] EXCEPT !.hunks = hunks, !.page = @ + 1])
  /\ UNCHANGED excused
  /\ Local

\* Mutant of AlreadyReviewed: the pull request is compared as well.
AlreadyReviewedHere(j) ==
  \E r \in rows : r.agent = "pr_reviewer" /\ r.sha = j.sha /\ r.target = j.target

\* _check_sha_already_reviewed
AlreadyReviewed(j) == \E r \in rows : r.agent = "pr_reviewer" /\ r.sha = j.sha

SkipReviewed(p) ==
  /\ job[p].pc = "skip"
  /\ IF AlreadyReviewed(job[p]) THEN Ends(p)
     ELSE Becomes(p, [job[p] EXCEPT !.pc = "analyze"])
  /\ UNCHANGED excused
  /\ Local

\* More files than the limit are sorted by additions, most first and otherwise
\* as they were, and cut.
Truncated(hunks) ==
  LET Ahead(i) == {k \in DOMAIN hunks :
                     \/ hunks[k].added > hunks[i].added
                     \/ hunks[k].added = hunks[i].added /\ k < i}
      At(n) == CHOOSE i \in DOMAIN hunks : Cardinality(Ahead(i)) = n - 1
  IN IF Len(hunks) <= MaxFiles THEN hunks ELSE [n \in 1..MaxFiles |-> hunks[At(n)]]

\* run_pr_review up to the first answer of the LLM.
Analyze(p) ==
  /\ job[p].pc = "analyze" /\ job[p].kind = "review"
  /\ IF ~Registered THEN EndsWithout(p)
     ELSE /\ \E reply \in Replies :
               Becomes(p, [job[p] EXCEPT !.hunks = Truncated(@),
                             !.found = Cited(reply), !.pc = "verify"])
          /\ UNCHANGED excused
  /\ Local

\* verify_findings against the index as it is by now, and the summary.
Verify(p) ==
  /\ job[p].pc = "verify" /\ job[p].kind = "review"
  /\ LET kept == Verified(job[p].found, job[p].hunks)
     IN \E c \in Confidences, t \in Texts :
          Becomes(p, [job[p] EXCEPT !.kept = kept, !.text = t, !.pc = "post",
                        !.conf = Blended(Len(job[p].found), Len(kept), c)])
  /\ UNCHANGED excused
  /\ Local

\* `gita review-pr' without --post.
PrintOnly(p) ==
  /\ p \in Clis /\ job[p].pc = "post"
  /\ Ends(p)
  /\ UNCHANGED excused
  /\ Local

-----------------------------------------------------------------------------
(* Onboarding a repository.                                                *)

\* The indices the LLM picked that exist, each once, at most DeepReads of
\* them; the first three files if none is left.
ValidPicks(picks, n) ==
  LET inside == KeptAt(picks, {k \in DOMAIN picks : picks[k] < n})
      first(k) == \A l \in 1..(k - 1) : inside[l] # inside[k]
      once == {k \in DOMAIN inside : first(k)}
      taken == {inside[k] : k \in Firsts(once, DeepReads)}
  IN IF taken = {} THEN 0..(Min({3, n}) - 1) ELSE taken

\* run_onboarding: load_bearing_view and the LLM's choice of files.
PickFiles(p) ==
  /\ job[p].pc = "analyze" /\ job[p].kind = "onboard"
  /\ IF Indexed = {} THEN Ends(p)
     ELSE LET listed == LoadBearing(ListLimit)
          IN \E picks \in Picks :
               Becomes(p, [job[p] EXCEPT !.pc = "read",
                 !.picked = {listed[i + 1] : i \in ValidPicks(picks, Len(listed))}])
  /\ UNCHANGED excused
  /\ Local

\* _fetch_file_bodies: the picked files that still have a row.
Bodies(picked) == picked \cap Indexed

\* Without a body left the LLM is not asked.
ReadBodies(p) ==
  /\ job[p].pc = "read"
  /\ \E reply \in IF Bodies(job[p].picked) = {} THEN {<<>>} ELSE Replies :
       Becomes(p, [job[p] EXCEPT !.found = Cited(reply), !.picked = {}, !.pc = "verify"])
  /\ UNCHANGED excused
  /\ Local

\* The same guardrails, without a diff.
VerifyOnboarding(p) ==
  /\ job[p].pc = "verify" /\ job[p].kind = "onboard"
  /\ Becomes(p, [job[p] EXCEPT !.kept = Verified(job[p].found, <<>>), !.pc = "group"])
  /\ UNCHANGED excused
  /\ Local

\* Without findings there is nothing to group.
Group(p) ==
  /\ job[p].pc = "group"
  /\ \E proposed \in IF job[p].kept = <<>> THEN {<<>>} ELSE Groupings, t \in Texts :
       LET milestones == Milestones(proposed, Len(job[p].kept))
           claimed == OverallConfidence(job[p].kept, milestones)
       IN Becomes(p, [job[p] EXCEPT !.text = t, !.pc = "post",
                        !.conf = Blended(Len(job[p].found), Len(job[p].kept), claimed)])
  /\ UNCHANGED excused
  /\ Local

-----------------------------------------------------------------------------
(* The comment and its row.                                                *)

AgentOf(j) == IF j.kind = "review" THEN "pr_reviewer" ELSE "onboarding"
SameComment(j) ==
  {r \in rows : r.agent = AgentOf(j) /\ r.target = j.target /\ r.text = j.text}

\* The comment is posted as it is, not as a note that it was held back.
PostsAsRequested(j) == mode = "comment" /\ j.conf >= CommentThreshold

CountsAsReview(p) == p = Worker /\ job[p].kind = "review" /\ PostsAsRequested(job[p])

\* DEDUPED, as far as the committed rows tell.
PostDeduped(p) ==
  /\ job[p].pc = "post"
  /\ SameComment(job[p]) # {}
  /\ EndsWithout(p)
  /\ Local

\* SHADOW_LOGGED, EXECUTED or a downgrade that was executed.
PostSucceeds(p) ==
  /\ job[p].pc = "post"
  /\ SameComment(job[p]) = {}
  /\ Becomes(p, [job[p] EXCEPT !.pc = "commit", !.posted = CountsAsReview(p)])
  /\ reviews' = IF CountsAsReview(p) THEN [reviews EXCEPT ![job[p].sha] = @ + 1]
                ELSE reviews
  /\ UNCHANGED <<graphVars, prHead, pending, queue, rows, mode, unrecorded, excused, budget>>

\* ERROR: the call fails, or it takes effect and its answer is lost.
PostErrs(p) ==
  /\ job[p].pc = "post" /\ mode = "comment"
  /\ SameComment(job[p]) = {}
  /\ Spend("fault")
  /\ EndsWithout(p)
  /\ \/ UNCHANGED <<reviews, unrecorded>>
     \/ /\ CountsAsReview(p)
        /\ reviews' = [reviews EXCEPT ![job[p].sha] = @ + 1]
        /\ unrecorded' = [unrecorded EXCEPT ![job[p].sha] = @ + 1]
  /\ UNCHANGED <<graphVars, prHead, pending, queue, rows, mode>>

\* Mutant of RowOf: only a comment posted as requested carries its head.
RowOfPostedOnly(p) ==
  [agent |-> AgentOf(job[p]), target |-> job[p].target, text |-> job[p].text,
   sha |-> IF job[p].posted THEN job[p].sha ELSE None,
   read |-> {job[p].hunks[i].of : i \in DOMAIN job[p].hunks}, moved |-> job[p].moved]

\* Mutant of RowOf: the evidence names the head of the moment.
RowOfCurrentHead(p) ==
  [agent |-> AgentOf(job[p]), target |-> job[p].target, text |-> job[p].text,
   sha |-> IF p = Worker /\ job[p].kind = "review" THEN prHead[job[p].target] ELSE None,
   read |-> {job[p].hunks[i].of : i \in DOMAIN job[p].hunks}, moved |-> job[p].moved]

\* The worker adds the head sha to the evidence, the CLI does not; read and
\* moved are ghosts.
RowOf(p) ==
  [agent |-> AgentOf(job[p]), target |-> job[p].target, text |-> job[p].text,
   sha |-> IF p = Worker THEN job[p].sha ELSE None,
   read |-> {job[p].hunks[i].of : i \in DOMAIN job[p].hunks}, moved |-> job[p].moved]

\* record_action and the commit; the row of another process may be there now.
Record(p) ==
  /\ job[p].pc = "commit"
  /\ IF SameComment(job[p]) = {}
     THEN /\ rows' = rows \cup {RowOf(p)}
          /\ Ends(p)
          /\ UNCHANGED <<unrecorded, excused>>
     ELSE /\ EndsWithout(p)
          /\ unrecorded' = IF job[p].posted
                           THEN [unrecorded EXCEPT ![job[p].sha] = @ + 1]
                           ELSE unrecorded
          /\ UNCHANGED rows
  /\ UNCHANGED <<graphVars, prHead, pending, queue, mode, reviews, budget>>

-----------------------------------------------------------------------------
Review(p) ==
  \/ ReadPr(p) \/ ReadFiles(p) \/ SkipReviewed(p)
  \/ Analyze(p) \/ Verify(p) \/ PrintOnly(p)
Onboard(p) == PickFiles(p) \/ ReadBodies(p) \/ VerifyOnboarding(p) \/ Group(p)
Post(p) == PostDeduped(p) \/ PostSucceeds(p) \/ PostErrs(p) \/ Record(p)

Quiet ==
  /\ pending = {} /\ queue = {} /\ \A p \in Process : job[p] = Idle
  /\ UNCHANGED vars

Next ==
  \/ PushBase \/ IndexRuns \/ Take \/ Quiet
  \/ \E pr \in PR, h \in PrCommit : MoveHead(pr, h)
  \/ \E i \in Issue : OpenIssue(i)
  \/ \E t \in PR \cup Issue : Deliver(t) \/ DeliveryStopped(t)
  \/ \E p \in Process :
       \/ ResolveRepo(p) \/ Review(p) \/ Onboard(p) \/ Post(p) \/ Fails(p)
       \/ \E pr \in PR : CliReviews(p, pr)

Spec == Init /\ [][Next]_vars

-----------------------------------------------------------------------------
(* Properties.                                                             *)

\* The sha skip: for each head at most one review of the worker is posted as
\* such, over pull requests that share it, repeated deliveries, retries and
\* reviews of the CLI, unless the row of an earlier one was lost.
OneReviewPerHead == \A h \in PrCommit : reviews[h] <= 1 + unrecorded[h]

\* Nothing is forgotten silently.  When no delivery, queued or running job of
\* a pull request is left, its head has a row, or one of these happened since
\* it became the head: its delivery was stopped by the ingress or refused
\* because a job had already read an older head, or a job ended on an error,
\* on giving up, without an index, or as a duplicate of an earlier comment.
HeadsAreSettled ==
  \A pr \in PR \ excused :
    pr \notin pending /\ ~Live(pr) =>
      \E r \in rows : r.agent = "pr_reviewer" /\ r.sha = prHead[pr]

\* A row names the head that was reviewed: get_pr and the pages of
\* get_pr_files are separate requests, and what they return is of the head in
\* the evidence unless the head moved between them.
EvidenceNamesWhatWasRead ==
  \A r \in rows : r.sha # None /\ ~r.moved => r.read \subseteq {r.sha}

\* Pagination neither drops nor repeats a file of a head that stays put, also
\* when the number of files is a multiple of the page size.
PagesAreComplete ==
  \A p \in Process :
    job[p].kind = "review" /\ job[p].pc \in {"skip", "analyze"} /\ ~job[p].moved =>
      [i \in DOMAIN job[p].hunks |-> job[p].hunks[i].file] = PrFiles[job[p].sha]

\* A finding that survives verify_findings cites a line that exists, in the
\* indexed version of its file or in a version some page of the pull request
\* was of, pure deletions and files of changing length included.
CitedLinesExist ==
  [][\A p \in Process : Verify(p) \/ VerifyOnboarding(p) =>
       \A x \in ToSet(job'[p].kept) :
         \/ x.line <= LinesOf[table[x.file].content]
         \/ \E i \in DOMAIN job[p].hunks :
              LET new == HeadTree[job[p].hunks[i].of][x.file]
              IN new # None /\ x.line <= LinesOf[new]]_vars

\* Where the diff is silent the guardrails are exact: if repos.head_sha is the
\* base of the reviewed head, a finding on an indexable file the head leaves
\* alone survives if and only if it is true of that head.
GuardrailsExactOffTheDiff ==
  [][\A p \in Process : Verify(p) /\ repoHead = BaseOf[job[p].sha] /\ ~job[p].moved =>
       \A x \in ToSet(job[p].found) :
         x.file \in Indexable \ ToSet(PrFiles[job[p].sha]) =>
           LET there == HeadTree[job[p].sha][x.file]
           IN x \in ToSet(job'[p].kept) <=>
                /\ there # None
                /\ x.line <= LinesOf[there]
                /\ x.syntax => ~ParsesCleanly(x.file, there)
                /\ ~x.banned]_vars

\* The penalty of structural_confidence reaches the gate: nothing is posted as
\* requested when the guardrails have dropped more than 70 of 100 findings.
DiscreditedIsHeldBack ==
  [][\A p \in Process : PostSucceeds(p) /\ PostsAsRequested(job[p]) =>
       100 * Len(job[p].kept) >= CommentThreshold * Len(job[p].found)]_vars

\* diff_context_view compares lines of the head with spans of the base.  While
\* the index is at the base it still shows every symbol that the first hunk of
\* a file touches, if the hunk does not shrink the file: nothing before it
\* has moved.
FirstHunkSymbolsShown ==
  \A h \in PrCommit : repoHead = BaseOf[h] =>
    \A f \in ToSet(PrFiles[h]) \cap Indexed :
      LET ranges == Hunk(f, h).ranges
          first == ranges[1]
      IN ranges # <<>> /\ first.count >= first.oldCount /\ first.oldCount > 0 =>
           \A y \in SymbolsIn[TreeOf[BaseOf[h]][f]] :
             y.from < first.oldStart + first.oldCount /\ y.to >= first.oldStart =>
               y \in FileContext(Hunk(f, h)).near
=============================================================================
