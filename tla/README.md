# A TLA+ model of GITA

GITA reads GitHub repositories, indexes them, and lets LLM agents comment on
pull requests, open issues and push generated tests. This directory models the
parts of GITA whose correctness depends on order, failure and concurrency,
checks them with TLC on small instances, and proves the central results with
TLAPS for all instances. Paths below are relative to `src/gita/`.

## 1. Inventory

| Component | State | Operations | What is hard | What makes it correct |
|---|---|---|---|---|
| Decision gate (`agents/decisions.py`, `agents/dedupe.py`) | `agent_actions` | `execute_decision`: threshold, dedupe pre-gate, downgrade, side effect, record | the SELECT, the HTTP call, the INSERT and the COMMIT are separate awaits against two systems; crash, lost reply, unique-index races, one rollback for a whole job | one effect per decision, rows that are true, no effect above the write mode or below the threshold |
| Write flows (`jobs/runners.py`, `cli/commands.py`) | local lists, one DB session | single comment, batch of issues, branch/file/PR chain | partial failure inside one session; what counts as progress | the chain only asks for what GitHub will accept |
| Webhook ingress (`web/`) | `_last_enqueue`, ARQ pool | `receive_webhook`, `dispatch_event`, `check_cooldown`, `record_enqueue` | interleaved handlers around `await enqueue_job`; restarts; lost replies of Redis | no self-triggering, honest answers, rate limit, deterministic ids |
| ARQ worker (`worker.py`, `jobs/__init__.py`) | Redis queue, running job | take, succeed, retry, give up | retry of what was partly done; a job id live twice | every accepted job ends; one live job per subject |
| Indexer (`indexer/`) | `repos`, `code_index`, `import_edges`, the clone | `index_repository`: create, no-op, incremental, full; `_git_sync` | worker and CLI share one clone and one set of rows; stale `head_sha`; git failures | the tables describe the commit `repos.head_sha` names |
| GitHub client (`github/`) | token cache | `execute`, `get_pr`, `get_pr_files`, `get_ref`, `get_contents` | a token ages under a request; pages are separate requests; a lost answer looks like a refusal | no expired token is used, pages are complete, the evidence names what was read |
| PR reviewer, onboarding (`agents/pr_reviewer/`, `agents/onboarding/`, the jobs in `jobs/runners.py`) | a job's locals | sha skip, two LLM stages, guardrails, one comment | heads, index and rows move between the awaits; pull requests share heads; ARQ keeps results | each head reviewed once and never silently forgotten |
| Test generator (`agents/test_generator/`, trigger and job in `jobs/runners.py`) | a job's locals, branches and pull requests on GitHub | stages A to C, cap, recipe, gates, chain of three decisions | a working tree, an index, a base branch and a table that are read at different times; retries of half a chain | only verified tests are pushed, nothing somebody wrote is replaced, spending is bounded |
| Guardrails (`agents/guardrails.py`) | none | `verify_findings`, `structural_confidence` | the index describes another commit than the pull request | right findings survive, discredited replies do not post |
| Import resolution (`indexer/imports.py`) | none | package roots, three resolvers, edges of a run | incremental runs resolve only what they parse | an edge is stale at worst, never invented |
| Views (`views/`) | none | `load_bearing_view`, `neighborhood_view`, `diff_context_view` | cuts before joins, ties, empty hunks | what they show is in the tree |
| Parsers, LLM and embedding clients, CLI parsing and formatting | none | remote calls, text | | (not modelled) |

How they interact: GitHub posts deliveries to the ingress, which enqueues one
ARQ job; the worker runs one job at a time, and a developer may run the CLI
beside it. A push job resets the clone and calls the indexer; review and
onboarding jobs build decisions and drive the gate; the gate calls the GitHub
client and writes `agent_actions`. Worker and CLI share the database, the clone
and GitHub, and nothing else.

## 2. Modules

| Module | Models |
|---|---|
| `AtMostOnce` | the promise of `agents/dedupe.py`, as an abstract specification |
| `DecisionGate` | `execute_decision` and the loops that call it |
| `WebhookIngress` | `receive_webhook`, Redis, the ARQ worker |
| `Indexer` | `index_repository` and its two callers, with the clone |
| `ImportResolution` | package roots and the resolvers of `indexer/imports.py`, as functions |
| `ImportGraph` | `code_index` and `import_edges` over full and incremental runs |
| `IndexViews` | the three views the agents read |
| `Guardrails` | `verify_findings` and the confidences |
| `AgentJobs` | the review and onboarding jobs, the CLI review, deliveries and heads |
| `TestGen` | reindex trigger, preflight, test-generation job, CLI, token cache, GitHub |
| `Selection` | what the two agents pick, count and rank, as functions of sequences and sets |
| `MCDecisionGate`, `MCWebhookIngress`, `MCIndexer`, `MCAgentJobs`, `MCTestGen` | instances for TLC |
| `DecisionGateProofs`, `WebhookIngressProofs`, `IndexerProofs` | theorems about the three components |
| `AgentJobsProofs`, `AgentReadsProofs` | theorems about `AgentJobs` and the modules below it: heads and reviews; what is read, shown, kept and claimed |
| `TestGenProofs`, `TestGenClaimsProofs` | theorems about `TestGen`: types, gates, cap, new files; attempts and claims |
| `SelectionProofs` | lemmas on `Selection` the other proofs cite |

`AgentJobs` extends `Guardrails`, `IndexViews`, `ImportGraph` and
`ImportResolution`, one on top of the other, so its run composes jobs, views and
index. `TestGen` extends `ImportResolution`. What one module takes as atomic or
given is the subject of another: races of index runs are in `Indexer` and atomic
in `ImportGraph`; the gates of the ingress are in `WebhookIngress` and one
choice in `AgentJobs` (`DeliveryStopped`) and `TestGen` (`Push`); the gate for a
batch is in `DecisionGate` and reduced to one comment in `AgentJobs`.

### DecisionGate

A process is the worker or a CLI invocation; `job[p]` is the list of decisions
of one session, `at[p]` the current one. `pc[p]` follows the awaits of the code:

| `pc` | step of the code | actions |
|---|---|---|
| `gate` | `get_threshold`, `_dedupe_pregate` | `UnknownAction`, `PregateHit`, `PregateMiss` |
| `exec` | `_execute_side_effect` | `ExecuteShadow`, `ExecuteNoClient`, `ExecuteLands`, `ExecuteFails`, `ExecuteReplyLost` |
| `record` | `_record_and_finalize`, `record_action` | `RecordSkipped`, `RecordInserts`, `RecordConflict`, `RecordRaises`, `DeadlockVictim` |
| `next` | the callers' loop and commit | `NextDecision`, `Commit` |

`rows` is the committed table and `open[p]` what p's session has flushed. A
session sees both (READ COMMITTED). An INSERT of a key another session holds
waits for that session; PostgreSQL fails one of a cycle of waiting sessions.
GitHub is `refs`, `files`, `pulls` and two counters per decision: `asked`
(carried out as requested) and `notes` (a downgrade comment instead).
`Identity(d)` keeps the fields `compute_signature` hashes; `BodyHead` is its cut
at 200 characters. `forgotten` is a ghost: effects of which no row will tell.

Abstractions: a body, list of citations or file content is one of a few
`Text`s; the agent name, part of the table's key, is part of `Text` too; an
outcome is what `OutcomeOf` says and wording is left out. The `session=None`
path is not modelled: every caller in `src/` passes a session and an agent.

### WebhookIngress

`Gates(d)` lists the checks of `receive_webhook` in their order, a body that is
not JSON among them; `Refuse` stops at the first that applies. `Admit` is the run
of the handler up to `await enqueue_job`, `RedisEnqueues` the effect in Redis,
`Resume` the rest (`record_enqueue` and the answer), so other handlers run in
between. ARQ is not under `src/`: it is modelled from the comments at its uses. An id that is queued
or running is refused (`web/webhooks.py:226`), an id whose result is still kept
may be (`keep_result`), and a job that raises may be retried or given up, since
`worker.py:101` promises retries and ARQ itself retries only some exceptions.
`beside` and `enqueued` are ghosts for the rate limit.

### Indexer

A run of process p: `Sync` (`_git_sync`, worker only), `Load` and `Create`
(`_get_or_create_repo`), `ReadHead`, then `Noop`, `DecideIncremental` or
`DecideFull`, `Write` (its first DELETE) and `ApplyFull`, `ApplyIncremental` or
`ApplyRaises` together with the caller's commit. A developer may check out
another commit (`DevCheckout`) or leave an untracked file (`DevLeaves`) at any
time. A content is a model value with a size class, readability and the files it
imports. The commit writes `head_sha` only when it differs from the value the
run loaded, as SQLAlchemy's unit of work does.

Two transactions that write at the same time follow PostgreSQL's READ COMMITTED.
`Write` is the first DELETE of a run; what other runs commit from then on is in
`unseen` (edges) and `unseenRows`, and the run's DELETEs may miss it: a full run
deletes all edges in its first statement and misses all of those, an incremental
run deletes file by file and misses some. An edge that was missed is in `stray`,
beside those in `edges`. A run that deletes edges a full run before it has
deleted waits for that run (`Waits`), and a run whose writes overlap another's
may raise, on the unique constraint or as the victim of a deadlock. The ghosts
`torn` and `mixed` say that a run has committed whose writes overlapped another's
or, for `torn`, under which the clone was moved.

### ImportResolution, ImportGraph, IndexViews

A path is a directory (a sequence), a stem and a suffix. A statement is absolute
(a dotted module), relative (a level and a module), a TypeScript specifier, or
bare. `Resolve` gives the file or `None`; package roots come in any order, since
`rglob` yields files as the file system does, and the root last. `FullIndex`
and `IncrementalIndex` store rows with `indexed_at_sha` and edges that tell
statements of one file apart. The views return sets of possible answers where
the query has no total order or cuts a list without one (`Cut`, `LoadBearing`).

### Guardrails, AgentJobs

A process holds one record `job[p]`; its `pc` is the await it is at:

| `pc` | step of the code | actions |
|---|---|---|
| `resolve` | `resolve_repo` of the job | `ResolveRepo` |
| `pr`, `files`, `skip` | `get_pr`, one page of `get_pr_files` at a time, `_check_sha_already_reviewed` | `ReadPr`, `ReadFiles`, `SkipReviewed` |
| `analyze`, `verify` | the recipe of the reviewer, the guardrails | `Analyze`, `Verify` |
| `analyze`, `read`, `verify`, `group` | the four stages of onboarding | `PickFiles`, `ReadBodies`, `VerifyOnboarding`, `Group` |
| `post`, `commit` | `execute_decision` for one comment, its row | `PostDeduped`, `PostSucceeds`, `PostErrs`, `Record` |

Between any two of them `MoveHead`, `PushBase`, `IndexRuns`, `Deliver` and
`Fails` may happen. What the LLM returns is chosen from `Replies`, `Picks`,
`Groupings` and `Confidences`, which contain answers that are out of range,
about unknown files or outside the diff. `reviews`, `unrecorded` and `excused`
are ghosts: reviews posted of each head, those whose row was lost, and pull
requests one of the named events has left without a review.

### TestGen

`Sync`, `Index`, `Trigger`, `Enqueue` and `ReindexEnds` are `run_reindex_job`
and `_maybe_enqueue_test_gen_jobs`. `run_test_generation_job` and
`cmd_generate_tests` are these, each an await of its own:

| `pc` | step of the code | actions |
|---|---|---|
| `generate`, `ask` | the row and the prompt; the LLM and the three gates | `ReadRow`, `GenerateNothing`, `Generate`, `Fails` |
| `ref`, `contents` | `get_ref` (CLI only), `get_contents` | `ReadRef`, `ReadContents`, `Fails` |
| `create`, `write`, `open` | a decision: pre-gate, | `Deduped`, `ShadowLogged`, `Downgraded`, `Authorize` |
| | the request and its answer, | `Executed`, `Landed`, `Refused`, `Lost` |
| | the INSERT | `Inserted` |
| `commit` | the commit of the chain | `Commit` |

Between any two of them the clone, the index and the default branch may move and
a process may die. Of the three gates only pytest reads the clone, which is on
its `PYTHONPATH`, so one verdict (`Verifies`) stands for all three. The
working tree (`clone`), the index (`repoHead`), the default branch on GitHub
(`tip`) and the commit a job was enqueued for are four different commits. A
branch keeps its base commit, who made it and for which file. A content passes
the gates at a commit or not (`Collects`); the LLM may return any of `Tests` and
claim any confidence. A token has an age in ticks; a request that a tick passes
is `late` and must still be within the token's life.

## 3. Runs

Passing runs:

| Run | Question | Bounds |
|---|---|---|
| `gate_serial` | Does the gate implement `AtMostOnce` and respect mode and thresholds when runs follow each other and HTTP calls fail? | 1 process, 3 runs out of 9 jobs: comments (two share their first 200 characters), issue batches, chains; every mode; confidences at and just below thresholds |
| `gate_races` | What survives two processes with overlapping batches, crashes and lost replies? | 2 processes, 3 runs out of 6 jobs with two issues in either order (unique-index deadlock), a downgrade with nowhere to land, `label` and `add_label` |
| `ingress` | What survives interleaved handlers, a restart, failing enqueues, lost replies and raising jobs? | 3 deliveries (two with one job id, one of a bot), window 1, 2 tries, 2 handlers at once, 1 tick, 1 restart |
| `index_shared` | Do the tables describe `head_sha`, and what is left of them when transactions overlap? | a worker and two CLIs, 3 runs, 3 commits with a modified, an added, a deleted and a reverted file, one untracked, one not UTF-8 |
| `agents_review` | What do views, guardrails and jobs tell people while commits, index runs, heads and deliveries come in between? | 8 files with two package roots, 3 base commits, 3 heads of 2 pull requests that may share one, 1 issue, pages of 2 files, a worker and a CLI, 2 tries, five budgets of outside events |
| `testgen` | What may a generated test replace, claim or cost? | 2 modules whose branch slugs are equal, 4 commits in which they and their tests come and go, 3 contents the LLM may write, cap 1, a worker and a CLI, 2 tries, tokens of 3 ticks with skew 1, six budgets |

Three runs are enough for one to register or record, and two to race or to
repeat. Two processes are enough for every pairwise race and the shortest
deadlock. Two tries contain the first, the retry and the last. `index_shared`
uses symmetry over the two CLIs and `agents_review` over pull requests and
texts; both check safety only. The budgets of the last two runs say how often
each outside event may happen in one behaviour; each budget is one question
(`agents_review`: the index alone, onboarding, heads and deliveries moving under
a review, the index moving under a review, a CLI beside the worker; `testgen`:
three pushes, one push with two failures, two pushes with a failure, a push and a
CLI, and for either of these two an ageing token, which each process has its own
of), since all events at once would only multiply states.

What they show:

* `RowsTellTheTruth`, `EffectsAccounted`: `agent_actions` never claims an effect
  that did not happen, and an effect is missing from it only after a crash, a
  lost reply, a rollback or an escaping exception.
* `DuplicatesWereForgotten`: the unique constraint keeps one effect per decision
  on the books, so every duplicate was forgotten or its run is about to find the
  other's row.
* `SettledForGood`: a decision whose row is committed while nobody is between
  pre-gate and call has no further effect.
* `ImplementsAtMostOnce`, `OnlyEntitledEffects`, `CallsAreAcceptable`.
  The last one needs chains whose downgraded steps leave no row; `gate_upgrade`
  shows what happens otherwise.
* `RunsEnd`: every started run ends, also when sessions wait for each other.
* `OneLiveJobPerSubject` (however a payload spells the repository),
  `NoSelfTrigger`, `AnswersAreHonest`, `ApartOrOverlapping`,
  `DispatchedJobsEnd` for the ingress and the worker.
* `IndexMatchesHead`, `EdgesFollowRows` for the indexer as long as transactions
  do not overlap, and `NoEdgeIsLost` when they do: edges are deleted before rows,
  so an overlap can leave edges that should be gone, never a row without its
  edges.
* `EdgesAreAsOfTheirRow`: the edges of a file are those some run resolved for its
  present content; they may be stale. `RanksCountStatements` and
  `NeighborsFollowTheTree` say when the views nevertheless show the tree.
* `OneReviewPerHead`, `HeadsAreSettled`: a head is reviewed at most once and
  has a row at the end unless one of the listed events explains why not.
* `EvidenceNamesWhatWasRead`, `PagesAreComplete`: what a row says was read, was.
* `CitedLinesExist`, `GuardrailsExactOffTheDiff`, `DiscreditedIsHeldBack`,
  `FirstHunkSymbolsShown`: what the guardrails keep and drop, and that a reply
  most of which they drop does not reach the pull request as requested.
* `PushedTestsWereVerified`, `PrsShowWhatTheyClaim`, `NothingIsReplaced`,
  `OneAttemptPerFile`, `SpendingIsCapped`, `TokensAreAlive` for generated tests.

Runs that end in a counterexample, each against a sentence of the repository:

| Run | The repository says | The code does |
|---|---|---|
| `gate_crash_duplicates` | `agents/dedupe.py:3`: exactly one side effect, even across re-runs | the effect comes before the row; a crash in between repeats it |
| `gate_upgrade` | `jobs/runners.py:913`: no file write onto a branch that was not created | a downgraded `create_branch` is DEDUPED in full mode and counts as progress |
| `ingress_push_dropped` | `README.md:12`: re-indexes on `push` | the cooldown of the `synchronize` delivery swallows the push |
| `index_untracked` | `README.md:12`: full rebuild when git state is ambiguous | an added file that already has a row ends the run with an IntegrityError |
| `index_worktree` | `jobs/runners.py:361`: with one worker job at a time nobody else uses the worktree | `gita index` walks it in its own process while `_git_sync` resets it, and commits a mixture under one sha |
| `agents_ranks` | `views/load_bearing.py:1`: files ranked by how many other files import them | edges are counted, one for each statement, those of a file that imports itself included |

**Fairness.** `FairSpec` of the gate: a process that can take a step of its run
takes one; HTTP calls time out after 30 s and PostgreSQL wakes waiting INSERTs.
Starting jobs and crashing are not fair. `FairSpec` of the ingress: the event
loop goes on with some handler while one can go on, and the worker polls its
queue. Ticks, restarts and failures are not fair, and retries are bounded by
`max_tries`, so liveness does not rest on jobs succeeding. `Quiet` steps mark
the states in which all bounded work is done, so deadlock checking stays on.
`AgentJobs` and `TestGen` state no fairness; instead of "a head is reviewed
eventually" they say what is true when nothing is left to do (`HeadsAreSettled`).

**What modelling brought to light**, beyond the runs that end in a
counterexample. These are properties of the code that the models contain and
the statements of the properties have to leave room for:

* Reviews. A file a pull request adds is not in `code_index`, so its findings
  are dropped; a claim of a syntax error is checked against the base version;
  `diff_context_view` compares new-side ranges with spans of the base version.
  Pages of a head that moves are mixed. A second pull request with a reviewed
  head is skipped, and a shadow row blocks the live review. A review whose first
  200 characters equal an earlier one's is deduplicated and its sha is not
  recorded. The job id has no sha, so `synchronize` is refused while an older
  head is under review and while the result is kept. The CLI's review checks no
  sha and records none. Errors of the LLM escape `run_pr_review_job`. The sha in a
  row is that of `get_pr`; if the head moves before `get_pr_files`, the files are
  those of another one.
* Onboarding. The overall confidence is blended with the guardrails, that of the
  single milestones, which `--create-issues` uses, is not.
* Gate. A shadow run leaves a row, so the run after flipping `WRITE_MODE`, which
  `cli/commands.py:586` advises, is answered DEDUPED and posts nothing.
* Ingress. When Redis has taken a job and its reply is lost, GitHub is told 500
  although the job runs.
* Indexer. `_is_indexable` applies the filters of the walker but the size limit:
  a file above `MAX_FILE_SIZE` is indexed by an incremental run and dropped by
  the next full one. A full run does not see the edges an overlapping run commits
  after its DELETE has started; they stay beside its own until the next full run.
* Test generation. A crash between the commit of the index and the trigger loses
  the trigger; one after the effects of a chain leaves a branch that the retry
  finds refused (422). `get_contents` reads the tip of the base branch while the
  new branch starts at another commit: the blob does not fit, the write is
  refused, and since the create row is there, nobody tries again. The index may
  move between trigger and job. `src/app/core.py` and `src/app_core.py` share a
  branch name; a CLI run can write its file to the branch and pull request of
  the worker's. A file re-added at another commit while its first job is queued
  gets a second one. Files over the cap are never looked at again.
  `handle_push_reindex` ignores the ref. Shadow rows count as attempts. A pull
  request may claim a file its branch does not have: a low-confidence or
  comment-mode `update_file` leaves a downgraded row, a later job with the same
  content finds it, is told DEDUPED, which counts as progress, and opens the pull
  request. Or the branch's file is the one the base branch already had. Those are
  the two other disjuncts of `PrsShowWhatTheyClaim`.

## 4. Proofs

Every safety property a passing run checks, invariant or action property, is
also a theorem. The runs show it on an instance, the theorem for all values of
the constants the named assumptions allow. None of the properties below is
inductive unless said so.

### DecisionGateProofs

For any processes, jobs, texts and faults:

* `TypeCorrect`, `GateInvariant`, `TruthfulRows`: `RowsTellTheTruth` is not
  inductive, because the row is written one step after the call it speaks of.
  `GateInv` adds that a decision in `exec` or `record` has a threshold
  (`Gated`), that rows have a signature (`Signed`), and that between call and
  row the outcome tells what the call did (`OutcomeTellsTheTruth`).
* `EntitledEffects`: `OnlyEntitledEffects`, from `GateInv`.
* `SettledDecisions`: the action property `SettledForGood`; rows never go away,
  and only a process in `exec` has effects.
* `EffectsAreAccounted`, `DuplicatesForgotten`: from `BooksInv`, which adds what
  the unique index gives: at most one session holds a key (`OneHolder`), a
  flushed row is not committed, has the mode of its job and belongs to a run that
  goes on (`Uncommitted`), and a decision past its pre-gate is not one its own
  session has flushed (`NotRecordedYet`). The sum is over sets of processes, of
  which the moving one is in or out; `OwnBooksBalance` is the equation for that
  process alone and `Balances` carries it to the cardinalities. `Proc` need not
  be finite: finitely many processes have run so far, which is part of `BooksInv`.
* Under `Serial` (one process, no crash, no lost reply, jobs of actions that have
  a threshold and a signature): `SerialRunsPerformOnce`, every step is a step of
  `AtMostOnce` or a stutter, and `OneSideEffectWhenSerial`. `SerialInv` says that
  a decision with an effect has a row or is being recorded, and one that passed
  the pre-gate has neither effect nor row.
* Under `Serial` and `LiveChains` (chains as `build_test_generation_decisions`
  makes them, not in shadow mode, without a fallback issue, one content for each
  branch): `ChainsAreAcceptable` and `NoWriteOutsideABranch`. `ChainInv` ties
  GitHub to the counts: a branch, file or pull request stands exactly if its step
  was asked for, and behind the decision a chain is at everything was carried
  out. `gate_serial` satisfies both conditions. Each is needed: `gate_upgrade` has
  a fallback issue; a shadow row or a row of another content answers DEDUPED for
  a step whose successor then reaches GitHub.

### IndexerProofs

For any processes, commits, files and faults:

* `TypeCorrect`.
* `IndexOfHead`: `IndexMatchesHead` from `IndexInv`: the sha a run read is HEAD
  and its changes are the diff from the loaded sha to HEAD while nobody moves
  the clone (`TargetIsHead`, `DiffIsExact`); the loaded sha is the stored one
  until another run commits, and then the index already is that of HEAD
  (`KnownIsStored`, `OvertakenAtHead`). The lemma `IncrementalIsFull` says that
  applying a diff to the rows of its old commit, or to those of its new one,
  gives the rows of a full walk of the new one.
* `EdgesOfRows`: `EdgesFollowRows`, with the types and `OverlapOK`, that only a
  run whose writes overlap another's can have something it does not see.
* `NoLostEdges`: `NoEdgeIsLost` from `ImportsKept`: every import of every row has
  one edge that each writing run misses if it misses the row. Without the second
  half the commit of a run that misses the row could delete the edge.

The attempt to prove `IndexOfHead` exposed a hazard TLC's first bounds had not
reached: a run that loads `head_sha`, is overtaken by a run for another commit
and then sees the clone move applies its diff to the wrong rows, and a file whose
change was reverted in between stays stale. The theorem excludes moves from the
load on, not from the read of HEAD on.

### WebhookIngressProofs

For any deliveries, repositories, window, number of tries, concurrent handlers
and restarts: `TypeCorrect`, `NeverSelfTriggered`, `HonestAnswers`,
`EnqueuesApart` and `SubjectsLiveOnce`, all from one invariant of four parts.
`TypesOK`; `WorkOK`, that every job is that of a delivery past the gates and the
ids of queue and worker differ; `HandlersOK`, which ties where a handler is and
what it heard to whether its delivery has a job; `RateOK`. The rate limit is the
hard one: that two enqueues are apart follows at the second one from what its
handler saw when it passed the gates, so `RateOK` says of every handler still
before its enqueue that each earlier enqueue of its repository was in progress
with it, was not heard of, or is a window ago (`SawOK`), that handlers in
progress are beside each other, and that an enqueue which was heard of is covered
by the cooldown (`EnqueueOK`).

### AgentJobsProofs

For any files, layouts, commits, pull requests, processes and answers of the LLM:

* `EdgesAsOfTheirRow` is inductive together with the types of the index
  (`GraphOK`); the work is in the lemmas on what the two kinds of runs leave of
  rows and edges.
* `OneReviewForEachHead` from `Counted`: the reviews of a head are those whose
  row was lost, plus one if it has a row or its review is between effect and
  commit (`InFlight`). The step that posts needs `Unreviewed`: past the sha skip
  no row names the head, and only the worker writes rows that do.
* `HeadsSettle` from `Followed`: the head of a pull request that nothing has
  excused is pending, yet to be read, under review, or has a row.

### AgentReadsProofs

What jobs read between their awaits, and what may be said of it later. One
invariant, `Reads`, carries everything:

* `GraphRead`: the index has every file of the commit it names, each row holds
  what its own `indexed_at_sha` has (`RowsRead`), and while `steady` every row
  was resolved among the files there are now (`RowsSteady`).
* `JobsRead`: what a process has at each step fits its `pc`: how many pages, of
  which commit each hunk is, that hunks of a head that stayed put are a prefix of
  the files of that head, that cited lines are positive, and that the confidence
  of a job about to post was blended from what was found and kept.
* `CallersFind`: whoever is called for a pull request finds it on GitHub, without
  which `get_pr` would have nothing to return.
* `Books`: the types of everything else; `EvidenceNamesWhatWasRead` itself.

From it follow `TypesHold`, `EvidenceHolds`, `PagesAddUp`, `CitationsHold`,
`DiscreditedHeldBack`, `GuardrailsAreExact`, `SymbolsShown`, `RanksCount` and
`NeighborsFollow`, the last five with an argument each:

* `DiscreditedHeldBack`: integer arithmetic of `structural_confidence`, in
  hundredths, against the threshold of a comment, for any number of findings.
* `GuardrailsAreExact`: with the index at the base, a file the pull request leaves
  alone has the same content in its row and at the reviewed head.
* `SymbolsShown`: the first hunk has equal starts on both sides, so a symbol that
  overlaps its old side overlaps its new side if that is not shorter.
* `RanksCount`: counts of import statements lie between those that must and those
  that may be resolved to a file, as package roots come in any order; the cut at
  `ListLimit` is one of a total order of pairs of rank and path.
* `NeighborsFollow`: each edge of an up-to-date row is a possible target.

### SelectionProofs

Facts on sequences sorted by a total order, cuts of them, sums and least
elements, cited by the proofs of the agents. They avoid induction over data:
`Total` is the size of a disjoint union and not a fold, and `OrderRanks` says that
a strict total order on a finite set gives each rank to exactly one element, so
that what they return follows from cardinalities and not from a sort.

### TestGenProofs, TestGenClaimsProofs

For any tree, contents, cap, lifetime, processes and faults:

* `OnlyVerifiedIsPushed` from `JobsOK`: a confidence at the threshold means that
  the content a job carries passed the gates at the commit it carries, because
  the ceiling of 40 is below every threshold (`Threshold \in 41..100`), and a
  request is out only with such a confidence; and `BranchesOK`: that is then true
  of every file on a branch.
* `TokensStayAlive`: a token is fresh when its request goes out and a request
  sees at most one tick, so a positive skew is enough for any lifetime.
* `TypesHold`: `TypeOK`, which says what a job, branch, row and queued id holds at
  each step.
* `CapHolds` from `SpendInv`: what was asked for a commit plus what the running
  reindex job may still ask (`Owed`: the cap before the trigger, the rest of its
  choice after it) is covered by the incremental runs of that commit.
* `NothingGetsReplaced` from `NewFilesInv`: the commit whose tree Stage A looked
  at is the one that is enqueued, so a test file found missing is missing in the
  base of the branch, however late the job runs and whatever was pushed since.
* `AttemptedOnce` from `AttemptInv`: the branches made for a file, its queued jobs
  and the one under way are paid for by one attempt and those counted in `again`;
  a file is chosen by the trigger only if no row of it is left.
* `ClaimsAreTrue` from `ClaimInv`: a row or a request of a chain is backed by the
  file on the branch, by a downgraded row, or by what a commit had.

### Assumptions

Those the modules name: well-formed constants, and `None` outside the sets it is
added to. Two speak of the outside. `ReplyAssumption`: replies have the shape of
their schemas, line numbers and indices are naturals (an index below zero is
dropped at `agents/onboarding/recipe.py:199` like one too large) and confidences
are percentages (`agents/onboarding/recipe.py:211` and
`agents/pr_reviewer/recipe.py:265` clamp them). `PatchAssumption`: what git
guarantees of a unified diff, that new-side ranges lie in the new file and that
the first hunk starts at the same line on both sides; only `CitationsHold` and
`SymbolsShown` use it.

### Only model-checked

All liveness (`RunsEnd`, `DispatchedJobsEnd`), which needs `ENABLED` and fairness
and is out of the prover's reach. The runs that end in a counterexample are
findings, not theorems.

## 5. Not modelled

* Prompts, the text of comments and issues, embeddings, tree-sitter parsing, CLI
  parsing and formatting: text and remote calls without state the rest reads
  back. What parsing and the LLM return are constants or choices.
* `views/symbol.py`, `views/history.py`, `views/concept.py`: only the CLI shows
  them, and nothing depends on what they return.
* Migrations, startup checks and the health endpoints.
* The order of single statements of two overlapping index transactions, but for
  what their DELETEs miss and that one may raise (see `Indexer`). No property
  says when stray edges are absent while writes overlap.
* A repository whose root is itself a package: `ImportGraph` assumes there is no
  `__init__.py` there (`PackagesAssumption`).
* Name-status parsing is abstracted to its result in `Indexer`.

## 6. Plan

1. `TestGen` with the gate of `DecisionGate` instead of its reduction, and the
   ingress in front of both agents' jobs.
2. `parse_name_status` and the search of the working tree as functions against
   reference definitions.
3. Proofs: `ImplementsAtMostOnce` for several processes against an abstract
   specification that may repeat a forgotten effect; that `IncrementalIndex`
   after a change of package roots equals `FullIndex` where `steady` holds.
