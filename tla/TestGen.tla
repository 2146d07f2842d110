------------------------------- MODULE TestGen ------------------------------
(***************************************************************************)
(* Generated tests: the trigger at the end of run_reindex_job, the         *)
(* preflight stages, run_test_generation_job, the three decisions of the   *)
(* bridge and the token cache of the client that sends them                *)
(* (jobs/runners.py, agents/test_generator/, github/client.py).            *)
(*                                                                         *)
(* code_index is that of repos.head_sha (see Indexer), so the row of a     *)
(* file is its content in that commit.  The worker runs one job at a time; *)
(* `gita generate-tests' runs beside it.  The clone is where the last      *)
(* reindex job put it.                                                     *)
(***************************************************************************)
EXTENDS ImportResolution, Selection, Integers

CONSTANTS
  Worker, Clis,
  File, Content, Sha,
  TreeOf,       \* TreeOf[s][f]: content of f in commit s, or None
  PathOrder,    \* the files in the order of their paths
  SkipDirs, TestDirs,
  TestStems,    \* stems of the files named test_*.py or *_test.py
  Slug,         \* Slug[f]: the file's part of a branch name
  Mentions,     \* Mentions[c]: dotted modules named by imports of c
  Facts,        \* Facts[c]: what is_feasible reads from row and structure
  MaxLines,     \* _MAX_LINES_FOR_TEST_GEN
  Cap,          \* AUTO_TEST_GEN_MAX_PER_REINDEX
  Tests,        \* contents the LLM may return
  Collects,     \* <<t, s>>: t passes ast, py_compile and pytest at commit s
  Claims,       \* confidences the LLM may claim, in percent
  Threshold,    \* DEFAULT_THRESHOLDS of the three actions
  Life, Skew,   \* ticks a token lives; _TOKEN_REFRESH_SKEW
  MaxTries,
  Modes,        \* write modes to start from
  Budgets       \* bounds: how often each outside event may happen

Process == {Worker} \cup Clis
Switches == {"AUTO_TEST_GEN_ENABLED", "Repo.auto_test_generation"}
EventKinds == {"push", "cli", "fault", "tick"}

ASSUME TestGenAssumption ==
  /\ Worker \notin Clis
  /\ TreeOf \in [Sha -> [File -> Content \cup {None}]]
  /\ Tests \subseteq Content /\ None \notin Content \cup File \cup Sha
  /\ PathOrder \in Seq(File) /\ IsInjective(PathOrder) /\ ToSet(PathOrder) = File
  /\ ExcludedDirs = SkipDirs \cup TestDirs /\ "tests" \in TestDirs \ SkipDirs
  /\ \A f \in File : {"test_" \o f.stem, f.stem \o "_test"} \subseteq TestStems
  /\ Cap \in Nat /\ MaxTries \in Nat \ {0} /\ Life \in Nat /\ Skew \in 1..(Life - 1)
  /\ Claims \subseteq 0..100 /\ Threshold \in 41..100  \* above the ceiling
  /\ Modes \subseteq {"shadow", "comment", "full"}
  /\ \A b \in Budgets : b \in [EventKinds -> Nat]

VARIABLES
  tip,       \* GitHub: the commit of the default branch
  branches,  \* GitHub: gita/tests branches by slug and base commit
  prs,       \* GitHub: pull requests from those branches
  clone,     \* the commit of the working tree
  repoHead,  \* repos.head_sha
  switches,  \* which of the two switches are on
  mode,      \* WRITE_MODE
  queue,     \* queued jobs
  ended,     \* ids of ended jobs: ARQ may still keep their results
  job,       \* what each process is doing
  token,     \* token[p]: age of the installation token of p's client, or None
  acts,      \* agent_actions of the test generator, committed
  asked,     \* ghost: jobs enqueued by the trigger
  visits,    \* ghost: incremental runs that ended at each commit
  again,     \* ghost: reasons for a second attempt, per file
  budget

github == <<tip, branches, prs>>
local == <<clone, repoHead, switches, mode>>
ghosts == <<asked, visits, again>>
vars == <<github, local, queue, ended, job, token, acts, ghosts, budget>>

Chain == <<"create", "write", "open">>
PC == {"idle", "sync", "index", "trigger", "enqueue", "generate", "ask", "ref",
       "contents", "commit"} \cup ToSet(Chain)
Recordable == {"EXECUTED", "SHADOW_LOGGED", "DOWNGRADED"}

Idle == [kind |-> "none", file |-> None, sha |-> None, tries |-> 0, pc |-> "idle",
         added |-> {}, chosen |-> <<>>, text |-> None, at |-> None, conf |-> 0,
         existing |-> None, rows |-> {}, made |-> FALSE, sent |-> "no",
         outcome |-> "none"]

Disk(s) == {f \in File : TreeOf[s][f] # None}
TestPath(f) == Path(<<"tests">>, "test_" \o f.stem, "py")
BranchOf(f, s) == <<Slug[f], s>>

BranchNames == {BranchOf(f, s) : f \in File, s \in Sha}
TestPaths == {TestPath(f) : f \in File}
Tries == 0..(MaxTries - 1)

Row == [action : ToSet(Chain), branch : BranchNames, path : TestPaths \cup {None},
        text : Tests \cup {None}, file : File \cup {None},
        outcome : Recordable]

Queued ==
  [kind : {"reindex"}, file : {None}, sha : Sha, tries : Tries]
    \cup [kind : {"generate"}, file : File, sha : Sha, tries : Tries]

Job ==
  [kind : {"none", "reindex", "generate"}, file : File \cup {None},
   sha : Sha \cup {None}, tries : Tries, pc : PC, added : SUBSET File,
   chosen : Seq(File), text : Tests \cup {None}, at : Sha \cup {None},
   conf : 0..100, existing : Content \cup {None}, rows : SUBSET Row,
   made : BOOLEAN, sent : {"no", "sent", "late"}, outcome : Recordable \cup {"none"}]

\* What a process knows by the time it gets to each step.
JobShape(p, j) ==
  /\ j.kind = "none" <=> j = Idle
  /\ j.pc = "idle" <=> j = Idle
  /\ j.pc \in {"sync", "index", "trigger", "enqueue"} <=> j.kind = "reindex"
  /\ j.kind = "reindex" => p = Worker /\ j.file = None
  /\ p = Worker /\ j # Idle => j.sha \in Sha
  /\ j.kind = "generate" => j.file \in File
  /\ j.kind = "generate" /\ j.pc \notin {"generate", "ask"} =>
       j.text \in Tests /\ j.at \in Sha
  /\ j.pc \in ToSet(Chain) \cup {"contents", "commit"} => j.sha \in Sha
  /\ j.pc = "ref" => j.sha = None
  /\ j.outcome # "none" => j.pc \in ToSet(Chain) /\ j.sent = "no"

BranchShape(b) ==
  LET files == branches[b].files
  IN /\ branches[b] \in [base : Sha, by : Process, for : File, files : {files}]
     /\ branches[b].base = b[2]
     /\ DOMAIN files \subseteq TestPaths
     /\ files \in [DOMAIN files -> [text : Tests, at : Sha, by : Process]]

TypeOK ==
  /\ tip \in Sha /\ clone \in Sha /\ repoHead \in Sha
  /\ DOMAIN branches \subseteq BranchNames
  /\ branches = [b \in DOMAIN branches |-> branches[b]]
  /\ \A b \in DOMAIN branches : BranchShape(b)
  /\ prs \subseteq [head : DOMAIN branches, path : TestPaths, text : Tests]
  /\ switches \subseteq Switches /\ mode \in Modes
  /\ queue \subseteq Queued
  /\ job \in [Process -> Job]
  /\ \A p \in Process : JobShape(p, job[p])
  /\ token \in [Process -> 0..Life \cup {None}]
  /\ acts \subseteq Row
  /\ asked \subseteq File \X Sha /\ visits \in [Sha -> Nat] /\ again \in [File -> Nat]
  /\ budget \in [EventKinds -> Nat]

Init ==
  /\ repoHead \in Sha /\ clone = repoHead /\ tip = repoHead
  /\ branches = <<>> /\ prs = {}
  /\ switches \in SUBSET Switches
  /\ mode \in Modes
  /\ queue = {} /\ ended = {}
  /\ job = [p \in Process |-> Idle]
  /\ token = [p \in Process |-> None]
  /\ acts = {}
  /\ asked = {} /\ visits = [s \in Sha |-> 0] /\ again = [f \in File |-> 0]
  /\ budget \in Budgets

Spend(what) ==
  /\ budget[what] > 0
  /\ budget' = [budget EXCEPT ![what] = @ - 1]

Becomes(p, j) == job' = [job EXCEPT ![p] = j]

-----------------------------------------------------------------------------
(* Jobs.                                                                   *)

IdOf(q) == <<q.kind, q.file, q.sha>>
LiveIds ==
  {IdOf(q) : q \in queue} \cup (IF job[Worker] = Idle THEN {} ELSE {IdOf(job[Worker])})

\* What enqueue_job may leave in the queue, and whether it took the job.
Enqueued(kind, f, s) ==
  LET q == [kind |-> kind, file |-> f, sha |-> s, tries |-> 0]
  IN (IF IdOf(q) \in LiveIds THEN {} ELSE {<<queue \cup {q}, "taken">>})
       \cup (IF IdOf(q) \in LiveIds \cup ended THEN {<<queue, "refused">>} ELSE {})

\* A push to the default or another branch.  handle_push_reindex does not look
\* at the ref, and the ingress may stop the delivery.
Push ==
  /\ Spend("push")
  /\ \E s \in Sha :
       /\ tip' \in {tip, s}
       /\ \E e \in Enqueued("reindex", None, s) \cup {<<queue, "refused">>} : queue' = e[1]
  /\ UNCHANGED <<branches, prs, local, ended, job, token, acts, ghosts>>

Take ==
  /\ job[Worker] = Idle
  /\ \E q \in queue :
       /\ queue' = queue \ {q}
       /\ Becomes(Worker, [Idle EXCEPT !.kind = q.kind, !.file = q.file, !.sha = q.sha,
            !.tries = q.tries, !.pc = IF q.kind = "reindex" THEN "sync" ELSE "generate"])
  /\ UNCHANGED <<github, local, ended, token, acts, ghosts, budget>>

Ends(p) ==
  /\ Becomes(p, Idle)
  /\ token' = [token EXCEPT ![p] = None]
  /\ ended' = IF p = Worker THEN ended \cup {IdOf(job[p])} ELSE ended

\* The branch is on GitHub and its row will not be committed.
Unrecorded(p) ==
  again' = IF job[p].made THEN [again EXCEPT ![job[p].file] = @ + 1] ELSE again

\* Mutant of TriedAgain: one try too many.
TriedOnceMore(j) == j.tries < MaxTries

TriedAgain(j) == j.tries + 1 < MaxTries

\* The process dies, or the job times out; ARQ may put it back.
Crash(p) ==
  /\ job[p] # Idle
  /\ Spend("fault")
  /\ Unrecorded(p)
  /\ \/ /\ p = Worker /\ TriedAgain(job[p])
        /\ queue' = queue \cup {[kind |-> job[p].kind, file |-> job[p].file,
                                 sha |-> job[p].sha, tries |-> job[p].tries + 1]}
        /\ Becomes(p, Idle)
        /\ token' = [token EXCEPT ![p] = None]
        /\ UNCHANGED ended
     \/ Ends(p) /\ UNCHANGED queue
  /\ UNCHANGED <<github, local, acts, asked, visits>>

-----------------------------------------------------------------------------
(* run_reindex_job and the trigger.                                        *)

Sync ==
  /\ job[Worker].pc = "sync"
  /\ clone' = job[Worker].sha
  /\ Becomes(Worker, [job[Worker] EXCEPT !.pc = "index"])
  /\ UNCHANGED <<github, repoHead, switches, mode, queue, ended, token, acts, ghosts, budget>>

\* _is_indexable
IndexableAt(s) ==
  {f \in Disk(s) : f.suffix \in {"py"} \cup ToSet(Extensions)
                   /\ ToSet(f.dir) \cap ExcludedDirs = {}}

\* index_repository and its commit.  Only an incremental run has added files;
\* git trouble makes it a full one.
Index ==
  /\ job[Worker].pc = "index"
  /\ repoHead' = clone
  /\ \/ /\ repoHead # clone
        /\ Becomes(Worker, [job[Worker] EXCEPT !.pc = "trigger",
                     !.added = IndexableAt(clone) \ Disk(repoHead)])
        /\ visits' = [visits EXCEPT ![clone] = @ + 1]
        /\ UNCHANGED budget
     \/ /\ repoHead = clone \/ budget["fault"] > 0
        /\ IF repoHead = clone THEN UNCHANGED budget ELSE Spend("fault")
        /\ Becomes(Worker, [job[Worker] EXCEPT !.pc = "trigger"])
        /\ UNCHANGED visits
  /\ UNCHANGED <<github, clone, switches, mode, queue, ended, token, acts, asked, again>>

\* Mutant of NamedLikeTestOf: only test_<stem>.py is looked for beside it.
NamedBeside(f, g) == g = Path(f.dir, "test_" \o f.stem, "py")

\* _iter_repo_files for the two names, next to the target or in a test
\* directory.
NamedLikeTestOf(f, g) ==
  /\ g.suffix = "py" /\ g.stem \in {"test_" \o f.stem, f.stem \o "_test"}
  /\ \/ g.dir = f.dir
     \/ ToSet(g.dir) \cap TestDirs # {} /\ ToSet(g.dir) \cap SkipDirs = {}

\* _iter_test_like_files
TestLike(g) ==
  /\ g.suffix = "py" /\ ToSet(g.dir) \cap SkipDirs = {}
  /\ ToSet(g.dir) \cap TestDirs # {} \/ g.stem \in TestStems

\* _derive_importable_names
ImportableNames(f, disk) ==
  LET module == IF f.stem = "__init__" THEN f.dir ELSE Append(f.dir, f.stem)
  IN {SubSeq(module, Len(r) + 1, Len(module)) :
        r \in {x \in DiscoveredRoots(disk) \cup {<<>>} : IsPrefix(x, f.dir)}} \ {<<>>}

\* _build_import_patterns against the text of a test file.
ImportsTarget(g, f) ==
  Mentions[TreeOf[clone][g]] \cap ImportableNames(f, Disk(clone)) # {}

\* Stage A, on the working tree.
HasExistingTests(f) ==
  \E g \in Disk(clone) :
    \/ NamedLikeTestOf(f, g)
    \/ TestLike(g) /\ ImportsTarget(g, f)

\* Mutant of PriorAttempt: attempts at the indexed commit only.
PriorAttemptHere(f) ==
  \E a \in acts : a.action = "create" /\ a.file = f /\ a.branch[2] = repoHead

\* _has_prior_test_gen_attempt: the evidence of a create_branch row names f.
PriorAttempt(f) == \E a \in acts : a.action = "create" /\ a.file = f

\* Stage B, on the index.
IsFeasible(f) ==
  /\ f \in IndexableAt(repoHead)
  /\ LET it == Facts[TreeOf[repoHead][f]]
     IN /\ f.suffix = "py" /\ f.stem # "__main__"
        /\ it.lines <= MaxLines
        /\ it.functions \cup it.classes # {}
        /\ ~(it.functions = {"main"} /\ it.classes = {} /\ it.mainGuard)
  /\ ~PriorAttempt(f)

\* Mutant of Selected: one file too many.
SelectedInclusive(files) ==
  KeptAt(PathOrder, Firsts({i \in DOMAIN PathOrder : PathOrder[i] \in files}, Cap + 1))

\* Stage C: sorted, then cut at the cap.
Selected(files) ==
  KeptAt(PathOrder, Firsts({i \in DOMAIN PathOrder : PathOrder[i] \in files}, Cap))

Trigger ==
  /\ job[Worker].pc = "trigger"
  /\ LET candidates == {f \in job[Worker].added : ~HasExistingTests(f) /\ IsFeasible(f)}
         chosen == IF switches = Switches THEN Selected(candidates) ELSE <<>>
     IN Becomes(Worker, [job[Worker] EXCEPT !.pc = "enqueue", !.added = {},
                           !.chosen = chosen])
  /\ UNCHANGED <<github, local, queue, ended, token, acts, ghosts, budget>>

\* A generate_tests job of f that may still create its branch.
AttemptLive(f) == \E id \in LiveIds : id[1] = "generate" /\ id[2] = f

\* One file of the loop: taken, refused as a duplicate, or an error that is
\* logged and skipped.
Enqueue ==
  /\ job[Worker].pc = "enqueue" /\ job[Worker].chosen # <<>>
  /\ LET f == Head(job[Worker].chosen)
         taken(e) == e[2] = "taken"
     IN \/ /\ \E e \in Enqueued("generate", f, repoHead) :
                /\ queue' = e[1]
                /\ asked' = IF taken(e) THEN asked \cup {<<f, repoHead>>} ELSE asked
                /\ again' = IF taken(e) /\ AttemptLive(f)
                            THEN [again EXCEPT ![f] = @ + 1] ELSE again
           /\ UNCHANGED budget
        \/ Spend("fault") /\ UNCHANGED <<queue, asked, again>>
  /\ Becomes(Worker, [job[Worker] EXCEPT !.chosen = Tail(@)])
  /\ UNCHANGED <<github, local, ended, token, acts, visits>>

ReindexEnds ==
  /\ job[Worker].pc = "enqueue" /\ job[Worker].chosen = <<>>
  /\ Ends(Worker)
  /\ UNCHANGED <<github, local, queue, acts, ghosts, budget>>

-----------------------------------------------------------------------------
(* run_test_generation_job: the recipe and the base branch.                *)

\* `gita generate-tests' for a file and a target repository.
CliGenerates(p, f) ==
  /\ p \in Clis /\ job[p] = Idle
  /\ Spend("cli")
  /\ Becomes(p, [Idle EXCEPT !.kind = "generate", !.file = f, !.pc = "generate"])
  /\ UNCHANGED <<github, local, queue, ended, token, acts, ghosts>>

\* Mutant of Blended: the ceiling is a bonus that is not given.
BlendedWithoutCeiling(verified, claim) ==
  IF verified THEN Min({100, claim + 5}) ELSE claim

\* _VERIFIED_BONUS, _UNVERIFIED_CEILING
Blended(verified, claim) ==
  IF verified THEN Min({100, claim + 5}) ELSE Min({claim, 40})

\* _build_prompt_context: the row.
ReadRow(p) ==
  /\ job[p].pc = "generate"
  /\ job[p].file \in IndexableAt(repoHead)
  /\ Becomes(p, [job[p] EXCEPT !.pc = "ask"])
  /\ UNCHANGED <<github, local, queue, ended, token, acts, ghosts, budget>>

\* The file is not indexed any more: an error summary.
GenerateNothing(p) ==
  /\ job[p].pc = "generate"
  /\ job[p].file \notin IndexableAt(repoHead)
  /\ Ends(p)
  /\ UNCHANGED <<github, local, queue, acts, ghosts, budget>>

\* verify_test_file: three gates, of which only pytest reads the working tree,
\* which is on PYTHONPATH.  A subprocess that times out counts as failed.
Verifies(t) == <<t, clone>> \in Collects

\* The answer of the LLM, some time after the row was read, and the gates.
Generate(p) ==
  /\ job[p].pc = "ask"
  /\ \E t \in Tests, claim \in Claims :
       Becomes(p, [job[p] EXCEPT !.text = t, !.at = clone,
                     !.conf = Blended(Verifies(t), claim),
                     !.pc = IF job[p].sha = None THEN "ref" ELSE "contents"])
  /\ UNCHANGED <<github, local, queue, ended, token, acts, ghosts, budget>>

\* get_ref, if the caller gave no base.
ReadRef(p) ==
  /\ job[p].pc = "ref"
  /\ Becomes(p, [job[p] EXCEPT !.sha = tip, !.pc = "contents"])
  /\ UNCHANGED <<github, local, queue, ended, token, acts, ghosts, budget>>

\* What the base branch has at the path, whose tip need not be the base commit.
ExistingTest(f) == IF TestPath(f) \in File THEN TreeOf[tip][TestPath(f)] ELSE None

\* get_contents; a 404 is no file.
ReadContents(p) ==
  /\ job[p].pc = "contents"
  /\ Becomes(p, [job[p] EXCEPT !.pc = "create", !.existing = ExistingTest(job[p].file)])
  /\ UNCHANGED <<github, local, queue, ended, token, acts, ghosts, budget>>

\* The LLM or GitHub answers with an error: an error summary, and no retry.
Fails(p) ==
  /\ job[p].pc \in {"ask", "ref", "contents"}
  /\ Spend("fault")
  /\ Ends(p)
  /\ UNCHANGED <<github, local, queue, acts, ghosts>>

-----------------------------------------------------------------------------
(* _execute_decision_chain.                                                *)

InChain(p) == job[p].pc \in ToSet(Chain)

\* The row of a decision: what compute_signature takes from it, file, which only
\* the evidence of create_branch has, and the outcome.
RowOf(j, outcome) ==
  LET IsAt(step, x) == IF j.pc = step THEN x ELSE None
  IN [action |-> j.pc, branch |-> BranchOf(j.file, j.sha),
      path |-> IsAt("write", TestPath(j.file)), text |-> IsAt("write", j.text),
      file |-> IsAt("create", j.file), outcome |-> outcome]

Signature(a) == <<a.action, a.branch, a.path, a.text>>
Signed(p) ==
  Signature(RowOf(job[p], None)) \in {Signature(a) : a \in acts \cup job[p].rows}

\* Mutant of Progress: an error does not stop the chain.
ProgressWithError == {"EXECUTED", "SHADOW_LOGGED", "DEDUPED", "ERROR"}

\* _PROGRESS_OUTCOMES
Progress == {"EXECUTED", "SHADOW_LOGGED", "DEDUPED"}

After(j, outcome) ==
  [j EXCEPT !.sent = "no", !.outcome = "none",
     !.pc = IF outcome \notin Progress \/ j.pc = "open" THEN "commit"
            ELSE IF j.pc = "create" THEN "write" ELSE "open"]

\* The answer is known, its row comes later.
Answered(j, outcome) ==
  [j EXCEPT !.sent = "no", !.outcome = outcome,
            !.made = @ \/ (outcome = "EXECUTED" /\ j.pc = "create")]

Entitled(p) == mode = "full" /\ job[p].conf >= Threshold

\* A fallback issue for downgrades: only the CLI gives one, and has to in comment
\* mode.
MayLand(p) == p \in Clis
MustLand(p) == p \in Clis /\ mode = "comment"

\* The next decision of the chain, before its pre-gate ...
Undecided(p) == InChain(p) /\ job[p].sent = "no" /\ job[p].outcome = "none"

\* ... which may end it ...
Deduped(p) ==
  /\ Undecided(p) /\ Signed(p)
  /\ Becomes(p, After(job[p], "DEDUPED"))
  /\ UNCHANGED <<github, local, queue, ended, token, acts, ghosts, budget>>

\* ... or let it through.  Shadow mode calls nobody, and stops the chain as any
\* mode does where the confidence is too low.
ShadowLogged(p) ==
  /\ Undecided(p) /\ ~Signed(p) /\ mode = "shadow"
  /\ Becomes(p, Answered(job[p],
       IF job[p].conf >= Threshold THEN "SHADOW_LOGGED" ELSE "DOWNGRADED"))
  /\ UNCHANGED <<github, local, queue, ended, token, acts, ghosts, budget>>

\* A downgrade that has nowhere to land leaves no row.
Downgraded(p) ==
  /\ Undecided(p) /\ ~Signed(p) /\ mode # "shadow"
  /\ ~Entitled(p) /\ ~MustLand(p)
  /\ Becomes(p, After(job[p], "DOWNGRADED"))
  /\ UNCHANGED <<github, local, queue, ended, token, acts, ghosts, budget>>

\* Mutant of IsFresh: no skew.
IsFreshToTheEnd(age) == age < Life

\* _CachedToken.is_fresh
IsFresh(age) == age + Skew < Life

\* The request for the action, or for the comment a downgrade lands in, with
\* the cached token while that is fresh.
Authorize(p) ==
  /\ Undecided(p) /\ ~Signed(p) /\ mode # "shadow"
  /\ Entitled(p) \/ MayLand(p)
  /\ token' = [token EXCEPT ![p] = IF @ # None THEN IF IsFresh(@) THEN @ ELSE 0 ELSE 0]
  /\ Becomes(p, [job[p] EXCEPT !.sent = "sent"])
  /\ UNCHANGED <<github, local, queue, ended, acts, ghosts, budget>>

\* Time passes; the HTTP timeout is shorter than a tick.
Tick(p) ==
  /\ token[p] # None /\ token[p] < Life /\ job[p].sent # "late"
  /\ Spend("tick")
  /\ token' = [token EXCEPT ![p] = @ + 1]
  /\ Becomes(p, [job[p] EXCEPT !.sent = IF @ = "sent" THEN "late" ELSE @])
  /\ UNCHANGED <<github, local, queue, ended, acts, ghosts>>

\* The blob a branch has at a path, or None.
BlobAt(b, path) ==
  IF path \in DOMAIN branches[b].files THEN branches[b].files[path].text
  ELSE IF path \in File THEN TreeOf[branches[b].base][path] ELSE None

\* What GitHub checks: a new ref, the blob's sha, one pull request per head
\* with something to merge.
Accepts(j) ==
  LET b == BranchOf(j.file, j.sha)
  IN CASE j.pc = "create" -> b \notin DOMAIN branches
       [] j.pc = "write" -> /\ b \in DOMAIN branches
                            /\ BlobAt(b, TestPath(j.file)) = j.existing
       [] OTHER -> /\ b \in DOMAIN branches
                   /\ \A r \in prs : r.head # b
                   /\ branches[b].files # <<>> \/ branches[b].base # tip

TakesEffect(p) ==
  LET j == job[p]
      b == BranchOf(j.file, j.sha)
      new == [base |-> j.sha, by |-> p, for |-> j.file, files |-> <<>>]
      written == [text |-> j.text, at |-> j.at, by |-> p]
  IN /\ branches' =
          CASE j.pc = "create" -> [x \in DOMAIN branches \cup {b} |->
                                     IF x = b THEN new ELSE branches[x]]
            [] j.pc = "write" ->
                 [branches EXCEPT ![b].files =
                    [q \in DOMAIN @ \cup {TestPath(j.file)} |->
                       IF q = TestPath(j.file) THEN written ELSE @[q]]]
            [] OTHER -> branches
     /\ prs' = IF j.pc = "open"
               THEN prs \cup {[head |-> b, path |-> TestPath(j.file), text |-> j.text]}
               ELSE prs

\* The answer to it: the effect comes first, its row in a later step.
Executed(p) ==
  /\ InChain(p) /\ job[p].sent # "no" /\ Entitled(p)
  /\ Accepts(job[p])
  /\ TakesEffect(p)
  /\ Becomes(p, Answered(job[p], "EXECUTED"))
  /\ UNCHANGED <<tip, local, queue, ended, token, acts, ghosts, budget>>

Landed(p) ==
  /\ InChain(p) /\ job[p].sent # "no" /\ ~Entitled(p)
  /\ Becomes(p, Answered(job[p], "DOWNGRADED"))
  /\ UNCHANGED <<github, local, queue, ended, token, acts, ghosts, budget>>

\* ERROR: GitHub refuses.
Refused(p) ==
  /\ InChain(p) /\ job[p].sent # "no" /\ Entitled(p)
  /\ ~Accepts(job[p])
  /\ Becomes(p, After(job[p], "ERROR"))
  /\ UNCHANGED <<github, local, queue, ended, token, acts, ghosts, budget>>

\* The request or its answer is lost, so there is no row: ERROR, or a downgrade
\* that may or may not have landed.
Lost(p) ==
  /\ InChain(p) /\ job[p].sent # "no"
  /\ Spend("fault")
  /\ Becomes(p, After(job[p], IF Entitled(p) THEN "ERROR" ELSE "DOWNGRADED"))
  /\ \/ UNCHANGED <<branches, prs, again>>
     \/ /\ Entitled(p) /\ Accepts(job[p])
        /\ TakesEffect(p)
        /\ again' = IF job[p].pc = "create" THEN [again EXCEPT ![job[p].file] = @ + 1]
                    ELSE again
  /\ UNCHANGED <<tip, local, queue, ended, token, acts, asked, visits>>

\* record_action waits for an uncommitted row of another process with its
\* signature; if there is a committed one by then, the session is rolled back
\* and the outcome is DEDUPED.
Inserted(p) ==
  LET j == job[p]
      row == RowOf(j, j.outcome)
      taken == Signature(row) \in {Signature(a) : a \in acts}
      next == After(j, IF taken THEN "DEDUPED" ELSE j.outcome)
  IN /\ InChain(p) /\ j.outcome # "none"
     /\ \A o \in Process \ {p} :
          Signature(row) \notin {Signature(a) : a \in job[o].rows}
     /\ Becomes(p, [next EXCEPT !.rows = IF taken THEN {} ELSE @ \cup {row}])
     /\ UNCHANGED <<github, local, queue, ended, token, acts, ghosts, budget>>

\* One commit for the whole chain.
Commit(p) ==
  /\ job[p].pc = "commit"
  /\ acts' = acts \cup job[p].rows
  /\ Ends(p)
  /\ IF \E a \in job[p].rows : a.action = "create" THEN UNCHANGED again
     ELSE Unrecorded(p)
  /\ UNCHANGED <<github, local, queue, asked, visits, budget>>

-----------------------------------------------------------------------------
Reindex == Sync \/ Index \/ Trigger \/ Enqueue \/ ReindexEnds
Generation(p) ==
  \/ ReadRow(p) \/ GenerateNothing(p) \/ Generate(p)
  \/ ReadRef(p) \/ ReadContents(p) \/ Fails(p)
ChainStep(p) ==
  \/ Deduped(p) \/ ShadowLogged(p) \/ Downgraded(p) \/ Authorize(p)
  \/ Executed(p) \/ Landed(p) \/ Refused(p) \/ Lost(p) \/ Inserted(p) \/ Commit(p)

Quiet ==
  /\ queue = {} /\ \A p \in Process : job[p] = Idle
  /\ UNCHANGED vars

Next ==
  \/ Push \/ Take \/ Reindex \/ Quiet
  \/ \E p \in Process :
       \/ Generation(p) \/ ChainStep(p) \/ Tick(p) \/ Crash(p)
       \/ \E f \in File : CliGenerates(p, f)

Spec == Init /\ [][Next]_vars

-----------------------------------------------------------------------------
(* Properties.                                                             *)

\* Nothing unverified is pushed: each file on a gita/tests branch passed the
\* three gates, in the working tree its job saw, over retries that find their
\* branch already there, answers that are lost and a second process.
PushedTestsWereVerified ==
  \A b \in DOMAIN branches : \A q \in DOMAIN branches[b].files :
    <<branches[b].files[q].text, branches[b].files[q].at>> \in Collects

\* A pull request shows what its body claims: its branch exists and holds, at
\* the path it names, the content whose hash it names, whichever run of the
\* chain created the branch, wrote the file or opened the request.  There are
\* two ways to another end: update_file was DEDUPED against a row whose effect
\* was a fallback issue, or the request was merged and a later job for its base
\* commit wrote over what it had found on the default branch.
PrsShowWhatTheyClaim ==
  \A r \in prs :
    \/ /\ r.path \in DOMAIN branches[r.head].files
       /\ branches[r.head].files[r.path].text = r.text
    \/ \E a \in acts : /\ Signature(a) = <<"write", r.head, r.path, r.text>>
                       /\ a.outcome = "DOWNGRADED"
    \/ r.path \in File /\ \E s \in Sha : TreeOf[s][r.path] = r.text

\* The trigger never proposes to replace a file somebody wrote: what a triggered
\* job writes to a branch is new there, although Stage A looked at the working
\* tree long before get_contents looked at the base branch, and the branch may
\* be one that a file with the same slug made.
NothingIsReplaced ==
  \A b \in DOMAIN branches : \A q \in DOMAIN branches[b].files :
    branches[b].files[q].by = Worker /\ q \in File =>
      TreeOf[branches[b].base][q] = None

\* A file that comes, goes and comes again is attempted once: the worker has
\* made a second branch for it only if the second job was enqueued while the
\* first was live, or if the row of an attempt was lost.
OneAttemptPerFile ==
  \A f \in File :
    Cardinality({b \in DOMAIN branches :
                   branches[b].by = Worker /\ branches[b].for = f}) <= 1 + again[f]

\* The cap bounds LLM spending: at most Cap jobs per incremental run, over
\* retried reindex jobs, crashes between commit and enqueue and redeliveries.
SpendingIsCapped ==
  \A s \in Sha : Cardinality({a \in asked : a[2] = s}) <= Cap * visits[s]

\* No request is sent with, or arrives with, an expired installation token.
TokensAreAlive ==
  \A p \in Process : job[p].sent # "no" => token[p] < Life
=============================================================================
