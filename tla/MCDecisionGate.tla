--------------------------- MODULE MCDecisionGate ---------------------------
(* Small instances of DecisionGate: the jobs GITA's agents really build.   *)
EXTENDS DecisionGate

CONSTANTS w, c,          \* the ARQ worker, a CLI process
          i1,            \* an issue (or pull request)
          b1,            \* the branch of a (target file, base sha) pair
          t1, t2, t3     \* texts; t3 is a longer body with the head of t1

MCIssue == {i1}
MCBranch == {b1}
MCText == {t1, t2, t3}
MCBodyHead == [t \in MCText |-> IF t = t3 THEN t1 ELSE t]

Dc(a, issue, fb, br, t, conf) ==
  [action |-> a, issue |-> issue, fallback |-> fb, branch |-> br,
   text |-> t, confidence |-> conf]

Comment(t, conf) == Dc("comment", i1, None, None, t, conf)
IssueFor(t, conf) == Dc("create_issue", None, i1, None, t, conf)
\* The CLI run without --fallback-issue: a downgrade has nowhere to land.
IssueAlone(t, conf) == Dc("create_issue", None, None, None, t, conf)
Chain(t, fb, conf) ==
  <<Dc("create_branch", None, fb, b1, t, conf),
    Dc("update_file", None, fb, b1, t, conf),
    Dc("open_pr", None, fb, b1, t, conf)>>

Single(d, mode, client) ==
  [decs |-> <<d>>, stop |-> FALSE, mode |-> mode, client |-> client]
Batch(ds, mode) ==
  [decs |-> ds, stop |-> FALSE, mode |-> mode, client |-> mode # "shadow"]
ChainJob(t, fb, conf, mode) ==
  [decs |-> Chain(t, fb, conf), stop |-> TRUE, mode |-> mode,
   client |-> mode # "shadow"]

\* One worker: reviews that share their head, milestones, the chain, in all
\* modes and on both sides of the thresholds.  Every chain has the same
\* content and no issue to fall back to: a downgraded step leaves no row.
SerialJobs ==
  {Single(Comment(t1, 30), "comment", TRUE), Single(Comment(t3, 29), "full", TRUE),
   Single(Comment(t2, 80), "full", FALSE),
   Batch(<<IssueFor(t1, 70), IssueFor(t2, 69)>>, "full"),
   Batch(<<IssueFor(t1, 90)>>, "comment"),
   Batch(<<IssueFor(t2, 90), IssueFor(t1, 50)>>, "shadow"),
   ChainJob(t1, None, 90, "comment"), ChainJob(t1, None, 89, "full"),
   ChainJob(t1, None, 90, "full")}

\* Worker and CLI at once: milestones in either order, a review, and actions
\* the tables disagree about.
RaceJobs ==
  {Batch(<<IssueFor(t1, 90), IssueFor(t2, 90)>>, "full"),
   Batch(<<IssueFor(t2, 40), IssueFor(t1, 90)>>, "full"),
   Batch(<<IssueAlone(t1, 40)>>, "full"),
   Batch(<<IssueFor(t2, 90)>>, "shadow"),
   Single(Dc("label", i1, None, None, t1, 60), "comment", TRUE),
   Batch(<<IssueFor(t2, 90), Dc("add_label", i1, None, None, t1, 60)>>, "comment")}

\* One review in comment mode.
ReviewJobs == {Single(Comment(t1, 80), "comment", TRUE)}

\* The chain before and after WRITE_MODE goes from comment to full.
UpgradeJobs == {ChainJob(t1, i1, 90, "comment"), ChainJob(t1, i1, 90, "full")}
=============================================================================
