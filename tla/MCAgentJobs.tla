----------------------------- MODULE MCAgentJobs ----------------------------
(* A small repository with two package roots, three commits of its base    *)
(* branch and three heads of pull requests.                                *)
EXTENDS AgentJobs, TLC

CONSTANTS w, c,              \* the worker, a CLI process
          p1, p2, i1,        \* pull requests, an issue
          s1, s2, s3,        \* commits of the base branch
          h1, h2, h3,        \* heads of pull requests
          use, use2, src, src2, broken, empty, text,  \* contents
          t1, t2             \* comment texts

AppDir == <<"src", "app">>
InitFile == Package(AppDir)
OtherInit == Package(<<"lib", "app">>)
Main == Path(<<>>, "main", "py")
Core == Path(AppDir, "core", "py")
CorePackage == Package(<<"src", "app", "core">>)
Page == Path(<<"web">>, "page", "ts")
Util == Path(<<"web", "util">>, "index", "tsx")
Notes == Path(<<>>, "NOTES", "md")

MCFile == {InitFile, OtherInit, Main, Core, CorePackage, Page, Util, Notes}
MCFileOrder == <<OtherInit, Main, Notes, InitFile, Core, CorePackage, Page, Util>>
MCPathOrder == <<OtherInit, Main, InitFile, Core, CorePackage, Page, Util>>
MCIndexable == MCFile \ {Notes}
MCContent == {use, use2, src, src2, broken, empty, text}

\* Every kind of statement, with and without a target; only Page, a TS file,
\* resolves those of `text'.
MCImports ==
  [x \in MCContent |->
     CASE x = use -> <<Absolute(<<"app", "core">>), Absolute(<<"app">>),
                       Absolute(<<"os">>), Relative(1, <<"main">>)>>
       [] x = use2 -> <<Absolute(<<"app", "core">>)>>
       [] x = src -> <<Relative(1, <<>>), Relative(2, <<"app">>), Relative(4, <<"main">>)>>
       [] x = text -> <<Specifier(0, <<"util">>, ""), Specifier(1, <<"main">>, "py"), Bare>>
       [] OTHER -> <<>>]

MCLines ==
  [x \in MCContent |-> CASE x = use -> 4 [] x = use2 -> 6 [] x = src -> 5
                         [] x = src2 -> 3 [] x = broken -> 6 [] x = empty -> 0
                         [] OTHER -> 4]
MCParses == MCContent \ {broken}

Span(a, b) == [from |-> a, to |-> b]
MCSymbols ==
  [x \in MCContent |-> CASE x \in {use, use2} -> {Span(2, 3), Span(4, 4)}
                         [] x = src -> {Span(1, 2), Span(3, 5)}
                         [] OTHER -> {}]

Tree(main, core, package, util) ==
  [f \in MCFile |-> CASE f = InitFile -> empty
                      [] f = OtherInit -> broken
                      [] f = Main -> main [] f = Core -> core
                      [] f = CorePackage -> package
                      [] f = Page -> text [] f = Util -> util
                      [] f = Notes -> text]

\* s1 -> s2 changes Main and Core; s2 -> s3 makes Core a package and removes
\* Util.
MCTree ==
  [s \in {s1, s2, s3} |-> CASE s = s1 -> Tree(use, src, None, empty)
                            [] s = s2 -> Tree(use2, src2, None, empty)
                            [] s = s3 -> Tree(use2, None, src, None)]

\* At s1 two files import Core, and Core imports InitFile in two statements.
MCTreeTwice == [MCTree EXCEPT ![s1][InitFile] = use2]

MCBaseOf == [h \in {h1, h2, h3} |-> IF h = h3 THEN s2 ELSE s1]
\* h1 changes two files, as many as fit on a page; h2 changes four,
\* Notes without a patch.
MCHeadTree ==
  [h \in {h1, h2, h3} |->
     CASE h = h1 -> Tree(use2, src2, None, empty)
       [] h = h2 -> [Tree(use2, None, None, None) EXCEPT ![Notes] = src]
       [] h = h3 -> Tree(use2, broken, None, empty)]

R(start, count, oldStart, oldCount) ==
  [start |-> start, count |-> count, oldStart |-> oldStart, oldCount |-> oldCount]
\* use -> use2 inserts two lines after line 3; src -> src2 drops two lines at
\* the end; a binary or oversized file has no patch.
MCPatch ==
  [d \in (MCContent \cup {None}) \X (MCContent \cup {None}) |->
     CASE d = <<use, use2>> -> <<R(3, 4, 3, 2)>>
       [] d = <<src, src2>> -> <<R(3, 1, 3, 3)>>
       [] d = <<src, None>> -> <<R(0, 0, 1, 5)>>
       [] d = <<src2, broken>> -> <<R(1, 2, 1, 1), R(4, 3, 3, 1)>>
       [] OTHER -> <<>>]
MCAdded ==
  [d \in (MCContent \cup {None}) \X (MCContent \cup {None}) |->
     CASE d = <<use, use2>> -> 2
       [] d = <<src2, broken>> -> 3
       [] d = <<text, src>> -> 4
       [] OTHER -> 0]

X(file, line, syntax, banned) ==
  [file |-> file, line |-> line, syntax |-> syntax, banned |-> banned]
MCReplies ==
  {<<>>,
   <<X(Main, 7, FALSE, FALSE), X(Main, 6, FALSE, FALSE), X(Page, 4, FALSE, FALSE),
     X(OtherInit, 6, TRUE, FALSE)>>,
   <<X(Core, 2, TRUE, FALSE), X(Core, 1, FALSE, TRUE), X(Notes, 1, FALSE, FALSE),
     X(Core, 0, FALSE, FALSE), X(Main, 1, TRUE, FALSE)>>}
MCPicks == {<<>>, <<1, 1, 0, 7>>, <<9>>}
M(cites, confidence) == [cites |-> cites, confidence |-> confidence]
MCGroupings == {<<>>, <<M(<<0, 5>>, 90), M(<<7>>, 10)>>}

B(push, index, move, open, cli, fault) ==
  [push |-> push, index |-> index, move |-> move, open |-> open, cli |-> cli,
   fault |-> fault]
MCBudgets ==
  {B(2, 3, 0, 0, 0, 0),   \* the index alone
   B(0, 1, 0, 1, 0, 2),   \* onboarding
   B(0, 1, 2, 0, 0, 1),   \* heads and deliveries move under a review
   B(1, 2, 1, 0, 0, 0),   \* the index moves under a review
   B(0, 1, 1, 0, 1, 0)}   \* a CLI review beside the worker's

IndexOnly == {B(0, 1, 0, 0, 0, 0)}
TwoHeads == {B(0, 1, 2, 0, 0, 0)}   \* and nothing goes wrong

\* Pull requests and texts are interchangeable.
Alike == Permutations(PR) \cup Permutations(Texts)
=============================================================================
