------------------------------ MODULE MCTestGen ------------------------------
(* Two modules whose paths have the same slug, four commits in which they   *)
(* come, go and come again, and the tests that people and the LLM write.    *)
EXTENDS TestGen, TLC

CONSTANTS w, c,              \* the worker, a CLI process
          s1, s2, s3, s4,    \* commits of the default branch
          api, big, blank,   \* contents of modules
          guide, aside,      \* tests somebody wrote
          t1, t2, t3         \* what the LLM writes; t2 does not collect

AppDir == <<"src", "app">>
Core == Path(AppDir, "core", "py")
AppCore == Path(<<"src">>, "app_core", "py")
CoreTest == Path(<<"tests">>, "test_core", "py")
AppCoreTest == Path(<<"tests">>, "test_app_core", "py")
InitFile == Package(AppDir)
Smoke == Path(<<"src">>, "test_smoke", "py")

MCFile == {Core, AppCore, CoreTest, AppCoreTest, InitFile, Smoke}
MCPathOrder == <<InitFile, Core, AppCore, Smoke, AppCoreTest, CoreTest>>
MCTestStems ==
  {"test_" \o f.stem : f \in MCFile} \cup {f.stem \o "_test" : f \in MCFile}
    \cup {f.stem : f \in {CoreTest, AppCoreTest, Smoke}}
MCContent == {api, big, blank, guide, aside, t1, t2, t3}
\* src/app/core.py and src/app_core.py
MCSlug == [f \in MCFile |-> IF f \in {Core, AppCore} THEN "src-app-core" ELSE f.stem]

\* src/test_smoke.py names app.core, whose package root is src.
MCMentions ==
  [x \in MCContent |-> IF x = guide THEN {<<"app", "core">>} ELSE {}]

F(lines, functions) ==
  [lines |-> lines, functions |-> functions, classes |-> {}, mainGuard |-> FALSE]
MCFacts ==
  [x \in MCContent |-> IF x = api THEN F(3, {"load", "save"})
                        ELSE IF x = big THEN F(9, {"load"})
                        ELSE IF x = guide THEN F(2, {"test_load"}) ELSE F(1, {})]

Tree(core, appCore, appCoreTest, smoke) ==
  [f \in MCFile |-> CASE f = Core -> core [] f = AppCore -> appCore
                      [] f = AppCoreTest -> appCoreTest [] f = Smoke -> smoke
                      [] f = InitFile -> blank
                      [] OTHER -> None]

\* Nothing; both modules; one of them too long; both, each with a test.
MCTree ==
  [s \in {s1, s2, s3, s4} |->
     CASE s = s1 -> Tree(None, None, None, None)
       [] s = s2 -> Tree(api, api, None, None)
       [] s = s3 -> Tree(api, big, None, None)
       [] s = s4 -> Tree(api, api, aside, guide)]
MCCollects == {<<t1, s2>>, <<t1, s3>>, <<t1, s4>>, <<t3, s2>>}

B(push, cli, fault, tick) ==
  [push |-> push, cli |-> cli, fault |-> fault, tick |-> tick]
MCBudgets == {B(3, 0, 0, 0), B(1, 0, 2, 0), B(2, 0, 1, 0), B(1, 1, 0, 0),
              B(1, 0, 0, 3), B(0, 1, 0, 3)}
=============================================================================
