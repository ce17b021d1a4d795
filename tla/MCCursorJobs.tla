----------------------------- MODULE MCCursorJobs -----------------------------
(* Small instances of CursorJobs.                                           *)
EXTENDS CursorJobs, TLC

Ask(mode, repo, local, adopts, intent, comment, gated, tests) ==
  [mode |-> mode, repo |-> repo, local |-> local, adopts |-> adopts,
   intent |-> intent, comment |-> comment, gated |-> gated, tests |-> tests]

CONSTANT r1

(* The write job of a pinned thread with required checks and a test run.    *)
GatedWrite == Ask("write", r1, TRUE, FALSE, TRUE, FALSE, TRUE, TRUE)
(* A write job for a repository Tempa can only reach through the cloud.     *)
CloudWrite == Ask("write", r1, FALSE, FALSE, TRUE, FALSE, FALSE, FALSE)
(* "please review this PR" in a thread that does not speak of fixing.       *)
Review     == Ask("read", r1, TRUE, TRUE, FALSE, FALSE, TRUE, FALSE)
(* The same in a thread whose earlier messages do.                          *)
ReviewInFixThread == Ask("read", r1, TRUE, TRUE, TRUE, FALSE, TRUE, FALSE)
CommentOnPr == Ask("read", r1, FALSE, TRUE, FALSE, TRUE, FALSE, FALSE)

MCRepos == {r1}
MCAsks  == {GatedWrite, CloudWrite, Review, CommentOnPr}
MCMixedThread == {GatedWrite, ReviewInFixThread}
(* The gated job without the test run, and a plain question.                *)
GatedPush == Ask("write", r1, TRUE, FALSE, TRUE, FALSE, TRUE, FALSE)
Question  == Ask("read", NoRepo, TRUE, FALSE, FALSE, FALSE, FALSE, FALSE)
MCPoolAsks == {GatedPush, Question}

JobSymmetry == Permutations(Jobs)
=============================================================================
