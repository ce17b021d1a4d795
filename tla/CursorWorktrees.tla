---------------------------- MODULE CursorWorktrees ----------------------------
(***************************************************************************)
(* Branches, worktrees and pull requests of the Slack write jobs on one    *)
(* checkout: how _process_job picks the branch of a pass (an adopted pull  *)
(* request, the thread's earlier work, or a fresh branch), the worktree    *)
(* git makes for it, and what a retry, a failure or a restart leaves       *)
(* behind for the next job of the thread.                                  *)
(*                                                                         *)
(* A pull request is named by its head branch, and the fresh branch of a   *)
(* job (branch_name ends in the job id) by the job.  Jobs queued in mode    *)
(* write for a repository take its lock and run one at a time              *)
(* (CursorJobs!RepoExclusive).  Two kinds of job write without the lock:   *)
(* those with no repository in their row, and those queued in mode read    *)
(* whose thread names a pull request and asks for a write (CursorJobs'     *)
(* WriteSerialized shows how).  Reviews and comments write nothing.        *)
(*                                                                         *)
(* Operators marked "mutant" are mistakes the code could have made.  No    *)
(* action uses them; put in place of the operator they precede they show   *)
(* that a property can fail.                                               *)
(***************************************************************************)
EXTENDS Naturals, FiniteSets

CONSTANTS NumJobs,      \* bound on the jobs of a behaviour
          Keys,         \* pr_key: repository, thread and user
          NoRepo,       \* those without a repository
          Foreign,      \* branches of the pull requests people opened
          Cloned,       \* those of them that are local branches of the checkout
          None,         \* no branch, no pull request, no job
          MaxRetries,   \* silent retries of a job (three kinds, each once)
          MaxRestarts   \* bound on the restarts of a behaviour

Jobs   == 1 .. NumJobs
Branch == Jobs \cup Foreign

ASSUME ConstantsAssumption ==
  /\ NumJobs \in Nat /\ MaxRetries \in Nat /\ MaxRestarts \in Nat
  /\ NoRepo \subseteq Keys
  /\ Foreign \cap Jobs = {} /\ Cloned \subseteq Foreign
  /\ None \notin Branch \cup Keys

VARIABLES
  queued,    \* how many jobs have been queued: rows keep this order
  key,       \* pr_key of the row
  mode,      \* the row's mode, fixed when the job is queued
  target,    \* the pull request the ask names
  status,    \* the row's status: "failed" stands for needs_help too,
             \* "forgotten" for a row that a torn status.json lost
  branch,    \* the row's branch
  prNo,      \* the row's pr_url and pr_number
  older,     \* updated_at: the rows updated before each row
  pc,        \* the step of _process_job the job's task is at
  pick,      \* the pass's branch and pr_number
  retries,   \* silent retries of the task so far
  local,     \* local branches of the checkout
  tree,      \* the branch checked out in the job's worktree directory
  prs,       \* pull requests on GitHub
  sawDead,   \* history: pull requests the task found merged or closed
  restarts   \* history: restarts so far

rows  == <<queued, key, mode, target, status, branch, prNo, older>>
task  == <<pc, pick, retries, sawDead>>
repo  == <<local, tree, prs>>
vars  == <<queued, key, mode, target, status, branch, prNo, older, pc, pick,
           retries, local, tree, prs, sawDead, restarts>>

(* A pass is blind when the state of the pull request it goes on with could *)
(* not be looked up, and is dead.                                           *)
NoPick == [branch |-> None, pr |-> None, blind |-> FALSE]

Init ==
  /\ queued = 0
  /\ key = [j \in Jobs |-> None]
  /\ mode = [j \in Jobs |-> None]
  /\ target = [j \in Jobs |-> None]
  /\ status = [j \in Jobs |-> "absent"]
  /\ branch = [j \in Jobs |-> None]
  /\ prNo = [j \in Jobs |-> None]
  /\ older = [j \in Jobs |-> {}]
  /\ pc = [j \in Jobs |-> "idle"]
  /\ pick = [j \in Jobs |-> NoPick]
  /\ retries = [j \in Jobs |-> 0]
  /\ local = Cloned
  /\ tree = [j \in Jobs |-> None]
  /\ prs = [b \in Branch |-> IF b \in Foreign THEN "open" ELSE "none"]
  /\ sawDead = [j \in Jobs |-> {}]
  /\ restarts = 0

-----------------------------------------------------------------------------
(* The rows.  A write stamps its rows, so they become the latest; where it  *)
(* writes several it goes through them in the order they were queued.       *)
Rows == 1 .. queued

StampAgain(S) ==                                              \* mutant
  older' = [j \in Jobs |-> IF j \in S THEN (Rows \ S) \cup {i \in S : i < j}
                                       ELSE older[j]]
Stamp(S) ==
  older' = [j \in Jobs |-> IF j \in S THEN (Rows \ S) \cup {i \in S : i < j}
                                       ELSE older[j] \ S]
Touch(j) == Stamp({j})
SetStatus(j, s) == status' = [status EXCEPT ![j] = s] /\ Touch(j)
Goto(j, l) == pc' = [pc EXCEPT ![j] = l]

(* The pull requests a message can name.                                    *)
Existing == {b \in Branch : prs[b] # "none"}

Modes == {"write", "read"}

NewRow(k, m, t, s) ==
  /\ queued < NumJobs
  /\ queued' = queued + 1
  /\ key' = [key EXCEPT ![queued'] = k]
  /\ mode' = [mode EXCEPT ![queued'] = m]
  /\ target' = [target EXCEPT ![queued'] = t]
  /\ SetStatus(queued', s)

(* A job that writes.  In mode read it does so for the pull request that    *)
(* the messages of its thread name.                                         *)
Enqueue(k, m, t) ==
  /\ m = "read" => t # None
  /\ NewRow(k, m, t, "queued")
  /\ UNCHANGED <<branch, prNo, task, repo, restarts>>

(* A review or a comment on a pull request: a job that records the pull     *)
(* request and no branch.                                                   *)
Mention(k, t) ==
  /\ NewRow(k, "read", t, "completed")
  /\ prNo' = [prNo EXCEPT ![queued'] = t]
  /\ UNCHANGED <<branch, task, repo, restarts>>

(* add_thread_participants stamps the rows of the thread that do not name   *)
(* the speaker yet.  A row gets everyone who speaks after it was queued, so *)
(* of one key these are the rows from some row on.                          *)
NewParticipant(k, first) ==
  /\ Stamp({j \in Jobs : key[j] = k /\ first <= j})
  /\ UNCHANGED <<queued, key, mode, target, status, branch, prNo, task, repo,
                 restarts>>

-----------------------------------------------------------------------------
(* A job's task.  Claims, the semaphore and the lock are first in, first    *)
(* out, so jobs that take the lock begin in the order they were queued.     *)
Locked(j) == mode[j] = "write" /\ key[j] \notin NoRepo

Begin(j) ==
  /\ status[j] = "queued"
  /\ Locked(j) => \A k \in Jobs : Locked(k) =>
                    pc[k] = "idle" /\ (k < j => status[k] # "queued")
  /\ SetStatus(j, "running") /\ Goto(j, "resolve")
  /\ UNCHANGED <<queued, key, mode, target, branch, prNo, pick, retries, repo,
                 sawDead, restarts>>

(* The task ends, and its lock and locals with it.                          *)
End(j) == /\ Goto(j, "idle")
          /\ pick' = [pick EXCEPT ![j] = NoPick]
          /\ retries' = [retries EXCEPT ![j] = 0]
          /\ sawDead' = [sawDead EXCEPT ![j] = {}]
Fail(j) == SetStatus(j, "failed") /\ End(j)

BoundAnyUser(k) == {j \in Jobs : branch[j] # None \/ prNo[j] # None}   \* mutant
Bound(k) ==
  {j \in Jobs : key[j] = k /\ (branch[j] # None \/ prNo[j] # None)}

(* find_pr_binding: the latest row of the key with a branch or a pull       *)
(* request, if there is one, the job's own row included.                    *)
Binding(k) == {j \in Bound(k) : Bound(k) \ {j} \subseteq older[j]}

Pick(j, b, p, unseen) ==
  pick' = [pick EXCEPT ![j] = [branch |-> b, pr |-> p, blind |-> unseen]]
Use(j, b, p, unseen) == Pick(j, b, p, unseen) /\ UNCHANGED sawDead
KeepDead(j, p) ==                                             \* mutant
  Pick(j, p, None, FALSE) /\ sawDead' = [sawDead EXCEPT ![j] = @ \cup {p}]
KeepNumber(j, p) ==                                           \* mutant
  Pick(j, j, p, FALSE) /\ sawDead' = [sawDead EXCEPT ![j] = @ \cup {p}]

(* A merged or closed pull request is not continued: a fresh branch, of the *)
(* same name in every pass.                                                 *)
Replace(j, p) ==
  Pick(j, j, None, FALSE) /\ sawDead' = [sawDead EXCEPT ![j] = @ \cup {p}]
Adopt(j, p) == IF prs[p] = "open" THEN Use(j, p, p, FALSE) ELSE Replace(j, p)

(* The thread's branch, unless its pull request is dead; when the lookup    *)
(* fails it is taken to be open.                                            *)
Continue(j, k) ==
  LET dead == prNo[k] # None /\ prs[prNo[k]] = "dead"
  IN  IF branch[k] = None THEN Use(j, j, None, FALSE)
      ELSE \/ Use(j, branch[k], prNo[k], dead)
           \/ dead /\ Replace(j, prNo[k])

Resolve(j) ==
  /\ pc[j] = "resolve"
  /\ \/ target[j] # None /\ Adopt(j, target[j])
     \/ target[j] = None /\ Bound(key[j]) = {} /\ Use(j, j, None, FALSE)
     \/ target[j] = None /\ \E k \in Binding(key[j]) : Continue(j, k)
  /\ Goto(j, "worktree")
  /\ UNCHANGED <<rows, retries, repo, restarts>>

CheckedOut(b) == \E k \in Jobs : tree[k] = b

(* ensure_worktree: the job's directory is reused whatever it holds; git    *)
(* checks out a local branch that no worktree has, or creates a branch from *)
(* the starting ref, which must be known locally: an adopted pull request   *)
(* passes its own branch.                                                   *)
MakeWorktree(j) ==
  /\ pc[j] = "worktree"
  /\ \/ tree[j] # None /\ UNCHANGED <<tree, local>>
     \/ /\ tree[j] = None
        /\ LET b == pick[j].branch
           IN  /\ \/ b \in local /\ ~CheckedOut(b)
                  \/ b \notin local /\ b = j
               /\ tree' = [tree EXCEPT ![j] = b]
               /\ local' = local \cup {b}
  /\ Goto(j, "save")
  /\ UNCHANGED <<rows, pick, retries, prs, sawDead, restarts>>

NoWorktree(j) ==
  /\ pc[j] = "worktree" /\ tree[j] = None
  /\ LET b == pick[j].branch
     IN  CheckedOut(b) \/ (b \notin local /\ b # j)
  /\ Fail(j)
  /\ UNCHANGED <<queued, key, mode, target, branch, prNo, repo, restarts>>

Save(j) ==
  /\ pc[j] = "save"
  /\ branch' = [branch EXCEPT ![j] = pick[j].branch]
  /\ prNo' = [prNo EXCEPT ![j] = pick[j].pr]
  /\ SetStatus(j, "running") /\ Goto(j, "agent")
  /\ UNCHANGED <<queued, key, mode, target, pick, retries, repo, sawDead, restarts>>

(* Only a job queued in mode write opens a pull request.                    *)
AgentDone(j) ==
  /\ pc[j] = "agent"
  /\ Goto(j, IF mode[j] = "write" /\ pick[j].pr = None THEN "open" ELSE "ci")
  /\ UNCHANGED <<rows, pick, retries, repo, sawDead, restarts>>

(* push_branch and create_pr on the pass's branch; a failure is logged.  A  *)
(* branch whose pull request is dead gets a new one.                        *)
OpenPr(j) ==
  LET b == pick[j].branch
  IN  /\ pc[j] = "open"
      /\ \/ /\ b \in local /\ prs[b] # "open"
            /\ prs' = [prs EXCEPT ![b] = "open"]
            /\ pick' = [pick EXCEPT ![j].pr = b]
            /\ prNo' = [prNo EXCEPT ![j] = b]
            /\ sawDead' = [i \in Jobs |-> sawDead[i] \ {b}]
            /\ Touch(j)
         \/ UNCHANGED <<prs, pick, prNo, sawDead, older>>
      /\ Goto(j, "ci")
      /\ UNCHANGED <<queued, key, mode, target, status, branch, retries, local,
                     tree, restarts>>

FinishKeepsTree(j) ==                                         \* mutant
  /\ pc[j] = "ci"
  /\ SetStatus(j, "completed") /\ End(j)
  /\ UNCHANGED <<queued, key, mode, target, branch, prNo, repo, restarts>>

(* The CI loop, whose fixes push to the pass's branch, ends: the job is     *)
(* completed, or given up as needs_help.                                    *)
Finish(j) ==
  /\ pc[j] = "ci"
  /\ \/ /\ SetStatus(j, "completed") /\ Goto(j, "clean")
        /\ UNCHANGED <<pick, retries, sawDead>>
     \/ Fail(j)
  /\ UNCHANGED <<queued, key, mode, target, branch, prNo, repo, restarts>>

(* remove_worktree, on success only.                                        *)
Clean(j) ==
  /\ pc[j] = "clean"
  /\ tree' = [tree EXCEPT ![j] = None]
  /\ End(j)
  /\ UNCHANGED <<rows, local, prs, restarts>>

(* An error of the pass (a lookup, git, the agent, the CI loop): the job    *)
(* fails, or is silently processed again from the start.                    *)
Raise(j) ==
  /\ pc[j] \in {"resolve", "worktree", "agent", "ci"}
  /\ \/ Fail(j)
     \/ /\ retries[j] < MaxRetries
        /\ retries' = [retries EXCEPT ![j] = @ + 1]
        /\ SetStatus(j, "running") /\ Goto(j, "resolve")
        /\ UNCHANGED <<pick, sawDead>>
  /\ UNCHANGED <<queued, key, mode, target, branch, prNo, repo, restarts>>

-----------------------------------------------------------------------------
(* People merge or close a pull request at any time.                        *)
Close(p) ==
  /\ prs[p] = "open"
  /\ prs' = [prs EXCEPT ![p] = "dead"]
  /\ UNCHANGED <<rows, task, local, tree, restarts>>

(* A crash and the next boot.  The first n rows are those claimed by then.  *)
(* interrupt_stale_active_jobs stamps the rows of the jobs under way, and   *)
(* cleanup_orphan_worktrees removes only empty directories.  A crash in the *)
(* middle of a write of status.json loses every row; a job not yet claimed  *)
(* has its line in the queue, and starts from that.                         *)
Restart ==
  \E n \in 0 .. queued, torn \in BOOLEAN :
    LET waiting == {j \in Rows : status[j] = "queued" /\ n < j}
        stale   == {j \in Rows \ waiting : status[j] \in {"queued", "running"}}
    IN  /\ restarts < MaxRestarts /\ restarts' = restarts + 1
        /\ IF torn
           THEN /\ status' = [j \in Jobs |-> IF j \in Rows \ waiting
                                             THEN "forgotten" ELSE status[j]]
                /\ branch' = [j \in Jobs |-> None]
                /\ prNo' = [j \in Jobs |-> None]
                /\ UNCHANGED older
           ELSE /\ status' = [j \in Jobs |-> IF j \in stale THEN "interrupted"
                                             ELSE status[j]]
                /\ Stamp(stale)
                /\ UNCHANGED <<branch, prNo>>
        /\ pc' = [j \in Jobs |-> "idle"]
        /\ pick' = [j \in Jobs |-> NoPick]
        /\ retries' = [j \in Jobs |-> 0]
        /\ sawDead' = [j \in Jobs |-> {}]
        /\ UNCHANGED <<queued, key, mode, target, repo>>

Ask == \E k \in Keys :
         \/ \E m \in Modes, t \in Existing \cup {None} : Enqueue(k, m, t)
         \/ \E t \in Existing : Mention(k, t)
Task(j) == \/ Begin(j) \/ Resolve(j) \/ MakeWorktree(j) \/ NoWorktree(j)
           \/ Save(j) \/ AgentDone(j) \/ OpenPr(j) \/ Finish(j) \/ Clean(j)
           \/ Raise(j)

Next ==
  \/ Ask
  \/ \E k \in Keys, first \in Jobs : NewParticipant(k, first)
  \/ \E j \in Jobs : Task(j)
  \/ \E p \in Branch : Close(p)
  \/ Restart

Spec == Init /\ [][Next]_vars

-----------------------------------------------------------------------------
Status == {"absent", "queued", "running", "completed", "failed", "interrupted",
           "forgotten"}
MaybeBranch == Branch \cup {None}
PC == {"idle", "resolve", "worktree", "save", "agent", "open", "ci", "clean"}

(* Each variable has its type, and no two rows the same place in time.      *)
TypeOK ==
  /\ queued \in 0 .. NumJobs
  /\ key \in [Jobs -> Keys \cup {None}]
  /\ mode \in [Jobs -> Modes \cup {None}]
  /\ target \in [Jobs -> MaybeBranch]
  /\ status \in [Jobs -> Status]
  /\ branch \in [Jobs -> MaybeBranch]
  /\ prNo \in [Jobs -> MaybeBranch]
  /\ older \in [Jobs -> SUBSET Rows]
  /\ \A i, j \in Rows : i # j => (i \in older[j] <=> j \notin older[i])
  /\ pc \in [Jobs -> PC]
  /\ pick \in [Jobs -> [branch : MaybeBranch, pr : MaybeBranch, blind : BOOLEAN]]
  /\ retries \in [Jobs -> 0 .. MaxRetries]
  /\ local \subseteq Branch
  /\ tree \in [Jobs -> MaybeBranch]
  /\ prs \in [Branch -> {"none", "open", "dead"}]
  /\ sawDead \in [Jobs -> SUBSET Branch]
  /\ restarts \in 0 .. MaxRestarts

(* pr_key keeps the work of two threads, or of two users, apart: a worktree *)
(* holds a branch made for a job of the same key, or one that an ask of the *)
(* same key named, whatever was bound, retried or left over before.         *)
BranchIsolation ==
  \A j \in Jobs : tree[j] # None
     => \E i \in Jobs : key[i] = key[j] /\ tree[j] \in {i, target[i]}

(* A row's pull request is the one of the row's branch, so a follow-up that *)
(* binds to the row pushes to the pull request it reports on, also after a  *)
(* second pass that replaced a dead pull request by a fresh branch.         *)
RowPrMatches ==
  \A j \in Jobs : branch[j] # None /\ prNo[j] # None => prNo[j] = branch[j]

(* A job that found a pull request merged or closed, of its ask or of the   *)
(* work its thread would go on with, does not pick that branch again, in    *)
(* this pass or in one that follows an error anywhere, the CI loop          *)
(* included.  Three cases are left out.  The job's own branch: its name is  *)
(* fixed, so a job that finds its own pull request closed picks the branch  *)
(* again (FreshBranch).  A pass blind to the pull request's state.  And a   *)
(* key for which jobs without the lock wrote: their rows may be the latest  *)
(* when the next pass binds.                                                *)
OnlyLocked(k) ==
  /\ k \notin NoRepo
  /\ \A i \in Jobs : key[i] = k /\ branch[i] # None => Locked(i)
Picking == {"worktree", "save", "agent", "open"}
DeadNotPicked ==
  \A j \in Jobs :
    /\ pc[j] \in Picking /\ ~pick[j].blind
    /\ target[j] = None => OnlyLocked(key[j])
    => pick[j].branch \notin sawDead[j] \ {j}

(* config/skills/slack-routing-policy/SKILL.md asks to "never continue a    *)
(* merged or closed PR": a pass that found a pull request dead does not go  *)
(* on with its branch, the job's own included.                              *)
FreshBranch ==
  \A j \in Jobs : pc[j] \in Picking /\ ~pick[j].blind
                   => pick[j].branch \notin sawDead[j]

(* A job that completed leaves no worktree behind, unless a restart came    *)
(* before its clean-up; a worktree left behind blocks its branch for ever.  *)
CompletedLeavesNothing ==
  \A j \in Jobs : status[j] = "completed" /\ pc[j] = "idle" /\ tree[j] # None
                   => restarts > 0

(* tests/test_cursor_architecture.py asks for a "fresh worktree from base,  *)
(* not the dead PR head": the agent is not run on a branch whose pull       *)
(* request the job found dead.                                              *)
NotOnDeadBranch ==
  \A j \in Jobs : pc[j] = "agent" => tree[j] \notin sawDead[j]

(* msg_interrupted tells the thread to "ask again": the next job of the     *)
(* thread is not refused its worktree by the one the interrupted job left.  *)
AskAgain ==
  \A j, k \in Jobs :
     /\ pc[j] = "worktree" /\ tree[j] = None
     /\ status[k] = "interrupted" /\ key[k] = key[j]
     => tree[k] # pick[j].branch
=============================================================================
