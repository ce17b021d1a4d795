------------------------------ MODULE CursorJobs ------------------------------
(***************************************************************************)
(* The Slack coding jobs of Tempa: the two-file job store                  *)
(* (channels/slack/cursor_jobs.py) and the worker that claims, guards and  *)
(* runs the jobs (channels/slack/cursor_worker.py), with the daemon's      *)
(* start, graceful stop and crash.                                         *)
(*                                                                         *)
(* status.json is "status" (with the fields a property needs), queue.jsonl *)
(* is "queue".  A store operation writes the two files one after the other *)
(* under one lock; "io" is the operation whose second write is still due,  *)
(* so that only a crash can come between the two writes, or into the       *)
(* middle of one: both files are written in place.  A claimed job is run   *)
(* by an asyncio task; pc is the await the task is suspended at.           *)
(*                                                                         *)
(* Operators marked "mutant" are mistakes the code could have made.  No    *)
(* action uses them; put in place of the operator they precede they show   *)
(* that a property can fail.                                               *)
(***************************************************************************)
EXTENDS Naturals, Sequences, FiniteSets

CONSTANTS Jobs,         \* identities of the jobs (uuid4 of enqueue_cursor_job)
          Repos,        \* GitHub repositories
          Asks,         \* the kinds of ask that may be queued
          MaxParallel,  \* tempa_cursor_max_parallel
          MaxFix,       \* tempa_cursor_ci_fix_max
          Faults,       \* the kinds of exception _process_job may meet
          MaxRestarts   \* bound on the crashes and graceful stops of a behaviour

NoRepo == "no repo"     \* a pinned thread may name only a mounted checkout

(* What the worker reads off a queued row: the mode fixed by enqueue from   *)
(* the message, and the facts _process_job derives from the ask text, which *)
(* also holds the thread's earlier messages.                                *)
AskType ==
  [mode : {"read", "write"}, repo : Repos \cup {NoRepo},
   local : BOOLEAN,     \* local_cwd is set: a mounted checkout or a mirror
   adopts : BOOLEAN,    \* the ask text holds a PR URL
   intent : BOOLEAN,    \* is_write_intent(ask text)
   comment : BOOLEAN,   \* is_pr_comment_intent(ask text)
   gated : BOOLEAN,     \* required_checks is not empty
   tests : BOOLEAN]     \* wants_tests(ask text)

ASSUME ConstantsAssumption ==
  /\ IsFiniteSet(Jobs)
  /\ MaxParallel \in Nat \ {0}
  /\ MaxFix \in Nat \ {0}
  /\ MaxRestarts \in Nat
  /\ Faults \subseteq {"git", "timeout", "branch", "other"}
  /\ NoRepo \notin Repos

(* The ask text contains the message, so a write message makes the text a   *)
(* write ask unless the text also asks for a PR comment; and enqueue        *)
(* refuses a write ask that names neither a checkout nor a repository.      *)
ASSUME AsksAssumption ==
  /\ Asks \subseteq AskType
  /\ \A a \in Asks : /\ a.comment => ~a.intent
                     /\ a.mode = "write" => a.intent \/ a.comment
                     /\ a.mode = "write" => a.local \/ a.repo # NoRepo

InFlight == {"running", "waiting_ci", "fixing_ci", "running_tests"}
Ended    == {"completed", "failed", "needs_help", "interrupted"}
(* The jobs without a row: not queued yet, or lost with a torn status.json, *)
(* when they waited for a worker ("unlisted") or later ("forgotten").       *)
NoRow    == {"absent", "unlisted", "forgotten"}
Waiting  == {"queued", "unlisted"}
Status   == {"queued"} \cup NoRow \cup InFlight \cup Ended

NoTask == "none"
PC == {NoTask, "sem", "lock", "start", "agent", "tests", "retest", "open_pr",
       "poll", "fix", "notify", "cleanup"}
WorkingAndCleanup ==                                          \* mutant
  {"start", "agent", "tests", "retest", "poll", "fix", "cleanup"}
(* The awaits that may raise: posts, push_branch, create_pr and             *)
(* remove_worktree swallow their errors.                                    *)
Working == {"start", "agent", "tests", "retest", "poll", "fix"}
Retries == {"git", "timeout", "branch"}     \* retried once, silently
NoAsk   == [mode |-> "read", repo |-> NoRepo, local |-> FALSE, adopts |-> FALSE,
            intent |-> FALSE, comment |-> FALSE, gated |-> FALSE, tests |-> FALSE]
NoIo    == [op |-> "none", jobs |-> {}]

VARIABLES
  daemon,   \* the process: down, starting (Slack is up), running, stopping
  ask,      \* the queued row's facts, fixed when it is queued
  status,   \* status.json: the "status" field per job
  queue,    \* queue.jsonl: the job ids, first line first
  cut,      \* its end: whole, half a line, or half a character
  io,       \* the store operation between its two file writes
  pc,       \* where each job's task is suspended
  route,    \* the branch of _process_job the job took
  pr,       \* pr_number is known to the task
  fixes,    \* fix_count of the current pass
  lastCi,   \* last_ci["status"] of the current pass
  retried,  \* the _..._retried flags the row carries
  fixRuns,  \* history: CI-fix agent runs over all passes
  told,     \* history: the kinds of outcome message sent for the job
  restarts  \* history: crashes and graceful stops so far

store == <<ask, status, queue, cut, io>>
task  == <<pc, route, pr, fixes, lastCi, retried, fixRuns>>
vars  == <<daemon, ask, status, queue, cut, io, pc, route, pr, fixes,
           lastCi, retried, fixRuns, told, restarts>>

Init ==
  /\ daemon = "down"
  /\ ask = [j \in Jobs |-> NoAsk]
  /\ status = [j \in Jobs |-> "absent"]
  /\ queue = <<>> /\ cut = "no"
  /\ io = NoIo
  /\ pc = [j \in Jobs |-> NoTask]
  /\ route = [j \in Jobs |-> "none"]
  /\ pr = [j \in Jobs |-> FALSE]
  /\ fixes = [j \in Jobs |-> 0]
  /\ lastCi = [j \in Jobs |-> "none"]
  /\ retried = [j \in Jobs |-> {}]
  /\ fixRuns = [j \in Jobs |-> 0]
  /\ told = [j \in Jobs |-> {}]
  /\ restarts = 0

-----------------------------------------------------------------------------
(* The store.                                                              *)

(* enqueue_cursor_job: first the status row ...                            *)
EnqueueWriteStatus(j, a) ==
  /\ daemon # "down" /\ io = NoIo
  /\ status[j] = "absent"
  /\ ask' = [ask EXCEPT ![j] = a]
  /\ status' = [status EXCEPT ![j] = "queued"]
  /\ io' = [op |-> "enqueue", jobs |-> {j}]
  /\ UNCHANGED <<daemon, queue, cut, task, told, restarts>>

(* ... then the queue line.  After half a line it is part of that one, and  *)
(* no JSON.                                                                *)
EnqueueAppendLine(j) ==
  /\ io = [op |-> "enqueue", jobs |-> {j}]
  /\ queue' = IF cut = "half" THEN queue ELSE Append(queue, j)
  /\ cut' = IF cut = "half" THEN "no" ELSE cut
  /\ io' = NoIo
  /\ UNCHANGED <<daemon, ask, status, task, told, restarts>>

(* The rows list_jobs shows the worker loop as occupying a slot.           *)
RunningRows == {j \in Jobs : status[j] = "running"}          \* mutant
Occupying == {j \in Jobs : status[j] \in InFlight}
Slots == IF Cardinality(Occupying) >= MaxParallel
         THEN 0 ELSE MaxParallel - Cardinality(Occupying)

(* Queue lines whose row is still queued, or whose job has no row: then    *)
(* the line stands for it.  A second line of one job is stale, its row is  *)
(* already marked running in the same pass.                                *)
Fresh(q) == {i \in DOMAIN q : /\ status[q[i]] \in {"queued"} \cup NoRow
                              /\ \A k \in 1 .. i - 1 : q[k] # q[i]}
FirstFresh(q, n) ==
  {i \in Fresh(q) : Cardinality({k \in Fresh(q) : k <= i}) <= n}
Claimed(q, n) == {q[i] : i \in FirstFresh(q, n)}
KeptNone(q, n) == <<>>                                        \* mutant
(* The lines up to the n-th claimed one are dropped, stale ones with them;  *)
(* all lines are when fewer than n are fresh.                               *)
Kept(q, n) ==
  LET dropped == {i \in DOMAIN q : Cardinality({k \in Fresh(q) : k < i}) < n}
  IN  SubSeq(q, Cardinality(dropped) + 1, Len(q))

(* Half a line is passed over like a stale one; a file that ends in half a *)
(* character cannot be read, and the loop raises.                          *)
MayClaim == /\ daemon = "running" /\ io = NoIo /\ Slots > 0
            /\ cut # "garbled" /\ (queue # <<>> \/ cut = "half")

(* claim_next_jobs(slots), called by _worker_loop: the queue file first.   *)
ClaimWriteQueue ==
  /\ MayClaim
  /\ queue' = Kept(queue, Slots) /\ cut' = "no"
  /\ io' = [op |-> "claim", jobs |-> Claimed(queue, Slots)]
  /\ UNCHANGED <<daemon, ask, status, task, told, restarts>>

(* ... then the rows, and the loop creates one task per claimed job.       *)
ClaimWriteStatus ==
  /\ io.op = "claim"
  /\ status' = [j \in Jobs |-> IF j \in io.jobs THEN "running" ELSE status[j]]
  /\ pc' = [j \in Jobs |-> IF j \in io.jobs THEN "sem" ELSE pc[j]]
  /\ io' = NoIo
  /\ UNCHANGED <<daemon, ask, queue, cut, route, pr, fixes, lastCi, retried,
                 fixRuns, told, restarts>>

(* update_job writes one row of one file.                                  *)
SetStatus(j, s) == io = NoIo /\ status' = [status EXCEPT ![j] = s]
Goto(j, l) == pc' = [pc EXCEPT ![j] = l]
FinishQuietly(j, s) == SetStatus(j, s) /\ Goto(j, "cleanup")   \* mutant
Finish(j, s) == SetStatus(j, s) /\ Goto(j, "notify")

-----------------------------------------------------------------------------
(* _process_job_guarded: the global semaphore, then the lock of the        *)
(* repository for a job queued in write mode.                              *)

NeedsLock(j) == ask[j].mode = "write" /\ ask[j].repo # NoRepo
HoldsSem(j)  == pc[j] \notin {NoTask, "sem"}
HoldsLock(j) == NeedsLock(j) /\ pc[j] \notin {NoTask, "sem", "lock"}
Executing(j) == pc[j] \notin {NoTask, "sem", "lock"}

AcquireSem(j) ==
  /\ pc[j] = "sem"
  /\ Cardinality({k \in Jobs : HoldsSem(k)}) < MaxParallel
  /\ Goto(j, IF NeedsLock(j) THEN "lock" ELSE "start")
  /\ UNCHANGED <<daemon, store, route, pr, fixes, lastCi, retried, fixRuns,
                 told, restarts>>

AcquireRepoLockInCi(j) ==                                     \* mutant
  /\ pc[j] = "lock"
  /\ \A k \in Jobs : HoldsLock(k) /\ pc[k] # "poll" => ask[k].repo # ask[j].repo
  /\ Goto(j, "start")
  /\ UNCHANGED <<daemon, store, route, pr, fixes, lastCi, retried, fixRuns,
                 told, restarts>>

AcquireRepoLock(j) ==
  /\ pc[j] = "lock"
  /\ \A k \in Jobs : HoldsLock(k) => ask[k].repo # ask[j].repo
  /\ Goto(j, "start")
  /\ UNCHANGED <<daemon, store, route, pr, fixes, lastCi, retried, fixRuns,
                 told, restarts>>

-----------------------------------------------------------------------------
(* _process_job up to its first agent run, one action per branch.          *)

WritePath(a) == a.local /\ (a.mode = "write" \/ (a.adopts /\ a.intent))
CloudPath(a) == ~a.local /\ a.mode = "write"

Begin(j, r, known) ==
  /\ route' = [route EXCEPT ![j] = r]
  /\ pr' = [pr EXCEPT ![j] = known]
  /\ fixes' = [fixes EXCEPT ![j] = 0]
  /\ lastCi' = [lastCi EXCEPT ![j] = "none"]
  /\ UNCHANGED <<daemon, ask, queue, cut, io, retried, fixRuns, told, restarts>>

(* "comment on github": a draft is needed unless an earlier review is      *)
(* posted as it is.                                                        *)
StartComment(j) ==
  /\ pc[j] = "start" /\ ask[j].comment
  /\ \/ SetStatus(j, "running") /\ Goto(j, "agent")
     \/ Finish(j, "completed")
  /\ Begin(j, "comment", TRUE)

(* A review of a pull request found merged or closed is answered at once.  *)
StartDeadPr(j) ==
  /\ pc[j] = "start" /\ ~ask[j].comment
  /\ ask[j].adopts /\ ~ask[j].intent
  /\ Finish(j, "completed")
  /\ Begin(j, "read", TRUE)

(* Mounted or mirrored checkout: the pull request is adopted, bound from   *)
(* the thread's earlier jobs, or not known yet.                            *)
StartWrite(j) ==
  /\ pc[j] = "start" /\ ~ask[j].comment /\ WritePath(ask[j])
  /\ SetStatus(j, "running") /\ Goto(j, "agent")
  /\ \E known \in BOOLEAN : Begin(j, "write", known)

StartCloud(j) ==
  /\ pc[j] = "start" /\ ~ask[j].comment /\ CloudPath(ask[j])
  /\ SetStatus(j, "running") /\ Goto(j, "agent")
  /\ Begin(j, "cloud", FALSE)

(* The rest reads; that includes an adopted pull request found dead when    *)
(* there is no checkout (one found open makes the pass raise).              *)
StartRead(j) ==
  /\ pc[j] = "start" /\ ~ask[j].comment
  /\ ~WritePath(ask[j]) /\ ~CloudPath(ask[j])
  /\ Goto(j, "agent")
  /\ UNCHANGED status
  /\ Begin(j, "read", ask[j].adopts)

-----------------------------------------------------------------------------
(* _process_job from the first agent run on.                               *)

Gate(j, known) == known /\ ask[j].gated

(* The CI loop is entered only with a pull request and required checks.    *)
EnterGate(j, known) ==
  IF Gate(j, known)
  THEN SetStatus(j, "waiting_ci") /\ Goto(j, "poll")
  ELSE Finish(j, "completed")

(* The agent's work is done: open a pull request if a write job has none.  *)
AfterWork(j) ==
  IF ask[j].mode = "write" /\ ~pr[j]
  THEN Goto(j, "open_pr") /\ UNCHANGED status
  ELSE EnterGate(j, pr[j])

AgentDone(j) ==
  /\ pc[j] = "agent"
  /\ IF route[j] # "write" THEN Finish(j, "completed")
     ELSE IF ask[j].tests
          THEN SetStatus(j, "running_tests") /\ Goto(j, "tests")
          ELSE AfterWork(j)
  /\ UNCHANGED <<daemon, ask, queue, cut, io, route, pr, fixes, lastCi, retried,
                 fixRuns, told, restarts>>

(* run_local_tests: a failing run is handed back to the agent once.        *)
TestsDone(j) ==
  /\ pc[j] = "tests"
  /\ \/ AfterWork(j)
     \/ Goto(j, "retest") /\ UNCHANGED status
  /\ UNCHANGED <<daemon, ask, queue, cut, io, route, pr, fixes, lastCi, retried,
                 fixRuns, told, restarts>>

RetestDone(j) ==
  /\ pc[j] = "retest"
  /\ AfterWork(j)
  /\ UNCHANGED <<daemon, ask, queue, cut, io, route, pr, fixes, lastCi, retried,
                 fixRuns, told, restarts>>

(* push_branch and create_pr: a failure is logged and the job goes on      *)
(* without a pull request.                                                 *)
OpenPr(j) ==
  /\ pc[j] = "open_pr"
  /\ \E opened \in BOOLEAN :
       /\ pr' = [pr EXCEPT ![j] = opened]
       /\ EnterGate(j, opened)
  /\ UNCHANGED <<daemon, ask, queue, cut, io, route, fixes, lastCi, retried,
                 fixRuns, told, restarts>>

SawCi(j, s) == lastCi' = [lastCi EXCEPT ![j] = s]

PollGreen(j) ==
  /\ pc[j] = "poll"
  /\ SawCi(j, "green")
  /\ Finish(j, "completed")
  /\ UNCHANGED <<daemon, ask, queue, cut, io, route, pr, fixes, retried, fixRuns,
                 told, restarts>>

PollPendingGivesUp(j) ==                                      \* mutant
  /\ pc[j] = "poll"
  /\ SawCi(j, "pending")
  /\ \/ SetStatus(j, "waiting_ci") /\ UNCHANGED pc
     \/ Finish(j, "completed")
  /\ UNCHANGED <<daemon, ask, queue, cut, io, route, pr, fixes, retried, fixRuns,
                 told, restarts>>

(* Checks pending: sleep and poll again until the deadline has passed.     *)
PollPending(j) ==
  /\ pc[j] = "poll"
  /\ SawCi(j, "pending")
  /\ \/ SetStatus(j, "waiting_ci") /\ UNCHANGED pc
     \/ Finish(j, "needs_help")
  /\ UNCHANGED <<daemon, ask, queue, cut, io, route, pr, fixes, retried, fixRuns,
                 told, restarts>>

PollRedOneMore(j) ==                                          \* mutant
  /\ pc[j] = "poll"
  /\ SawCi(j, "red")
  /\ IF fixes[j] > MaxFix
     THEN Finish(j, "needs_help") /\ UNCHANGED <<fixes, fixRuns>>
     ELSE /\ SetStatus(j, "fixing_ci") /\ Goto(j, "fix")
          /\ fixes' = [fixes EXCEPT ![j] = @ + 1]
          /\ fixRuns' = [fixRuns EXCEPT ![j] = @ + 1]
  /\ UNCHANGED <<daemon, ask, queue, cut, io, route, pr, retried, told, restarts>>

(* checks_summary answers green, pending or red, so the loop's break on     *)
(* anything else is not taken.                                              *)
PollRed(j) ==
  /\ pc[j] = "poll"
  /\ SawCi(j, "red")
  /\ IF fixes[j] >= MaxFix
     THEN Finish(j, "needs_help") /\ UNCHANGED <<fixes, fixRuns>>
     ELSE /\ SetStatus(j, "fixing_ci") /\ Goto(j, "fix")
          /\ fixes' = [fixes EXCEPT ![j] = @ + 1]
          /\ fixRuns' = [fixRuns EXCEPT ![j] = @ + 1]
  /\ UNCHANGED <<daemon, ask, queue, cut, io, route, pr, retried, told, restarts>>

(* The fix agent and the push, whose failure is only logged.               *)
FixDone(j) ==
  /\ pc[j] = "fix"
  /\ SetStatus(j, "waiting_ci") /\ Goto(j, "poll")
  /\ UNCHANGED <<daemon, ask, queue, cut, io, route, pr, fixes, lastCi, retried,
                 fixRuns, told, restarts>>

-----------------------------------------------------------------------------
(* The exception handler of _process_job.                                  *)

MayRetry(j, f) == f \in Retries \ retried[j] /\ (f = "git" => ask[j].local)

(* One silent second pass per kind of fault, from the top.                 *)
RaiseRetry(j, f) ==
  /\ pc[j] \in Working /\ MayRetry(j, f)
  /\ SetStatus(j, "running") /\ Goto(j, "start")
  /\ retried' = [retried EXCEPT ![j] = @ \cup {f}]
  /\ UNCHANGED <<daemon, ask, queue, cut, io, route, pr, fixes, lastCi, fixRuns,
                 told, restarts>>

RaiseFinal(j, f) ==
  /\ pc[j] \in Working /\ ~MayRetry(j, f)
  /\ Finish(j, IF f = "timeout" THEN "needs_help" ELSE "failed")
  /\ UNCHANGED <<daemon, ask, queue, cut, io, route, pr, fixes, lastCi, retried,
                 fixRuns, told, restarts>>

-----------------------------------------------------------------------------
(* Outcome messages are sent after the row is written.                     *)

Outcome(s) == CASE s = "completed" -> "done" [] s = "needs_help" -> "help"
                [] s = "failed" -> "problem" [] OTHER -> "interrupted"

(* notify_done or _post; a write job that completed then removes its       *)
(* worktree.                                                               *)
Notify(j) ==
  /\ pc[j] = "notify"
  /\ told' = [told EXCEPT ![j] = @ \cup {Outcome(status[j])}]
  /\ Goto(j, IF route[j] = "write" /\ status[j] = "completed"
             THEN "cleanup" ELSE NoTask)
  /\ UNCHANGED <<daemon, store, route, pr, fixes, lastCi, retried, fixRuns,
                 restarts>>

Cleanup(j) ==
  /\ pc[j] = "cleanup"
  /\ Goto(j, NoTask)
  /\ UNCHANGED <<daemon, store, route, pr, fixes, lastCi, retried, fixRuns,
                 told, restarts>>

-----------------------------------------------------------------------------
(* The daemon (api/app.py lifespan).                                       *)

InterruptRunning ==                                           \* mutant
  /\ io = NoIo
  /\ status' = [j \in Jobs |-> IF status[j] = "running" THEN "interrupted"
                                                        ELSE status[j]]
  /\ told' = [j \in Jobs |-> IF status[j] = "running"
                             THEN told[j] \cup {"interrupted"} ELSE told[j]]
InterruptAll ==                                               \* mutant
  /\ io = NoIo
  /\ status' = [j \in Jobs |-> IF status[j] \in {"queued"} \cup NoRow
                               THEN status[j] ELSE "interrupted"]
  /\ UNCHANGED told

(* interrupt_stale_active_jobs and the post to each interrupted thread.    *)
InterruptStale ==
  /\ io = NoIo
  /\ status' = [j \in Jobs |-> IF j \in Occupying THEN "interrupted"
                                                  ELSE status[j]]
  /\ told' = [j \in Jobs |-> IF j \in Occupying
                             THEN told[j] \cup {"interrupted"} ELSE told[j]]

(* The process is up and Slack may queue jobs; the worker is not yet.      *)
Boot ==
  /\ daemon = "down" /\ daemon' = "starting"
  /\ UNCHANGED <<store, task, told, restarts>>

StartWorker ==
  /\ daemon = "starting" /\ daemon' = "running"
  /\ InterruptStale
  /\ UNCHANGED <<ask, queue, cut, io, task, restarts>>

(* stop_cursor_worker cancels the loop, not the job tasks.                 *)
StopWorker ==
  /\ daemon = "running" /\ daemon' = "stopping"
  /\ restarts < MaxRestarts /\ restarts' = restarts + 1
  /\ InterruptStale
  /\ UNCHANGED <<ask, queue, cut, io, task>>

(* Whatever is in memory goes, a half-done store operation included.       *)
Die == daemon' = "down" /\ io' = NoIo /\ pc' = [j \in Jobs |-> NoTask]

Exit ==
  /\ daemon = "stopping" /\ io = NoIo
  /\ Die
  /\ UNCHANGED <<ask, status, queue, cut, route, pr, fixes, lastCi, retried,
                 fixRuns, told, restarts>>

(* A crash in the middle of a write of status.json: what is left of it is  *)
(* no JSON and is read as no rows.  (Between the writes of enqueue the lock *)
(* keeps other writers out.)                                               *)
TearStatus ==
  /\ io.op # "enqueue"
  /\ status' = [j \in Jobs |-> IF status[j] = "absent" THEN "absent"
                               ELSE IF status[j] \in Waiting THEN "unlisted"
                               ELSE "forgotten"]
  /\ UNCHANGED <<queue, cut>>

(* In the middle of a new line of queue.jsonl.  (A cut that takes only the  *)
(* newline shows as a whole line or as half of one, by whether it is read   *)
(* or appended to next.)                                                   *)
TearLine ==
  /\ io.op = "enqueue" /\ cut # "garbled"
  /\ cut' \in {"half", "garbled"}
  /\ UNCHANGED <<status, queue>>

(* In the middle of the lines a claim keeps.                               *)
TearQueue ==
  /\ MayClaim
  /\ \E n \in 1 .. Len(Kept(queue, Slots)) :
       queue' = SubSeq(Kept(queue, Slots), 1, n - 1)
  /\ cut' \in {"no", "half", "garbled"}
  /\ UNCHANGED status

Crash ==
  /\ daemon # "down" /\ restarts < MaxRestarts
  /\ \/ UNCHANGED <<status, queue, cut>>
     \/ TearStatus \/ TearLine \/ TearQueue
  /\ Die
  /\ restarts' = restarts + 1
  /\ UNCHANGED <<ask, route, pr, fixes, lastCi, retried, fixRuns, told>>

-----------------------------------------------------------------------------
Enqueue(j) == (\E a \in Asks : EnqueueWriteStatus(j, a)) \/ EnqueueAppendLine(j)
Guarded(j) == AcquireSem(j) \/ AcquireRepoLock(j)
Start(j)   == \/ StartComment(j) \/ StartDeadPr(j) \/ StartWrite(j)
              \/ StartCloud(j) \/ StartRead(j)
Run(j)     == \/ AgentDone(j) \/ TestsDone(j) \/ RetestDone(j) \/ OpenPr(j)
              \/ PollGreen(j) \/ PollPending(j) \/ PollRed(j) \/ FixDone(j)
Raise(j)   == \E f \in Faults : RaiseRetry(j, f) \/ RaiseFinal(j, f)
Conclude(j) == Notify(j) \/ Cleanup(j)
Claim      == ClaimWriteQueue \/ ClaimWriteStatus
Daemon     == Boot \/ StartWorker \/ StopWorker \/ Exit \/ Crash

Next ==
  \/ \E j \in Jobs : \/ Enqueue(j) \/ Guarded(j) \/ Start(j) \/ Run(j)
                     \/ Raise(j) \/ Conclude(j)
  \/ Claim
  \/ Daemon

Spec == Init /\ [][Next]_vars

(* Every await of a task ends: the agent runs under wait_for, the CI loop   *)
(* has a deadline, and subprocesses are assumed to return.  asyncio wakes   *)
(* the waiters of a semaphore or a lock in order, so a waiter is not passed *)
(* over for ever.  The container restarts the daemon when it is down.       *)
(* Nothing is fair about users, crashes and stops.                          *)
CiLoopEnds(j) == \/ PollGreen(j) \/ PollRed(j)
                 \/ PollPending(j) /\ pc'[j] = "notify"
TaskStep(j) == \/ Start(j) \/ AgentDone(j) \/ TestsDone(j) \/ RetestDone(j)
               \/ OpenPr(j) \/ CiLoopEnds(j) \/ FixDone(j) \/ Raise(j)
               \/ Conclude(j)

Fairness ==
  /\ WF_vars(Claim) /\ WF_vars(Boot) /\ WF_vars(StartWorker) /\ WF_vars(Exit)
  /\ \A j \in Jobs : /\ WF_vars(TaskStep(j)) /\ SF_vars(Guarded(j))
                     /\ WF_vars(EnqueueAppendLine(j))

FairSpec == Spec /\ Fairness

-----------------------------------------------------------------------------
TypeOK ==
  /\ daemon \in {"down", "starting", "running", "stopping"}
  /\ ask \in [Jobs -> Asks \cup {NoAsk}]
  /\ status \in [Jobs -> Status]
  /\ queue \in Seq(Jobs) /\ cut \in {"no", "half", "garbled"}
  /\ io \in [op : {"none", "enqueue", "claim"}, jobs : SUBSET Jobs]
  /\ pc \in [Jobs -> PC]
  /\ route \in [Jobs -> {"none", "comment", "read", "cloud", "write"}]
  /\ pr \in [Jobs -> BOOLEAN]
  /\ fixes \in [Jobs -> 0 .. MaxFix]
  /\ lastCi \in [Jobs -> {"none", "green", "pending", "red"}]
  /\ retried \in [Jobs -> SUBSET Retries]
  /\ fixRuns \in [Jobs -> Nat]
  /\ told \in [Jobs -> SUBSET {"done", "help", "problem", "interrupted"}]
  /\ restarts \in 0 .. MaxRestarts

(* "Never complete as success unless CI green when we had a PR gate": a     *)
(* write job that ended completed with a pull request and required checks   *)
(* saw them green in its last pass, whatever was retried on the way.  (A    *)
(* job whose pull request could not be opened has no gate.)                 *)
GreenGate ==
  \A j \in Jobs : status[j] = "completed" /\ route[j] = "write" /\ Gate(j, pr[j])
                   => lastCi[j] = "green"

(* A row that says a job is in progress has a live task behind it while the *)
(* worker runs.  A row without one would take a slot until the next restart,*)
(* because the worker counts slots from the rows.                           *)
InFlightOwned ==
  daemon = "running" => \A j \in Jobs : status[j] \in InFlight
                                       => pc[j] \notin {NoTask, "notify", "cleanup"}

(* The pool's two limits agree: at most MaxParallel rows in progress while  *)
(* the worker runs, and at most MaxParallel tasks past the semaphore, tasks *)
(* that outlive their row or a stop of the worker included.                 *)
Capacity ==
  /\ daemon = "running"
       => Cardinality({j \in Jobs : status[j] \in InFlight}) <= MaxParallel
  /\ Cardinality({j \in Jobs : HoldsSem(j)}) <= MaxParallel

(* _process_job_guarded: jobs queued in write mode for one repository do    *)
(* not overlap, in their retries, their CI loop and their clean-up either.  *)
RepoExclusive ==
  \A j, k \in Jobs : /\ j # k /\ NeedsLock(j) /\ NeedsLock(k)
                     /\ Executing(j) /\ Executing(k)
                     => ask[j].repo # ask[k].repo

(* One outcome is announced, and it is the one on record, retries and late  *)
(* errors included; none is added after a torn status.json lost the record. *)
(* (A job that a graceful stop reported as interrupted may still finish and *)
(* say so.)                                                                 *)
ToldConsistent ==
  \A j \in Jobs : told[j] \ {"interrupted"} # {}
                   => \/ told[j] \ {"interrupted"} = {Outcome(status[j])}
                      \/ /\ status[j] = "forgotten"
                         /\ \E o \in {"done", "help", "problem"} :
                              told[j] \ {"interrupted"} = {o}

(* tempa_cursor_ci_fix_max bounds the fix runs of a pass; each silent retry *)
(* of the job starts the count again, so this is the bound over a job.      *)
FixBudget ==
  \A j \in Jobs : fixRuns[j] <= MaxFix * (1 + Cardinality(retried[j]))

OutcomesKept ==
  \A j \in Jobs : status[j] \in Ended \ {"interrupted"}
                   => \/ status'[j] = status[j]
                      \/ daemon' = "down" /\ status'[j] = "forgotten"

(* An outcome on record is final: no late task, boot or stop replaces it.   *)
(* Only a crash in a write of status.json loses it.                         *)
OutcomeFinal == [][OutcomesKept]_vars

(* The store and the worker keep what JobBoard promises: a job is taken up  *)
(* once, its outcome stays, and is announced once and after it is recorded, *)
(* across retries, stops, crashes and half-written files.  A torn           *)
(* status.json loses every row at once, and the jobs taken up by then are    *)
(* not taken up again.                                                      *)
Shown(j) == IF status[j] \in Waiting THEN "accepted"
            ELSE IF status[j] \in InFlight THEN "working"
            ELSE IF status[j] = "interrupted" THEN "stopped" ELSE status[j]
Board == INSTANCE JobBoard WITH
  phase <- [j \in Jobs |-> Shown(j)],
  held  <- {j \in Jobs : pc[j] # NoTask},
  heard <- [j \in Jobs |-> {o \in Ended \ {"interrupted"} : Outcome(o) \in told[j]}]
KeepsBoard == Board!Spec

(* A queued job no worker will ever see: its line is not in the queue file, *)
(* or the file cannot be read.                                              *)
Lost(j) ==
  /\ status[j] \in Waiting /\ io = NoIo
  /\ cut = "garbled" \/ j \notin {queue[i] : i \in DOMAIN queue}

(* Every queued job ends, across restarts, retries and stops, unless it is  *)
(* lost in a crash: one between the file writes of enqueue or claim or in   *)
(* the middle of a write of queue.jsonl, after which no line names the job  *)
(* or none can be read; or one in the middle of a write of status.json,     *)
(* which loses the row of a job under way.                                  *)
EveryJobEnds ==
  \A j \in Jobs :
    (status[j] \in Waiting \cup InFlight)
     ~> (status[j] \in Ended \/ (restarts > 0 /\ (Lost(j) \/ status[j] = "forgotten")))

(* _process_job_guarded: "per-repo write serialization": two jobs are not   *)
(* on the worktree-and-push path of one repository at the same time.        *)
WriteSerialized ==
  \A j, k \in Jobs : /\ j # k /\ Executing(j) /\ Executing(k)
                     /\ route[j] = "write" /\ route[k] = "write"
                     /\ ask[j].repo # NoRepo
                     => ask[j].repo # ask[k].repo
=============================================================================
