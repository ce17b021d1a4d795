# A formal model of Tempa's background work

Tempa is a Python daemon (with a meeting worker and a WhatsApp bridge beside it)
that answers on Slack, WhatsApp and a dashboard, and does long work in the
background: coding jobs in git worktrees, meeting recordings, repository scans.
Its state lives in JSON files under `data/`, and its concurrency is asyncio
tasks, threads and, for meetings, two processes over the same files. These
modules model the parts whose correctness depends on the order of steps.

## 1. Inventory

| Part | State it keeps | Operations | Interacts with | Hard behaviour |
|---|---|---|---|---|
| Cursor job store (`channels/slack/cursor_jobs.py`) | `queue.jsonl`, `status.json` | enqueue, claim, update, interrupt stale rows, find binding, add participants | Slack reply path (enqueue), worker (claim, update), app lifespan (recovery) | two files written one after the other, both in place; recovery by status |
| Cursor worker (`cursor_worker.py`) | semaphore, repository locks, one task per job | loop, guard, `_process_job`, retries, stop | agent, tests, CI, worktrees, Slack | awaits everywhere, silent retries, tasks that outlive a stop |
| Worktrees and PR binding (`cursor_worktree.py`, `cursor_threads.py`, parts of the store and worker) | directories, branches, rows' `branch` / `pr_number` | adopt, bind, fresh branch, ensure / remove worktree, create PR, stamp rows | git, GitHub | PRs that close meanwhile, leftover directories, several users of a thread, writers without the repository lock |
| CI gate (`cursor_qa.py`, `cursor_pr.py`) | GitHub's checks | evaluate, collect comments, notify | GitHub, Slack | verdicts of an earlier pass |
| Meeting jobs (`meet/job_store.py`, `service.py`, `worker_main.py`, `lifecycle.py`, `quality.py`, `capture_slots.py`) | `job_queue.jsonl`, `job_status.json`, capture slots | enqueue, claim, record, finalize, recover, finalize interrupted | daemon and worker process, scheduler, browser capture, pipeline | two processes on one pair of files, crash at any phase |
| Meeting artefacts (`pipeline.py`, `archive.py`, `notify.py`, ...) | files per meeting | transcribe, archive, upload, notify | model and Google APIs | repeated finalization |
| WhatsApp inbound (`webhook.py`, `dedupe.py`, `inbound_queue.py`, `reply.py`) | seen ids, in-memory queue | receive, dedupe, queue, reply, time out | bridge, agent runner | at-most-once by design: what is lost; a file of seen ids that a crash cuts |
| Agent runner (`agent/runner.py`, `slack_ingress.py`) | thread locks, `_active_runs`, `_cancelled_keys` | claim a thread, run the agent in an OS thread, stop | Slack events, WhatsApp worker, agent SDK | stops from another task or thread at any point of a turn, runs that outlive their coroutine |
| Pending actions (`core/pending_actions.py`) | `pending_actions.json` | create, update, approve, reject, expire, execute | every channel's drafts, the dashboard, "go" in chats | approvals that race edits and expiry; crash or cancellation between approve and execute |
| QA jobs (`qa/job_store.py`, `worker.py`, `scanner.py`, `notify.py`) | queue and status files | enqueue, claim, scan, fan out, review, notify, time out, recover | GitHub, agents, chats | two files written one after the other, both in place; timeout at any await, work run again after a crash |
| Varys harness (`varys/harness.py`, `dispatch.py`, `tick.py`, `poller.py` and its sources) | an SQLite database: `tick_lock`, `tickets`, `events`, `sessions`, `sync_state` | create a ticket, approve, poll, dispatch, tick | chats and dashboard (tickets, go-aheads), Notion, Jira, GitHub (polled), Claude | a loop and a command line under a lock that lapses; a commit per statement; ticks that fail or are killed on the way |
| Slack bolt, WhatsApp outbound, Gmail, Jira, Coolify, contacts, calendar, RAG, orchestrator, agents, Hermes, Varys' prompts and tools, PC tools, dashboard | caches, drafts, indexes | one API or model call at a time | each other by calls | little shared state |

What makes the coding jobs correct: a job's recorded outcome is right and final,
it is announced once, every queued job ends across crashes, the pool's limits
and the repository lock hold, the CI gate cannot be slipped past by a retry,
and two users of one thread never share a branch, a worktree or a pull request.
What makes the pending actions correct: an action happens at most once, as the
owner approved it, and never after it was refused. What makes the meeting jobs
correct: one job per slot and one slot per job, whatever the two processes do to
the files, rows that say how far a job is, and no settled meeting run again.
What makes the turns correct: one run per thread, a stop that ends the turn it
found and no other, one answer per message, and nothing blocked for ever by a
turn that hangs. The QA jobs add that a chat is told once and that a review
somebody waits for goes first. What makes the ticks correct: one tick and one
session per context at a time, no event put to Claude twice, none lost but in
the ways the code accepts, and every one taken up in the end.

## 2. The modules

### CursorJobs — the store, the worker and the life of a job

| Code | Model |
|---|---|
| `status.json` rows' `status`; `queue.jsonl` | `status`, `queue` |
| the two file writes of enqueue and claim, under `_lock` | two actions, with `io` naming the operation in between: only a crash can come between them, since everything runs on one event loop and the pair has no await |
| the asyncio task of a job and the await it is at | `pc[j]` |
| `_global_job_sem`, `_repo_lock` | `AcquireSem`, `AcquireRepoLock` (held by `pc`) |
| the branches of `_process_job` | `StartComment`, `StartDeadPr`, `StartWrite`, `StartCloud`, `StartRead` |
| agent, tests, second agent run, push and create PR | `AgentDone`, `TestsDone`, `RetestDone`, `OpenPr` |
| the CI loop | `PollGreen`, `PollPending`, `PollRed`, `FixDone` |
| the exception handler and its three silent retries | `RaiseRetry`, `RaiseFinal` |
| `notify_done` / `_post`, `remove_worktree` | `Notify`, `Cleanup` |
| lifespan: start, `start_cursor_worker`, `stop_cursor_worker`, exit, crash | `Boot`, `StartWorker`, `StopWorker`, `Exit`, `Crash` |
| a crash in the middle of `write_text` or of an appended line | `TearStatus`, `TearLine`, `TearQueue`; what is left at the end of `queue.jsonl` is `cut` |

Both files are written in place, so a crash may cut either. `_read_statuses` reads a cut
`status.json` as no rows at all: a job that waits becomes "unlisted", and is still claimed
from its line, which holds the row; a job further on becomes "forgotten". A cut
`queue.jsonl` has lost its last lines; half a line at its end is passed over, and spoils
the line appended behind it; half a character makes the file unreadable, and the worker
loop logs an error every two seconds from then on.

An ask is the record of facts that steer `_process_job`: the mode `enqueue_from_slack`
fixed from the message, and what the worker derives from the stored ask text,
which also holds the thread's earlier messages. `AsksAssumption` states what the
code guarantees about the two.

### CursorWorktrees — branches, directories and pull requests

Rows have a key (channel, thread, user and repository: `pr_key`), a branch and a
pull request. A row's branch is named by the job that made it (`branch_name`
ends with the job id), so the set `Branch` is the jobs and the colleagues'
branches. `Adopt` and `Continue` are the two ways `_process_job` finds a branch,
`MakeWorktree` and `NoWorktree` are `ensure_worktree` with git's refusal to check
one branch out twice, `OpenPr` is push and create, `Finish` and `Clean` the
completion and `remove_worktree`, `Raise` the exception handler, from wherever an error
may come (the CI loop included), with its second pass, `Mention` and `NewParticipant` the stamps a thread's rows get from later
messages, `Close` a pull request merged or closed by anybody at any time,
`Restart` a crash with recovery, which may have torn `status.json`. `older[j]` is the set of rows whose `updated_at` is
before that of `j`, so "the latest row" is the one that has all others of the set in
its `older`.

A job takes the repository lock when its row's `mode` is write and names a repository
(`Locked`); it writes without the lock when the row names none, or when it was queued as
read and its thread's text turns it to the write path. Such jobs run beside any other:
`Begin` keeps only the locked ones apart.

### JobBoard — what a Slack thread is promised

The abstract specification of the store and the worker, with the files, the
pool and the stages of the work left out: a request is accepted, taken up once
by a task, settled, announced once after it is settled; a stop or a boot marks
what is in progress as stopped, and stopped work may go on only in the task that
was already doing it; a crash may lose the record of all jobs at once
(`LoseRecord`), and then none that was taken up is taken up again. `CursorJobs!Board` is the refinement mapping: a job's
`phase` is read off its row, `held` is the set of jobs with a task, and `heard`
is what `told` holds besides interruption notices. `KeepsBoard` says that
`CursorJobs` implements it; a half-written store operation, a wait for a slot or
a lock and the steps of the CI loop are stutters.

### PendingActions — drafts that wait for the owner

| Code | Model |
|---|---|
| a row of `pending_actions.json` | `status`, `draft`, `from`; a missing row (or a file that reads as empty) is "absent" |
| `expires_at` | `due`, the actions whose time has passed |
| create, update, reject | `Create`, `Edit`, `Reject` |
| list and get, with their expiry pass and save | `Look`, at any moment: the store's threading lock allows for other threads |
| `execute_pending_action` up to its first await | `Check` (called by `Press` and `Go`), then `Mark`: on the event loop nothing comes between them, a thread's `Look` may (`LoopFree`) |
| the executor | `Act`, at most one effect, external; `Return` with or without it, `Raise` before or after it |
| `capture_from_approval` raising | `Raise` after the effect |
| the chat stream the browser closes, which cancels its task (`api/app.py:1654`) | `Cancel`: the row stays approved, a send handed to a thread may still happen (`LateAct`) |
| the card's toast, the answer to "go" | `told` |
| death of the daemon, also in the middle of `write_text` | `Crash` |

One file and one lock make every operation of the store atomic, so the module
is about what happens between them: a call reads its row, marks it, works on
its copy, and marks it again, while other approvals, edits, rejections, expiry passes,
cancellations and crashes go on.

### MeetJobs — two processes on one pair of files

| Code | Model |
|---|---|
| `job_status.json`, `job_queue.jsonl` | `rows`, `lines` |
| an operation of the store in one process (under its `threading.Lock`) | `op[p]`: begun with what it read, ended by a write computed from that; the other process may read and write in between |
| a write that takes back the other process's write | `lost` |
| daemon: `schedule_meeting_join_async`, summarize and process requests | `Join`, `JoinWrite`, `Resummarize` |
| start of either process | `StartRecovery`, `RecoveryWrite`, `List`, `Finalize`, `Finalized` (`phase`, `todo`) |
| `_poll_loop`, its `in_flight`, the slot pool | `Tick`, `PollRecovery`, `Claim`, `ClaimWrite`, `ClaimedWrite`, `Sleep`, `inFlight`, `free` |
| a job's thread and its coroutine | `Work` (the next status it writes), `EndTask` |
| death of either process | `MeetCrash(p)` |

Only a lost write breaks the links between rows, lines and jobs; the slots keep
theirs even then. The periodic recovery's requeue and the claim's second look
for duplicates matter only once a write was lost; section 4 proves both.

### AgentTurns — interactive turns, Slack and WhatsApp

| Code | Model |
|---|---|
| a Slack event's task, the WhatsApp worker's hand | `at[m]`, `hand` |
| `_run_agent_sync` in its OS thread | `run[m]`, `out[m]`: it goes on when the coroutine was cancelled |
| `_asyncio_lock_for`, `_active_runs`, `_cancelled_keys` | `lock`, `active`, `flags` |
| `mark_inbound_seen`, `mark_seen`, `inbound.json` | `seen`, kept over a crash for WhatsApp only, and forgotten where the crash cut the file (`torn`) |
| `enqueue_inbound`, `_worker_loop`, `_dispatch` | `Webhook`, `Take`, `Skip`, `Timeout` |
| `run_slack_tempa_turn`, `handle_interactive_turn` | `Event`, `Enter`, `StartRun`, `Return`, `Reply` |
| `cancel_thread_run` | `Cancel`, at once in Slack, in its turn of the queue in WhatsApp |
| the thread's steps | `Send`, `Register`, `Finish`, each with its look at the flag |

What the code does otherwise than one might think, all of it in the model: the
"One active run per thread" of `runner.py:27` holds in Slack only, since a
WhatsApp timeout cancels the coroutine and gives the lock back while its OS
thread runs on; a stop that finds nothing to stop leaves its flag, and the next
turn is answered with "stopped"; a failed run leaves the flag too; a WhatsApp
stop waits in the queue behind the turn it means to stop; a run that outlived
its turn may take the next turn's entry out of `_active_runs`; a message is
marked as seen before it is queued, and a full queue drops it.

### QaJobs — scans of branches, pull requests and repositories

`rows` and `waiting` are the two files, `current` and `step` the one job in process
and the await it is at, `heard` and `comments` what the chat and the pull request
got. Operations hold the lock and have no await, so they are steps; `QaCrash` may
fall between their two writes, or into the middle of one. `CutStatus` is a crash in a
write of `job_status.json`, which then reads as empty: a job that waits is "unlisted"
(the claim makes its row anew from the line), any other "forgotten". `CutEnqueue`,
`CutClaim`, `CutRecover` and `CutFanOut` are crashes in what the other operations
write: `job_queue.jsonl` loses its last lines, and may end without a newline (a line
appended there is spoilt, as is the one it follows), in half a line, which is the line 0
of `waiting`, or in half a character (`cut`). The loop does not survive a line or a file
it cannot read (`LoopDies`) and is not started again before the next boot. `JobTimeout` is `wait_for` around `_process_job`: it
may come while the chat is told, and then turns a completed row into a failed
one; otherwise it tells nobody. `Recover` runs again what was running, so a
review may comment twice and a repository scan may fan out twice, although
`job_store.py:124` calls only branch scans idempotent.

### VarysTicks — the harness and its orchestrator's ticks

| Code | Model |
|---|---|
| `tickets`, `events.status`, running rows of `sessions` | `tickets`, `status`, `sessions` |
| `tick_lock`; its half hour gone by | `lock`; `lapsed` |
| `last_sync_at` against the time of an update | `unsynced` |
| where a tick is, of the loop or of the command line | `run[t]` |
| `create_ticket`, `approve_ticket` and the go-ahead of a chat | `Create`, `Approve` |
| Notion, Jira and GitHub, external | `Update` |
| `run_tick`: lock, polls, the contexts with events, `set_last_sync_at`, release | `Acquire`, `Poll`, `PollRaises`, `Look`, `Sync` |
| `dispatch_context`: session, prompt, completion, its exception handler | `Open`, `Prompt`, `PromptFails` |
| death of the process, an interrupt at the keyboard | `Crash` |

A step is a commit, or several that follow each other at once, and `Crash` may come
between these. Histories say what became of events: `prompts` (put to Claude),
`late` (came while their context was dispatched), `dropped` (of a dispatch that
failed), `overlooked` (updates during a tick, or that a failed poll missed).

What one would not expect, all of it in the code and in the model: `complete_events`
completes every open event of the context, so that one which arrives during the
dispatch is done without having been put to Claude, and so is one whose dispatch
failed, at the next dispatch of its context; a tick that is killed leaves a running
session, and `has_running_session` then passes over that context for ever;
`release_tick_lock` deletes the lock whoever holds it; `last_sync_at` becomes the
time at the end of the tick, so what was updated meanwhile is not polled again.

### The proof modules

`CursorJobsProofs`, `CursorBoardProofs`, `CursorWorktreesProofs`, `PendingActionsProofs`,
`MeetJobsProofs`, `AgentTurnsProofs`, `QaJobsProofs` and `VarysTicksProofs` hold the theorems.

The first proves the inductive invariant of `CursorJobs` and the properties that follow
from it, the next builds on it: the limits, which count, and the refinement.
The last six each prove the invariants of the module they are named after.

`MCCursorJobs`, `MCCursorWorktrees`, `MCPendingActions`, `MCMeetJobs` and `MCVarysTicks`
give the constants their small values. `MCStores` checks two stores of the daemon
that share no file, lock or task, `PendingActions` and `MeetJobs`, one of them moving
per behaviour. In the same way `MCAgentTurns` puts `AgentTurns` and `QaJobs` side by
side, one service of the daemon moving per behaviour: Slack turns, WhatsApp turns
and QA scans share the process and no state (locks, flags and runs are keyed by
thread; the QA store is its own), so nothing is lost by not interleaving them.

## 3. The runs

| Run | Asks | Bounds |
|---|---|---|
| `cursor_jobs` (MCCursorJobs.cfg) | types, the CI gate, live tasks behind rows, one announcement, the fix budget, `KeepsBoard` (which has final outcomes in it), every job ends | 2 jobs of 4 kinds, pool of 1, 1 fix per pass, faults `timeout` and `other`, 1 crash (of either file's write too) or stop |
| `cursor_pool` (MCCursorPool.cfg) | the pool's two limits; write jobs of one repository do not overlap | 3 jobs of 2 kinds, pool of 2, 1 crash or stop |
| `cursor_mixed_thread` (MCCursorMixed.cfg) | "per-repo write serialization" — violated | 2 jobs, pool of 2 |
| `cursor_worktrees` (MCCursorWorktrees.cfg) | users' branches apart, rows agree with GitHub, dead PRs not picked | 2 jobs of either mode, 2 users of one thread, one of them without a repository, 1 colleague's PR, 1 retry, 1 restart; or 3 jobs of one user's thread, 1 retry, no restart |
| `cursor_ask_again` (MCCursorAskAgain.cfg) | "Please ask again" — violated | 2 jobs, 1 user, 1 restart |
| `cursor_dead_branch` (MCCursorDeadBranch.cfg) | "not the dead PR head" — violated | 1 job, 1 PR |
| `cursor_fresh_branch` (MCCursorFreshBranch.cfg) | "Never continue a merged or closed PR" — violated | 1 job, 1 PR, 1 retry |
| `stores` (MCStores.cfg) | actions: one effect each, the recorded one, none after a refusal, approved rows have an executor, outcomes stay; meetings: slots neither shared nor leaked, no job run twice, rows and lines agree unless a write was lost, settled stays settled | 2 actions, 2 payloads, 2 buttons, 1 chat, 2 crashes; 2 jobs of one link, 2 slots (symmetric), 1 overlap of operations, 1 crash, 1 request |
| `pending_told` (MCPendingTold.cfg) | "Approved and executed" — violated | 1 action, 1 button, 1 chat, 1 crash |
| `meet_orphans` (MCMeetOrphans.cfg) | "orphaned in-flight jobs become interrupted" — violated | as the meetings of `stores` |
| `agent_turns` (MCAgentTurns.cfg) | one run per Slack thread, stops heard and spent, one answer per message, every message ends; QA lines and rows agree, one notice, outcomes stay, reviews first, every scan ends | 3 messages in one Slack thread or one chat, queue of 1, 1 redelivery, 1 crash; 3 QA jobs, 1 branch, 1 crash (each also in the middle of a file) |
| `varys_ticks` (MCVarysTicks.cfg) | one tick, session and prompt at a time while no tick outlasts its lock; events lost in the named ways only; every event gets its turn | a ticket, a thread with 1 go-ahead, a page with 2 revisions (nothing happens in one of these two), the loop and one shell, 1 crash or overrun |

Why the bounds are enough to meet the interesting cases. Two jobs are the least that can
compete for a slot, a lock or a queue line, three are needed for a waiter behind
two holders and for a third job to bind to what two others left; two users are
checked with two jobs, one user's thread with three: `MCCursorWorktrees` lets a third job
in only where the other two are of that thread and nothing else has happened. One restart
covers each crash window, the cut files included; the code keeps no memory of earlier
restarts beyond the files, so a second one meets the same kinds of files. One fix run per pass
reaches the limit (`MaxFix`), and one retryable and one final fault reach every
arm of the handler: the three retryable kinds differ in their flag only, which
the proofs treat for any set of faults. Of pending actions, two let "go" choose
and let two calls run at once; two buttons press the same one. Two meetings of one link meet every rule about
links, two slots the pool at and below its limit; one overlap of operations is
the least that loses a write. Three messages are a turn, a stop and the turn that
must not be stopped by it, or, in WhatsApp, one in hand, one in the queue and one
too many; three QA jobs are a repository scan, its child and a review that
overtakes it. Of the kinds of Varys' contexts (tickets come as an event again at every
poll, threads never, items by revision) two at a time are enough to let one be dispatched while
the other waits, and a shell beside the loop is the least that can overrun the lock or
find what a killed tick left. The theorems remove the bounds for the
properties they cover. `CHECK_DEADLOCK FALSE` is there because the models stop
when every job has ended and the restarts are used up.

The six violations are listed as findings: each quotes the line of the
repository it disagrees with. In short: a job queued as *read* can turn to the
write path on its thread's text and then takes no repository lock; an
interrupted job's leftover worktree makes "ask again" fail; a second pass reuses
the first pass's directory although it chose a fresh branch; a second pass after an error
in the CI loop takes the dead branch of its own closed pull request for a fresh one; the
owner is told "Approved and executed" of actions that expired, failed or were never sent;
a meeting whose worker died while recording is left out of the recovery that is there for it.

### Fairness

*Cursor jobs.* `FairSpec` assumes only what the code's scheduling gives. Each await of a job's
task ends (`wait_for` around the agent, a deadline on the CI loop, subprocesses
return), the worker loop goes round every two seconds, the container restarts a daemon that
is down, and asyncio wakes the waiters of a semaphore or lock in order (strong
fairness of `Guarded`). Nothing is assumed of users, crashes or stops. Under it
`EveryJobEnds` holds with two exceptions, both of a crash and stated in the property: a
job that waits may have lost its line, or the queue file its readability (a crash between
the two file writes of enqueue or claim, or in the middle of one), and a job under way
its row (in the middle of a write of `status.json`).

*Turns.* The event loop gets to each task and each timer. Runs of Slack threads
are assumed to end, which nothing in the code bounds; those of WhatsApp may hang
for ever, and `EveryMessageEnds` still holds because of the 45 seconds. *QA jobs.*
The worker goes round and its timer fires; a scan, a model or a notice may hang,
so `EveryScanEnds` rests on the timeout alone, except for a repository scan, which
has no await. Its exceptions, all of a crash, are in `Stranded`: the row of the job in
hand was lost, the line of one that waits was, or the loop came to something it cannot
read and has ended, or will before it reaches the line.
*Ticks.* The daemon's loop ticks at every interval and is restarted with the daemon;
every await of a tick ends (a prompt after 300 seconds), and half an hour passes, so
a lock left behind lapses. Strong fairness of `Acquire(Loop)` and `Poll(Loop)`: a shell
does not hold the lock at every one of the loop's ticks, and reading the tickets does not
raise every time. `EventGetsTurn` says that an event comes to be dispatched, not that the
dispatch succeeds, and excepts the contexts a killed tick left a session in.
*Meeting jobs.* `MeetJobs` states `MeetFairSpec` and `EveryMeetingEnds`, with the two
states no recovery looks at; no run checks it, since symmetry, without which the
instance is too large, is unsound for liveness.

## 4. What is proved

The proofs hold for every value of the constants. Each module names what it assumes of
them: `ConstantsAssumption`, in `MeetJobs` and `QaJobs` `MeetConstants` and
`QaConstants` (numbers are numbers, sets of slots, chats or keys are finite where they
are counted, placeholders are none of the things they stand for), and in `CursorJobs`
also `AsksAssumption`, which is what the code guarantees about asks.

| Module | Theorem | Statement |
|---|---|---|
| `CursorJobsProofs` | `TypeCorrect` | `Spec => []TypeOK` |
| | `Invariance` | `Spec => []IInv` |
| | `GreenGateHolds`, `InFlightOwnedHolds`, `RepoExclusiveHolds`, `ToldConsistentHolds` | the safety invariants of the runs |
| | `OutcomeFinalHolds` | the action property `OutcomeFinal` |
| `CursorBoardProofs` | `CapacityHolds` | `Spec => []Capacity` |
| | `FixBudgetHolds` | `Spec => []FixBudget` |
| | `KeepsBoardHolds` | `Spec => KeepsBoard`, the refinement of `JobBoard` |
| `CursorWorktreesProofs` | `WorktreesTypeCorrect` | `Spec => []TypeOK`, which says that the rows are in one order |
| | `StoreInvariant`, `WorkInvariant` | the inductive invariants |
| | `BranchesApart`, `RowsAgree`, `DeadStayDead`, `NothingLeft` | `BranchIsolation`, `RowPrMatches`, `DeadNotPicked`, `CompletedLeavesNothing` |
| `PendingActionsProofs` | `PendingTypeCorrect`, `PendingInvariance` | types, the inductive invariant |
| | `OneEffectHolds`, `AsOnRecordHolds`, `RefusedUntouchedHolds`, `ApprovedOwnedHolds` | the safety invariants of the run |
| | `PendingOutcomeFinalHolds` | the action property `OutcomeFinal` |
| `MeetJobsProofs` | `MeetTypeCorrect`, `MeetInvariance` | types, the inductive invariant |
| | `SlotsKeptHold`, `OneTaskHolds`, `LiveRowsHold`, `MeetQueueRows` | the safety invariants of the run |
| | `StaysSettledHolds` | the action property `StaysSettled` |
| | `PollFindsNothing` | while nothing was lost, the poll loop's recovery has no orphans |
| | `SerialLosesNothing` | `MeetSpec => [](races = 0 => ~ lost)` |
| `AgentTurnsProofs` | `TypeCorrect` | `Spec => []TypeOK` |
| | `OneRun`, `StopIsHeard`, `OneAnswer`, `StopIsSpent` | `OneSlackRun`, `StopHeard`, `AnsweredOnce`, `StopSpent` |
| `QaJobsProofs` | `QaTypeCorrect`, `QaInvariance` | types, the inductive invariant |
| | `QueueRowsHold`, `PriorityFirstHolds`, `SaidOnceHolds` | the safety invariants of the run |
| | `QaOutcomeFinalHolds` | the action property `OutcomeFinal` |
| `VarysTicksProofs` | `VarysTypeCorrect`, `VarysInvariance` | types, the inductive invariant |
| | `OneSessionHolds`, `EventsAccountedHolds` | the safety invariants of the run |

Some of these are in no run of their own: `OutcomeFinal` of `CursorJobs` follows from
`KeepsBoard`, which is checked, `CompletedLeavesNothing` from the invariant behind
the other properties of the branches, `PollFindsNothing` and `SerialLosesNothing` are
about the invariant of the meeting jobs, and the types of `PendingActions` are only proved.

**The invariant.** None of the safety properties is inductive alone. `IInv` adds four links:
`QueuedIdle` (a job not yet claimed, or forgotten, has no task, and one not yet claimed no
announcement), `Lines` (a line stands for a job that waits and is its only one, and the
jobs of a half-done store operation wait and have none; without it a line could restart a
job whose row a torn `status.json` lost, or that a claim has taken already), `SettledTask` (a task whose row has an outcome
only reports and cleans up, and conversely), `ToldLast` (the announcement follows
the outcome, and is the recorded one where a record is left). The many branches of `_process_job` share one shape: the lemmas
`StartStep`, `RunStep` and `RaiseStep` show that each is a `StepTo`, one job
moving with at most its own row written and `completed` written behind a gate
only on green. `NextCases` then leaves a dozen kinds of step, and there is one
lemma per conjunct with one named step per kind.

**The pool.** The rows and the semaphore count different things, and each limit
needs a reason why the other's steps cannot break it. `FreshStart` (no task of an
earlier process when the worker starts, a claim half written only while it runs)
gives `TaskCounted` (while the worker runs, a task that has not settled already
has a row in progress), so that a task writing its row never adds to the count.
`RowLimit` then counts the rows in progress together with those a half-written
claim is about to mark. A claim is bounded by `ClaimedBound`: among the lines it
takes the last one has at most as many fresh lines up to it as there are free slots.

**The fix budget.** `Counted`: what a job has used is at most its current counter
plus `MaxFix` for each retry, and no more than the latter before a pass starts.

**The refinement.** `BoardStep` maps every `StepTo` to `Settle`, `GoOn` or a
stutter, `BoardNext` every other action to one action of the board or a stutter.
It needs one more invariant, `Announced`: a task that is cleaning up has spoken.

**The branches.** Which branch a pass picks depends on which row of the key is the
latest, and later messages of the thread stamp rows in between. `StoreInv` says what
can be relied on among the jobs that take the repository lock. `Turns`: one task at a
time, and its row says so. `InOrder`: they run in the order of the queue, so a row with
a branch was queued no later than the job that runs. `Newest`: of two of their rows with
a branch and one key, the one queued later is newer, however the thread and the boot
stamp them, because a stamp goes through the rows in the order of the queue. Nothing of
this holds of jobs without the lock, and `BranchIsolation` and `RowPrMatches` need none
of it: they rest on `Picked`, which says that what a pass holds and what a row or a
directory keeps of it comes from a job of the same key, with the pull request of that
branch. `DeadNotPicked` needs it. `Dead`: what a task found merged or closed stays so
until a new pull request is opened. `Tried`: what the next pass would go on with (the
job's own row once that has a branch, before that the last one of its key) is not the
branch found dead, or names its pull request, so that the next pass finds it dead again.
So a job picks a dead branch in the named cases only: its own branch, whose name is
always the same; a pass that could not look the pull request up; a key for which jobs
without the lock wrote, whose rows are in no order. The lemma `Chosen` goes through
the cases of the choice once; `OthersWork` and `HarmlessWork` show that a step of one job
needs to be looked at for that job only. The proof is for any number of jobs, keys, pull
requests, retries and restarts, torn files included, from `ConstantsAssumption`.

**Pending actions.** The invariant follows one approval through its stages:
`CheckedRow` (the row it read may meanwhile have expired, but was not edited or
decided), `RunningRow` (while the executor runs the row is approved, unedited,
and has had exactly the executor's own effect), `LooseRow` (an effect left to a
thread is still to come, and no other call is about its action), `OneCall` (no
two calls about one action). `Unsent` then says why a new approval is harmless,
and `CutOff` why an approved row without a task is one a crash or a closed stream left.
The proof is for any number of actions, tasks and crashes, from
`ConstantsAssumption`.

**Meeting jobs.** The slots need no more than `Shapes`: what is under way in the store was
begun by one of the actions, and a task moves on only by the write its own thread began.
So `SlotsKept` and the types hold of every behaviour, whatever the two processes take back
of each other's writes. All the rest is said of behaviours in which nothing was lost. A write
that lost nothing was computed from what is there now (`JoinWrote`, `ClaimWrote`,
`ClaimedWrote`, `RecoveryWrote`, `UpdateWrote` say what it then does), and the only thing
that can differ is what happened in between to the files the operation does not compare.
`Upto` (nothing is known of a job before it is enqueued) takes care of a join in between.
`Owned`: a job that runs is known to the poll loop by its one slot, has no line, and its
row does not wait; so a claim, which takes a line, cannot take it again. `Fresh`: a line
stands for a row that waits, while what is up for finalization or being updated does not.
`Claiming` carries that over the claim's two writes: between them the jobs it took have no
line, and a later line of their link is of a job that joined since, whose row the claim does
not touch. `Alive`: once the worker has recovered, every row that says so is of a job that
runs; hence no recovery but those of a start ever begins, and none of these puts a
job back into the queue. For `QueueRows`, `Linked` says the same of every job in
detail, for behaviours without a crash, which may come between the two writes of a join.
`Moves` reduces a step to what the store or a slot notices of it, eleven kinds, and each part
of the invariant is proved kind by kind. `SerialLosesNothing` says when the condition
holds: as long as no operation begins during one of the other process, what an operation
read is still there when it writes.

**Turns.** Three invariants, each on top of the one before. `WhereInv` says where
things are: nothing has happened to a message not yet delivered (`Untouched`), a
message in the queue or in hand is where it is said to be, a run belongs to a
turn or is the orphan of a WhatsApp timeout (`Places`), what is seen was
delivered, and the lock is held by exactly the turn that is past it (`Locks`);
that gives `OneSlackRun`, because in Slack a run never outlives its turn. `StopInv`
adds `Heard` (a turn that a stop found still has its flag to come upon, was cut
short or failed, or has already been told to say "stopped"; a WhatsApp stop never
finds a turn, the worker takes it with an empty hand) and `Once` (an answer that
was sent belongs to a message that is done with, which gives `AnsweredOnce`).
`SpentInv` adds `Spent`: the flag of a thread and the turns that were stopped in it, or are
about to be, are together at most its stops. The proof is for any threads, queue,
messages, redeliveries and crashes, from `ConstantsAssumption`.

**QA jobs.** `Working` ties the row of the job in hand to the await its coroutine is at:
it is running until its outcome is written, and settled while the chat is told. `Lines`
says that a line stands for a job that waits, with or without its row, and is its only
one; `Whole`, that before a crash no file was cut and no row lost; `InHand`, that no other
row is running. Together they are `QueueRows`. So no line ever stands for the job in hand
or for one that ended, even when its row is lost, which gives `OutcomeFinal`; a recovery,
which puts back what is running, puts back no job that has a line or was told of (`Told`);
and a review that may still comment has done so in earlier processes only (`Posted`).
`LinesChange` is what can happen to the queue in a step: its first line taken, or lines of
jobs that did not wait before put before or behind it, and then some of the result lost or
spoilt. `Spoiled` says the latter: what is left is a beginning, with the lines that are no
JSON at zero. `CrashSteps` reduces a crash to this and to what it does to the rows, and
`QueueSteps` and `RowSteps` every step. The proof is for any jobs, branches, requests and
crashes, from `QaConstants`.

**Ticks.** A tick that outlasts its lock goes on beside the next one, so the invariant
about exclusion, `Alone`, is about behaviours in which none did: the tick that runs holds
the lock, which has not lapsed, there is no other, the context it is about to open has no
session, and what it is about to show was not shown before. A killed tick keeps that
because the session it leaves makes `Look` pass over its context. `Counted` holds with
any overlap: as many prompts of a context are under way as it has running sessions, or
fewer, so closing one never takes the count below zero. What may be lost is accounted
for without regard to the lock. `Covered`: an open event of the context a tick works on
is in its batch, or came late, or was dropped, or was shown by another tick. `Owned`: an
event in processing that has no such excuse has a running session, in or out of a tick,
so that no later dispatch completes it. `Polled`: an update that has no event when the
polls are over is one of the overlooked, and so may be skipped at the end of the tick.
The proof is for any tickets, threads, items, shells and faults, from `ConstantsAssumption`.

Only model-checked: the liveness properties, `EveryJobEnds`, `EveryMessageEnds`,
`EveryScanEnds` and `EventGetsTurn`, which rest on fairness and so are out of the prover's
reach. Every safety property a passing run checks is a theorem.

## 5. What the models leave out

- CursorJobs: the 200-row limit of `list_jobs`, a queue line that loses just its newline
  (it reads as whole or as half, by what comes next), and one that a line separator
  other than the newline in a message's text splits (`splitlines`; in the QA store
  likewise); the wording of messages, escalation pings to owners (an escalation with no owner
  configured is silent in the thread, and counts as announced), the progress ticker, which writes no status.
- CursorWorktrees: closed pull requests that are reopened; a crash between GitHub
  creating a pull request and the row naming it; a `git worktree remove` that fails; a
  queue file cut by a crash, after which a job is not claimed at all; reviews' and
  comments' own tasks, which write nothing but a row; that a directory or branch name is
  cut to a length, and so might be that of two jobs.
- PendingActions: the type of an action, beyond its effect being one call; a time
  to live that passes within the few instructions between the two expiry passes
  of one "go"; the owner's screen (an approval names an action, not the version of the
  draft that was read); that an executor ends, which some do only by its caller's timeout.
- GitHub, git, the Cursor agent and Slack are external: each answer they may give
  is a nondeterministic choice.
- MeetJobs: the in-process mode without the container; a file torn by a crash in
  the middle of a write (the reader skips what it cannot parse); the meeting
  without a link; transcription, upload, archive and notices behind `Finalize`.
- AgentTurns: agent sessions on file, the Slack replies that need no agent, the
  agent that is not configured, the graceful stop of the inbound worker, the 5000
  remembered ids and Slack's arbitrary eviction (`session.py:32`), the registry of
  messages in flight, which nothing reads back.
- QaJobs: `drop_queued_jobs`, which nothing calls; the findings and branch stores;
  verification and deduplication of GitHub's webhooks; what the OS thread of a scan
  that timed out still does.

- VarysTicks: what an event says and its priority, which orders the contexts of a
  tick; the entities, notes and costs Claude's tools record; tickets that are
  closed; a poll that is killed half way; errors of the database outside the poll of
  the tickets; the identity of a session beyond its being one of its context.

## 6. Not modelled, and why

The rest of the repository has no protocol of its own to check: the channels
(Gmail, Jira, Coolify, calendar, contacts, outbound WhatsApp and Slack) make one
API call per operation, and what they send goes through pending actions; the
meeting pipeline, RAG, learning, orchestrator and specialists are chains of model
calls whose next step is a model's reply, and so is what Varys' Claude does with its
prompt and tools; the dashboard, the routes and the
bridge render and forward. Their state is a cache, a draft or an index with one
writer. What could still be modelled: the in-process meeting mode, the findings
store of the QA scans, and the calendar's joins and retries as a user of
`MeetJobs`.
