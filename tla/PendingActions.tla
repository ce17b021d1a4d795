----------------------------- MODULE PendingActions -----------------------------
(***************************************************************************)
(* Drafts that wait for the owner: the store of pending actions (an email, *)
(* a message, a file to write, a plan), which any channel fills, and the   *)
(* two ways an owner lets one happen: the dashboard's approve button,      *)
(* which names an action, and "go" in the dashboard's chat, which takes    *)
(* the newest.                                                             *)
(*                                                                         *)
(* Every operation on the store reads and rewrites one file under one      *)
(* threading lock and is a step here.  Approvals, edits and rejections run *)
(* on the daemon's event loop, where nothing comes between two awaits.     *)
(* The lock is there for other threads: no caller in one was found, but    *)
(* the model lets one list the store at any moment.                        *)
(*                                                                         *)
(* Operators marked "mutant" are mistakes the code could have made.  No    *)
(* action uses them; put in place of the operator they precede they show   *)
(* that a property can fail.                                               *)
(***************************************************************************)
EXTENDS Naturals, FiniteSets

CONSTANTS MaxActions,   \* bound on the actions of a behaviour
          Payloads,     \* what an action would send or write
          Channels,     \* source_channel
          Chats,        \* the channels whose chat an owner may say "go" in
          Buttons,      \* approve requests of the dashboard
          None,         \* no payload, no action
          MaxCrashes    \* bound on the crashes of a behaviour

Actions == 1 .. MaxActions
Tasks   == Chats \cup Buttons     \* the tasks in which an approval runs

ASSUME ConstantsAssumption ==
  /\ MaxActions \in Nat /\ MaxCrashes \in Nat
  /\ Chats \subseteq Channels /\ Chats \cap Buttons = {}
  /\ None \notin Payloads /\ None \notin Channels /\ None \notin Actions

VARIABLES
  made,      \* how many actions were created; a later one is newer
  status,    \* the row's status, "absent" when the file has no row
  draft,     \* the row's payload
  from,      \* the row's source_channel
  due,       \* the actions whose expires_at has passed
  run,       \* each task's call of execute_pending_action
  loose,     \* effects left to a thread by a call that was cut off
  times,     \* how often an action took effect
  sentAs,    \* the payload it last took effect with
  told,      \* history: what its approvers were shown
  stranded,  \* history: actions whose call was cut off
  crashes    \* history: crashes so far

store == <<made, status, draft, from>>
world == <<loose, times, sentAs>>
vars  == <<made, status, draft, from, due, run, loose, times, sentAs, told,
           stranded, crashes>>

Called(w, a, p, b) == [at |-> w, action |-> a, payload |-> p, acted |-> b]
Idle == Called("idle", None, None, FALSE)

Init ==
  /\ made = 0
  /\ status = [a \in Actions |-> "absent"]
  /\ draft = [a \in Actions |-> None]
  /\ from = [a \in Actions |-> None]
  /\ due = {}
  /\ run = [t \in Tasks |-> Idle]
  /\ loose = {}
  /\ times = [a \in Actions |-> 0]
  /\ sentAs = [a \in Actions |-> None]
  /\ told = [a \in Actions |-> {}]
  /\ stranded = {}
  /\ crashes = 0

-----------------------------------------------------------------------------
(* The store.                                                               *)

Outdated(a) == a \in due                                         \* mutant
Stale(a)    == a \in due /\ status[a] = "pending"

(* The rows after _expire_stale_unlocked, which reading, listing and        *)
(* creating run and save.                                                   *)
Expired == [a \in Actions |-> IF Stale(a) THEN "expired" ELSE status[a]]

(* The event loop is between awaits of all its tasks: a call that has read  *)
(* its row marks it approved without an await.                              *)
LoopFree == \A t \in Tasks : run[t].at # "checked"

Create(c, p) ==
  LET a == made + 1 IN
  /\ LoopFree
  /\ a \in Actions
  /\ made' = a
  /\ status' = [Expired EXCEPT ![a] = "pending"]
  /\ draft' = [draft EXCEPT ![a] = p]
  /\ from' = [from EXCEPT ![a] = c]
  /\ UNCHANGED <<due, run, world, told, stranded, crashes>>

(* list_pending_actions and get_pending_action, from the loop or, as their  *)
(* threading lock provides for, from a thread.                              *)
Look ==
  /\ status' = Expired
  /\ UNCHANGED <<made, draft, from, due, run, world, told, stranded, crashes>>

EditableUnlessEnded(a) == status[a] \in {"pending", "approved"}  \* mutant
Editable(a)            == status[a] = "pending"

(* update_pending_payload: it neither expires the row nor renews it.        *)
Edit(a, p) ==
  /\ LoopFree /\ Editable(a)
  /\ draft' = [draft EXCEPT ![a] = p]
  /\ UNCHANGED <<made, status, from, due, run, world, told, stranded, crashes>>

RejectableUnlessEnded(a) == status[a] \in {"pending", "approved"} \* mutant
Rejectable(a)            == status[a] = "pending"

Reject(a) ==
  /\ LoopFree /\ Rejectable(a)
  /\ status' = [status EXCEPT ![a] = "rejected"]
  /\ UNCHANGED <<made, draft, from, due, run, world, told, stranded, crashes>>

(* External: an hour passes, or whatever permissions.yaml said at creation. *)
Elapse(a) ==
  /\ a <= made /\ a \notin due
  /\ due' = due \cup {a}
  /\ UNCHANGED <<store, run, world, told, stranded, crashes>>

-----------------------------------------------------------------------------
(* Approving.                                                               *)

Tell(a, word) == told' = [told EXCEPT ![a] = @ \cup {word}]

ApprovableUnlessDone(s, a) == s[a] \notin {"absent", "executed"}  \* mutant
Approvable(s, a)           == s[a] = "pending"

(* execute_pending_action up to its look at the row it read.                *)
Check(t, a) ==
  /\ status' = Expired
  /\ Approvable(Expired, a)
  /\ run' = [run EXCEPT ![t] = Called("checked", a, draft[a], FALSE)]
  /\ UNCHANGED <<made, draft, from, due, world, told, stranded, crashes>>

Ready(t) == LoopFree /\ run[t].at = "idle"

Press(b, a) == Ready(b) /\ Check(b, a)

(* The button on an action that is not pending: the answer is no HTTP       *)
(* error, so the card says "Approved and executed".                         *)
PressLate(b, a) ==
  /\ Ready(b)
  /\ Expired[a] \notin {"absent", "pending"}
  /\ status' = Expired
  /\ Tell(a, "done")
  /\ UNCHANGED <<made, draft, from, due, run, world, stranded, crashes>>

(* "go" in chat c: the newest of the channel's pending actions, or of all   *)
(* when the channel has none.                                               *)
Pending   == {a \in Actions : Expired[a] = "pending"}
Own(c)    == {a \in Pending : from[a] = c}
Choice(c) == IF Own(c) # {} THEN Own(c) ELSE Pending

Go(c) ==
  /\ Ready(c)
  /\ \E a \in Choice(c) :
       /\ \A b \in Choice(c) : b <= a
       /\ Check(c, a)

Mark(t) ==
  /\ run[t].at = "checked"
  /\ status' = [status EXCEPT ![run[t].action] = "approved"]
  /\ run' = [run EXCEPT ![t] = Called("running", run[t].action, run[t].payload, FALSE)]
  /\ UNCHANGED <<made, draft, from, due, world, told, stranded, crashes>>

Effect(a, p) ==
  /\ times' = [times EXCEPT ![a] = @ + 1]
  /\ sentAs' = [sentAs EXCEPT ![a] = p]

(* External: the executor's one call that leaves the program.               *)
Act(t) ==
  /\ LoopFree
  /\ run[t].at = "running" /\ ~ run[t].acted
  /\ Effect(run[t].action, run[t].payload)
  /\ run' = [run EXCEPT ![t] = Called("running", run[t].action, run[t].payload, TRUE)]
  /\ UNCHANGED <<store, due, loose, told, stranded, crashes>>

Ended(t)     == [run EXCEPT ![t] = Idle]

Answer(t, word) ==
  /\ Tell(run[t].action, word)
  /\ run' = Ended(t)
  /\ UNCHANGED <<made, draft, from, due, world, stranded, crashes>>

(* The executor returns, with or without its effect: a send that was        *)
(* blocked, refused or not connected returns a result as well.              *)
Return(t) ==
  /\ LoopFree /\ run[t].at = "running"
  /\ status' = [status EXCEPT ![run[t].action] = "executed"]
  /\ Answer(t, "done")

FailedWord(t) == IF t \in Buttons THEN "done" ELSE "failed"

ForgetsFailure(t) == UNCHANGED status                            \* mutant
MarkFailed(t) == status' = [status EXCEPT ![run[t].action] = "failed"]

(* The executor raises, before or after its effect, or it returned and      *)
(* capture_from_approval raises.                                            *)
Raise(t) ==
  /\ LoopFree /\ run[t].at = "running"
  /\ MarkFailed(t)
  /\ Answer(t, FailedWord(t))

(* The browser closes the chat's stream, and the generator that feeds it     *)
(* cancels the task that answers: no handler of the call catches that, and   *)
(* nobody is shown anything.  A send handed to a thread goes on.             *)
Cancel(c) ==
  LET a == run[c].action IN
  /\ LoopFree /\ run[c].at = "running"
  /\ run' = Ended(c)
  /\ stranded' = stranded \cup {a}
  /\ \/ UNCHANGED loose
     \/ ~ run[c].acted /\ loose' = loose \cup {[action |-> a, payload |-> run[c].payload]}
  /\ UNCHANGED <<store, due, times, sentAs, told, crashes>>

LateAct(x) ==
  /\ loose' = loose \ {x}
  /\ Effect(x.action, x.payload)
  /\ UNCHANGED <<store, due, run, told, stranded, crashes>>

-----------------------------------------------------------------------------
(* The daemon dies with its tasks and threads and starts again; nothing     *)
(* looks at approved rows on the way up.  A death in the middle of          *)
(* write_text leaves a file that reads as empty.                            *)
Crash ==
  /\ crashes < MaxCrashes
  /\ crashes' = crashes + 1
  /\ run' = [t \in Tasks |-> Idle]
  /\ loose' = {}
  /\ stranded' = stranded \cup {run[t].action : t \in {u \in Tasks : run[u].at = "running"}}
  /\ \/ UNCHANGED status
     \/ status' = [a \in Actions |-> "absent"]
  /\ UNCHANGED <<made, draft, from, due, times, sentAs, told>>

Next ==
  \/ \E c \in Channels, p \in Payloads : Create(c, p)
  \/ Look
  \/ \E a \in Actions, p \in Payloads : Edit(a, p)
  \/ \E a \in Actions : Reject(a) \/ Elapse(a)
  \/ \E b \in Buttons, a \in Actions : Press(b, a) \/ PressLate(b, a)
  \/ \E c \in Chats : Go(c) \/ Cancel(c)
  \/ \E t \in Tasks : Mark(t) \/ Act(t) \/ Return(t) \/ Raise(t)
  \/ \E x \in loose : LateAct(x)
  \/ Crash

Spec == Init /\ [][Next]_vars

-----------------------------------------------------------------------------
(* Properties.                                                              *)

Statuses == {"absent", "pending", "approved", "rejected", "expired", "failed", "executed"}

RowsFilled ==
  /\ \A a \in Actions : status[a] # "absent" =>
       a <= made /\ draft[a] \in Payloads /\ from[a] \in Channels
  /\ \A t \in Tasks : run[t].at # "idle" => status[run[t].action] # "absent"

(* Every variable has its type, a row has its fields, a call is about a     *)
(* row, and a task between calls keeps nothing of the one it made before.   *)
TypeOK ==
  /\ made \in 0 .. MaxActions
  /\ status \in [Actions -> Statuses]
  /\ draft \in [Actions -> Payloads \cup {None}]
  /\ from \in [Actions -> Channels \cup {None}]
  /\ RowsFilled
  /\ due \subseteq 1 .. made
  /\ run \in [Tasks -> {Idle} \cup [at : {"checked", "running"}, action : Actions,
                                    payload : Payloads, acted : BOOLEAN]]
  /\ loose \subseteq [action : Actions, payload : Payloads]
  /\ times \in [Actions -> Nat]
  /\ sentAs \in [Actions -> Payloads \cup {None}]
  /\ told \in [Actions -> SUBSET {"done", "failed"}]
  /\ stranded \subseteq Actions
  /\ crashes \in 0 .. MaxCrashes

Running(a) == \E t \in Tasks : run[t].at = "running" /\ run[t].action = a
Loose(a)   == \E x \in loose : x.action = a

(* An action takes effect at most once, however often and from wherever it  *)
(* is approved: while its first approval runs, after that failed, was cut   *)
(* off in a thread or died with the daemon (execute_pending_action).        *)
OneEffect == \A a \in Actions : times[a] <= 1

(* What took effect is what the row says: no edit slips in between the      *)
(* owner's approval and the executor, which works on a copy of the row, nor *)
(* afterwards (update_pending_payload against execute_pending_action).      *)
AsOnRecord ==
  \A a \in Actions :
    status[a] # "absent" /\ times[a] > 0 => sentAs[a] = draft[a]

(* A row that says pending, rejected or expired speaks of an action that    *)
(* never happened and that no executor or thread is about to do: an owner   *)
(* who rejects one while it runs is not shown it as rejected                *)
(* (reject_pending_action, _expire_stale_unlocked against the executor).    *)
RefusedUntouched ==
  \A a \in Actions :
    status[a] \in {"pending", "rejected", "expired"} =>
      times[a] = 0 /\ ~ Running(a) /\ ~ Loose(a)

(* A row is approved exactly while an executor works on it; one left so     *)
(* belongs to a call that a crash or a closed chat cut off                  *)
(* (execute_pending_action's handlers).                                     *)
ApprovedOwned ==
  \A a \in Actions :
    /\ Running(a) => status[a] = "approved"
    /\ status[a] = "approved" => Running(a) \/ a \in stranded

(* An outcome stays: no approval, edit, rejection or expiry changes a row   *)
(* that was rejected, executed or failed; only the loss of the file can     *)
(* (_mark_action checks no status itself).                                  *)
OutcomeFinal ==
  [][\A a \in Actions : status[a] \in {"rejected", "executed", "failed"} =>
       status'[a] \in {status[a], "absent"}]_vars

(* The dashboard's card and the answer to "go" say "Approved and executed". *)
(* They say it of actions that took effect.                                 *)
ToldDone ==
  \A a \in Actions :
    "done" \in told[a] /\ ~ Running(a) /\ ~ Loose(a) => times[a] > 0
=============================================================================
