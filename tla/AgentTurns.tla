------------------------------ MODULE AgentTurns ------------------------------
(***************************************************************************)
(* Interactive turns of the agent.  Slack events are handled side by side, *)
(* each in a task; WhatsApp messages go through a queue and one worker,    *)
(* which gives each of them 45 seconds.  A turn holds the lock of its      *)
(* chat thread, runs the agent in an OS thread and answers; "stop" sets a  *)
(* cancel flag that the turn looks at between its steps.                   *)
(*                                                                         *)
(* The coroutine of a turn (`at') and its OS thread (`run') are apart: the *)
(* WhatsApp timeout ends the first and leaves the second running.          *)
(*                                                                         *)
(* Operators marked "mutant" are mistakes the code could have made.        *)
(***************************************************************************)
EXTENDS Naturals, Sequences, FiniteSets

CONSTANTS MaxMessages,      \* bound on the messages of a behaviour
          SlackThreads,     \* threads of Slack
          Chats,            \* chats of WhatsApp, threads of their own
          QueueSize,        \* room of the inbound queue
          MaxRedeliveries,  \* bound on the deliveries beyond the first
          MaxCrashes        \* bound on the crashes of the daemon

Threads  == SlackThreads \cup Chats
Messages == 1 .. MaxMessages   \* in the order in which they are first delivered

ASSUME ConstantsAssumption ==
  /\ MaxMessages \in Nat /\ QueueSize \in Nat
  /\ MaxRedeliveries \in Nat /\ MaxCrashes \in Nat
  /\ SlackThreads \cap Chats = {}

VARIABLES
  msg,        \* the messages so far: thread and kind
  seen,       \* the messages marked as seen
  queue,      \* the inbound queue of WhatsApp
  hand,       \* the message the WhatsApp worker has in hand, or 0
  at,         \* where the coroutine of each message is
  run,        \* where the OS thread of its agent run is
  out,        \* how that thread ended
  answer,     \* what the turn is about to say
  told,       \* how many answers each message got, apologies apart
  lock,       \* the turn that holds each thread's lock, or 0
  active,     \* _active_runs: a run, Pending, or 0
  flags,      \* _cancelled_keys
  hit,        \* history: messages whose turn was under way when a stop came
  stops,      \* history: stops taken in each thread
  redelivered, crashes, \* history: how often
  torn        \* history: a crash left half a file of WhatsApp's seen ids

inbound == <<msg, seen, queue, hand>>
turn    == <<at, run, out, answer, told>>
shared  == <<lock, active, flags>>
history == <<hit, stops, redelivered, crashes, torn>>
vars    == <<inbound, turn, shared, history>>

Kinds == {"ask", "stop"}
Pending == MaxMessages + 1   \* no run's number
Made  == DOMAIN msg
T(m)  == msg[m].thread
Live  == {"starting", "sent", "streaming"}

Init ==
  /\ msg = <<>> /\ seen = {} /\ queue = <<>> /\ hand = 0
  /\ at = [m \in Messages |-> "none"]
  /\ run = [m \in Messages |-> "none"]
  /\ out = [m \in Messages |-> "none"]
  /\ answer = [m \in Messages |-> "none"]
  /\ told = [m \in Messages |-> 0]
  /\ lock = [t \in Threads |-> 0]
  /\ active = [t \in Threads |-> 0]
  /\ flags = {}
  /\ hit = {} /\ stops = [t \in Threads |-> 0]
  /\ redelivered = 0 /\ crashes = 0 /\ torn = FALSE

Go(m, where)    == at' = [at EXCEPT ![m] = where]
Say(m, what)    == answer' = [answer EXCEPT ![m] = what]
KeepsFlag(t)    == flags                                          \* mutant
Spend(t)        == flags \ {t}

-----------------------------------------------------------------------------
(* Stop.                                                                    *)

(* cancel_thread_run: the flag is set and the run forgotten, whether or not *)
(* there is one.                                                            *)
Cancel(t) ==
  /\ flags' = flags \cup {t}
  /\ active' = [active EXCEPT ![t] = 0]
  /\ hit' = hit \cup {m \in Messages : lock[t] = m}
  /\ stops' = [stops EXCEPT ![t] = @ + 1]

-----------------------------------------------------------------------------
(* Delivery.                                                                *)

(* A Slack event: dropped when it was seen, else a task of its own.         *)
Event(m, t, kind) ==
  /\ seen' = seen \cup {m}
  /\ IF kind = "stop"
     THEN /\ Cancel(t) /\ Go(m, "reply") /\ Say(m, "stopping")
     ELSE /\ Go(m, "waiting") /\ Say(m, "none")
          /\ UNCHANGED <<active, flags, hit, stops>>
  /\ UNCHANGED <<queue, hand, run, out, told, lock>>

RoomForOneMore(q) == Len(q) <= QueueSize                          \* mutant
Room(q)           == Len(q) < QueueSize

(* A webhook of the WhatsApp bridge: marked as seen first, then queued, or  *)
(* dropped when the queue is full.                                          *)
Webhook(m) ==
  /\ seen' = seen \cup {m} /\ Say(m, "none")
  /\ IF Room(queue) THEN queue' = Append(queue, m) /\ Go(m, "queued")
                    ELSE UNCHANGED queue /\ Go(m, "lost")
  /\ UNCHANGED <<hand, run, out, told, shared, hit, stops>>

Accept(m, t, kind) == IF t \in SlackThreads THEN Event(m, t, kind) ELSE Webhook(m)

Deliver(t, kind) ==
  LET m == Len(msg) + 1 IN
  /\ m \in Messages
  /\ msg' = Append(msg, [thread |-> t, kind |-> kind])
  /\ Accept(m, t, kind)
  /\ UNCHANGED <<redelivered, crashes, torn>>

(* Both services deliver again what they think was not taken.  A message    *)
(* that was seen is ignored; one whose id a restart forgot, and that was     *)
(* answered, may or may not be recognised by the conversation log.           *)
Redeliver(m) ==
  /\ m \in Made /\ m \notin seen
  /\ redelivered < MaxRedeliveries /\ redelivered' = redelivered + 1
  /\ UNCHANGED <<msg, crashes, torn>>
  /\ Accept(m, T(m), msg[m].kind)

-----------------------------------------------------------------------------
(* The WhatsApp worker.                                                     *)

(* Paused, or not from the owner: the message is at most indexed.           *)
Skip ==
  /\ hand = 0 /\ queue # <<>>
  /\ queue' = Tail(queue)
  /\ Go(Head(queue), "done")
  /\ UNCHANGED <<msg, seen, hand, run, out, answer, told, shared, history>>

Take ==
  LET m == Head(queue) IN
  /\ hand = 0 /\ queue # <<>>
  /\ queue' = Tail(queue) /\ hand' = m
  /\ IF msg[m].kind = "stop"
     THEN Cancel(T(m)) /\ Go(m, "reply") /\ Say(m, "stopping")
     ELSE Go(m, "ack") /\ UNCHANGED <<answer, active, flags, hit, stops>>
  /\ UNCHANGED <<msg, seen, run, out, told, lock, redelivered, crashes, torn>>

-----------------------------------------------------------------------------
(* A turn, in the daemon's loop.                                            *)

Stopped(m) ==
  /\ flags' = Spend(T(m))
  /\ Go(m, "reply") /\ Say(m, "stopped")

LockIgnored(t) == TRUE                                            \* mutant
LockFree(t)    == lock[t] = 0

(* Slack: the lock, first come first served, and the entry in _active_runs  *)
(* before the status is posted.                                             *)
Enter(m) ==
  /\ at[m] = "waiting" /\ LockFree(T(m)) /\ lock' = [lock EXCEPT ![T(m)] = m]
  /\ \A k \in Made : at[k] = "waiting" /\ T(k) = T(m) => m <= k
  /\ IF T(m) \in flags
     THEN Stopped(m) /\ UNCHANGED active
     ELSE /\ active' = [active EXCEPT ![T(m)] = Pending]
          /\ Go(m, "status") /\ UNCHANGED <<answer, flags>>
  /\ UNCHANGED <<inbound, run, out, told, history>>

NeverReleased(m) == lock                                          \* mutant
Released(m)      == [lock EXCEPT ![T(m)] = 0]

(* The status or the acknowledgement is out: look at the flag, then start   *)
(* the agent in a thread.  WhatsApp takes the lock here.                    *)
StartRun(m) ==
  /\ \/ at[m] = "status"
     \/ at[m] = "ack" /\ LockFree(T(m))
  /\ IF T(m) \in flags
     THEN /\ Stopped(m)
          /\ active' = [active EXCEPT ![T(m)] = 0]
          /\ lock' = Released(m) /\ UNCHANGED run
     ELSE /\ lock' = [lock EXCEPT ![T(m)] = m]
          /\ active' = [active EXCEPT ![T(m)] = IF @ = 0 THEN Pending ELSE @]
          /\ run' = [run EXCEPT ![m] = "starting"]
          /\ Go(m, "turn") /\ UNCHANGED <<answer, flags>>
  /\ UNCHANGED <<inbound, out, told, history>>

LooksAway(m)   == FALSE                                           \* mutant
StopAtEnd(m)   == out[m] = "ok" /\ T(m) \in flags

Verdict(how) ==
  IF how = "cancelled" THEN "stopped" ELSE IF how = "failed" THEN "problem" ELSE "reply"

(* The thread is done.  A flag that came too late for it still stops the    *)
(* answer, unless the run failed.                                           *)
Return(m) ==
  /\ at[m] = "turn" /\ run[m] = "ended"
  /\ run' = [run EXCEPT ![m] = "none"] /\ out' = [out EXCEPT ![m] = "none"]
  /\ lock' = Released(m)
  /\ active' = [active EXCEPT ![T(m)] = 0]
  /\ IF StopAtEnd(m) THEN Stopped(m)
     ELSE /\ Go(m, "reply")
          /\ Say(m, Verdict(out[m]))
          /\ UNCHANGED flags
  /\ UNCHANGED <<inbound, told, history>>

(* Sending may fail, which is logged and no more.  A turn that was stopped  *)
(* as it entered says so before it gives up the lock.                       *)
Reply(m) ==
  /\ at[m] = "reply"
  /\ \E sent \in {0, 1} : told' = [told EXCEPT ![m] = @ + sent]
  /\ hand' = IF hand = m THEN 0 ELSE hand
  /\ lock' = IF lock[T(m)] = m THEN Released(m) ELSE lock
  /\ Go(m, "done")
  /\ UNCHANGED <<msg, seen, queue, run, out, answer, active, flags, history>>

(* Forty-five seconds of a WhatsApp message: its coroutine is cancelled     *)
(* where it stands, the answer perhaps just out, and an apology is sent.    *)
(* The thread of the run goes on.                                           *)
Timeout(m) ==
  /\ hand = m /\ hand' = 0
  /\ Go(m, "done")
  /\ \E sent \in {0, 1} :
       told' = [told EXCEPT ![m] = IF at[m] = "reply" THEN @ + sent ELSE @]
  /\ out' = [out EXCEPT ![m] = "none"]
  /\ IF at[m] = "turn"
     THEN /\ lock' = Released(m)
          /\ active' = [active EXCEPT ![T(m)] = 0]
          /\ run' = [run EXCEPT ![m] = IF @ = "ended" THEN "none" ELSE @]
     ELSE UNCHANGED <<lock, active, run>>
  /\ UNCHANGED <<msg, seen, queue, answer, flags, history>>

-----------------------------------------------------------------------------
(* The OS thread of a run.                                                  *)

(* Nobody waits for the thread of a turn that timed out.                    *)
Ends(m, how) ==
  IF at[m] = "turn"
  THEN run' = [run EXCEPT ![m] = "ended"] /\ out' = [out EXCEPT ![m] = how]
  ELSE run' = [run EXCEPT ![m] = "none"]  /\ UNCHANGED out

(* The entry it takes away may be the "pending" of another turn.            *)
Popped(m) ==
  [active EXCEPT ![T(m)] = IF @ \in {m, Pending} THEN 0 ELSE @]

CutShort(m) == T(m) \in flags /\ flags' = Spend(T(m)) /\ Ends(m, "cancelled")

(* Agent.create or resume, then a look at the flag, then send.              *)
Send(m) ==
  /\ run[m] = "starting"
  /\ \/ CutShort(m)
     \/ T(m) \notin flags /\ run' = [run EXCEPT ![m] = "sent"] /\ UNCHANGED <<out, flags>>
     \/ Ends(m, "failed") /\ UNCHANGED flags
  /\ UNCHANGED <<inbound, at, answer, told, lock, active, history>>

Register(m) ==
  /\ run[m] = "sent"
  /\ \/ CutShort(m) /\ UNCHANGED active
     \/ /\ T(m) \notin flags
        /\ active' = [active EXCEPT ![T(m)] = m]
        /\ run' = [run EXCEPT ![m] = "streaming"] /\ UNCHANGED <<out, flags>>
     \/ Ends(m, "failed") /\ UNCHANGED <<active, flags>>
  /\ UNCHANGED <<inbound, at, answer, told, lock, history>>

(* A message of the run arrives and the flag is seen; or the run is over    *)
(* first.                                                                   *)
Finish(m) ==
  /\ run[m] = "streaming"
  /\ \/ CutShort(m)
     \/ \E how \in {"ok", "failed"} : Ends(m, how) /\ UNCHANGED flags
  /\ active' = Popped(m)
  /\ UNCHANGED <<inbound, at, answer, told, lock, history>>

-----------------------------------------------------------------------------

ForgetsAll(s) == {}                                               \* mutant
KeptSeen(s)   == {m \in s : T(m) \in Chats}

(* A crash of the daemon and its restart.  What WhatsApp messages were seen *)
(* is on file, which each new one rewrites in place: half of it, left by a  *)
(* crash, is logged and reads as nothing.                                   *)
Crash ==
  /\ crashes < MaxCrashes /\ crashes' = crashes + 1
  /\ \/ seen' = KeptSeen(seen) /\ UNCHANGED torn
     \/ Chats # {} /\ seen' = {} /\ torn' = TRUE
  /\ queue' = <<>> /\ hand' = 0
  /\ at' = [m \in Messages |-> IF at[m] \in {"none", "done"} THEN at[m] ELSE "lost"]
  /\ run' = [m \in Messages |-> "none"] /\ out' = [m \in Messages |-> "none"]
  /\ lock' = [t \in Threads |-> 0]
  /\ active' = [t \in Threads |-> 0]
  /\ flags' = {} /\ hit' = {}
  /\ UNCHANGED <<msg, answer, told, stops, redelivered>>

Environment ==
  \/ \E t \in Threads, kind \in Kinds : Deliver(t, kind)
  \/ \E m \in Made : Redeliver(m)
  \/ Crash

Daemon(m) == Enter(m) \/ StartRun(m) \/ Return(m) \/ Reply(m) \/ Timeout(m)
Agent(m)  == Send(m) \/ Register(m) \/ Finish(m)
System    == Take \/ Skip \/ \E m \in Made : Daemon(m) \/ Agent(m)

Next == System \/ Environment

Spec == Init /\ [][Next]_vars

-----------------------------------------------------------------------------
(* Properties.                                                              *)

Answers  == {"none", "reply", "stopped", "problem", "stopping"}
Outcomes == {"none", "ok", "cancelled", "failed"}
Stages   == {"none", "queued", "ack", "waiting", "status", "turn", "reply", "done", "lost"}

(* Each variable has its type, and the queue never more than its room.      *)
TypeOK ==
  /\ msg \in Seq([thread : Threads, kind : Kinds]) /\ Len(msg) <= MaxMessages
  /\ seen \subseteq Made /\ hand \in Made \cup {0}
  /\ queue \in Seq(Made) /\ Len(queue) <= QueueSize
  /\ at \in [Messages -> Stages]
  /\ run \in [Messages -> Live \cup {"none", "ended"}]
  /\ out \in [Messages -> Outcomes]
  /\ answer \in [Messages -> Answers]
  /\ told \in [Messages -> Nat]
  /\ lock \in [Threads -> Made \cup {0}]
  /\ active \in [Threads -> Messages \cup {0, Pending}]
  /\ flags \subseteq Threads /\ hit \subseteq Made
  /\ stops \in [Threads -> Nat]
  /\ redelivered \in 0 .. MaxRedeliveries /\ crashes \in 0 .. MaxCrashes
  /\ torn \in BOOLEAN

Running(t) == {m \in Made : T(m) = t /\ run[m] \in Live}

(* runner.py:27, "One active run per thread": the lock of the thread keeps  *)
(* it for Slack.  In WhatsApp a timeout lets the next run start beside one  *)
(* that goes on.                                                            *)
OneSlackRun == \A t \in SlackThreads : Cardinality(Running(t)) <= 1

(* A turn that was under way when the stop came does not answer as if       *)
(* nothing had happened, wherever the stop caught it.                       *)
StopHeard == \A m \in hit : answer[m] # "reply"

(* One stop ends one turn: no more turns are answered with "stopped" than   *)
(* stops were taken in the thread.                                          *)
StopSpent ==
  \A t \in Threads :
    Cardinality({m \in Made : T(m) = t /\ answer[m] = "stopped"}) <= stops[t]

(* A message is answered once, through any redelivery, and for WhatsApp     *)
(* through any crash that leaves the file of seen ids whole; an apology may *)
(* come with the answer.                                                    *)
OnRecord(m) == crashes = 0 \/ (T(m) \in Chats /\ ~torn)

AnsweredOnce == \A m \in Made : OnRecord(m) => told[m] <= 1

-----------------------------------------------------------------------------
(* Fairness.  The loop gets to every task and timer; runs of Slack threads  *)
(* end, which nothing bounds; those of WhatsApp need not.                   *)
Fairness ==
  /\ WF_vars(Take \/ Skip)
  /\ \A m \in Messages : /\ WF_vars(m \in Made /\ Daemon(m))
                         /\ WF_vars(m \in Made /\ T(m) \in SlackThreads /\ Agent(m))

FairSpec == Spec /\ Fairness

(* Every message that was taken is done with in the end, unless a crash or  *)
(* a full queue lost it: a turn that hangs does not block those after it    *)
(* for ever in WhatsApp, nor the lock in Slack once it ends.                *)
EveryMessageEnds ==
  \A m \in Messages : (at[m] # "none") ~> (at[m] \in {"done", "lost"})
=============================================================================
