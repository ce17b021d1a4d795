--------------------------- MODULE AgentTurnsProofs ---------------------------
(***************************************************************************)
(* Proofs about AgentTurns: for any number of messages, threads, chats,    *)
(* redeliveries and crashes, one run per Slack thread, stops that are      *)
(* heard, and one answer per message.                                      *)
(***************************************************************************)
EXTENDS AgentTurns, FiniteSetTheorems, TLAPS

(* Nothing has happened to a message that was not delivered.                *)
Untouched ==
  \A m \in Messages : m \notin Made =>
    /\ at[m] = "none" /\ run[m] = "none" /\ out[m] = "none"
    /\ answer[m] = "none" /\ told[m] = 0

(* A message is where its channel takes it: WhatsApp's in the queue, once,  *)
(* or in the worker's hand.                                                 *)
Places ==
  /\ \A m \in Made :
       /\ at[m] \in {"waiting", "status"} => T(m) \in SlackThreads
       /\ at[m] \in {"queued", "ack"} => T(m) \in Chats
       /\ at[m] \in {"ack", "turn", "reply"} /\ T(m) \in Chats => hand = m
  /\ hand # 0 => T(hand) \in Chats /\ at[hand] \in {"ack", "turn", "reply"}
  /\ \A i \in DOMAIN queue :
       T(queue[i]) \in Chats /\ at[queue[i]] = "queued"
  /\ \A i, k \in DOMAIN queue : queue[i] = queue[k] => i = k

(* A message that is under way was seen, and a WhatsApp message always      *)
(* while the file of seen ids is whole.                                     *)
Seen ==
  \A m \in Made :
    /\ at[m] # "none" /\ (m \in seen \/ at[m] \in {"done", "lost"})
    /\ OnRecord(m) => m \in seen

(* A turn holds its thread's lock, and nobody else does; an OS thread whose *)
(* end was noted is waited for.                                             *)
Locks ==
  /\ \A m \in Made :
       /\ at[m] \in {"status", "turn"} => lock[T(m)] = m
       /\ run[m] \in Live /\ T(m) \in SlackThreads => at[m] = "turn"
       /\ run[m] = "ended" => at[m] = "turn" /\ out[m] # "none"
  /\ \A t \in Threads : lock[t] # 0 =>
       /\ T(lock[t]) = t
       /\ at[lock[t]] \in IF t \in Chats THEN {"turn"} ELSE {"status", "turn", "reply"}

(* The inductive invariant of who is where.                                 *)
WhereInv == TypeOK /\ Untouched /\ Places /\ Seen /\ Locks

-----------------------------------------------------------------------------
(* Types.                                                                   *)

(* A message that was delivered has a thread.                               *)
LEMMA MadeType ==
  ASSUME TypeOK
  PROVE  /\ Made = 1 .. Len(msg) /\ Len(msg) \in Nat /\ Made \subseteq Messages
         /\ \A m \in Made : T(m) \in Threads /\ msg[m].kind \in Kinds
<1>1. /\ msg \in Seq([thread : Threads, kind : Kinds]) /\ Len(msg) <= MaxMessages
      /\ MaxMessages \in Nat
  BY ConstantsAssumption DEF TypeOK
<1>2. Made = 1 .. Len(msg) /\ Len(msg) \in Nat
  BY <1>1 DEF Made
<1>3. Made \subseteq Messages
  <2>1. Len(msg) <= MaxMessages /\ MaxMessages \in Nat
    BY <1>1
  <2> QED BY <1>2, <2>1 DEF Messages
<1>4. \A m \in Made : msg[m] \in [thread : Threads, kind : Kinds]
  <2> DEFINE R == [thread : Threads, kind : Kinds]
  <2>1. msg \in Seq(R)
    BY <1>1
  <2> HIDE DEF R
  <2>2. \A m \in Made : msg[m] \in R
    BY <2>1 DEF Made
  <2> QED BY <2>2 DEF R
<1> QED BY <1>2, <1>3, <1>4 DEF T

(* A delivery adds one message and leaves the others as they are.           *)
LEMMA MessageAdded ==
  ASSUME TypeOK, NEW t \in Threads, NEW kind \in Kinds,
         Len(msg) + 1 \in Messages,
         msg' = Append(msg, [thread |-> t, kind |-> kind])
  PROVE  /\ Made' = Made \cup {Len(msg) + 1} /\ Len(msg) + 1 \notin Made
         /\ Made' \subseteq Messages
         /\ \A m \in Made : T(m)' = T(m)
         /\ msg'[Len(msg) + 1].thread = t
         /\ msg' \in Seq([thread : Threads, kind : Kinds]) /\ Len(msg') <= MaxMessages
<1> DEFINE r == [thread |-> t, kind |-> kind]
           R == [thread : Threads, kind : Kinds]
<1>1. r \in R /\ msg \in Seq(R)
  BY DEF TypeOK
<1> HIDE DEF r, R
<1>2. /\ msg' \in Seq(R) /\ Len(msg') = Len(msg) + 1 /\ Len(msg) \in Nat
      /\ DOMAIN msg = 1 .. Len(msg) /\ DOMAIN msg' = 1 .. Len(msg) + 1
      /\ \A m \in 1 .. Len(msg) : msg'[m] = msg[m]
      /\ msg'[Len(msg) + 1] = r
  BY <1>1 DEF r
<1>3. Made' = Made \cup {Len(msg) + 1} /\ Len(msg) + 1 \notin Made
  BY <1>2 DEF Made
<1>4. Made' \subseteq Messages /\ Len(msg') <= MaxMessages
  BY <1>2, ConstantsAssumption DEF Made, Messages
<1>5. \A m \in Made : T(m)' = T(m)
  BY <1>2 DEF Made, T
<1>6. msg'[Len(msg) + 1].thread = t
  BY <1>2 DEF r
<1> QED BY <1>2, <1>3, <1>4, <1>5, <1>6 DEF R

(* The head of a queue that is not empty, and what is left of it.           *)
LEMMA QueueHead ==
  ASSUME NEW S, NEW q \in Seq(S), q # <<>>
  PROVE  /\ Head(q) \in S /\ Head(q) = q[1] /\ 1 \in DOMAIN q
         /\ Tail(q) \in Seq(S) /\ Len(Tail(q)) = Len(q) - 1
         /\ \A i \in DOMAIN Tail(q) : i + 1 \in DOMAIN q /\ Tail(q)[i] = q[i + 1] /\ i \in Nat
OBVIOUS

(* A sequence over a set is one over a larger set.                          *)
LEMMA LargerSet ==
  ASSUME NEW S, NEW R, S \subseteq R, NEW q \in Seq(S) PROVE q \in Seq(R)
OBVIOUS

(* Taking a stop, or not, keeps the types of what it touches.               *)
CancelOrNot(t) == Cancel(t) \/ UNCHANGED <<active, flags, hit, stops>>

LEMMA CancelType ==
  ASSUME TypeOK, NEW t \in Threads, CancelOrNot(t)
  PROVE  /\ flags' \subseteq Threads /\ stops' \in [Threads -> Nat]
         /\ active' \in [Threads -> Messages \cup {0, Pending}]
         /\ hit' \subseteq Made
<1>1. CASE UNCHANGED <<active, flags, hit, stops>>
  BY <1>1 DEF TypeOK
<1>2. CASE Cancel(t)
  <2>1. flags' \subseteq Threads /\ stops' \in [Threads -> Nat]
    BY <1>2 DEF Cancel, TypeOK
  <2>2. active' \in [Threads -> Messages \cup {0, Pending}]
    BY <1>2 DEF Cancel, TypeOK
  <2>3. \A k \in Messages : lock[t] = k => k \in Made
    BY MadeType, ConstantsAssumption DEF TypeOK, Messages
  <2>4. hit' \subseteq Made
    BY <1>2, <2>3 DEF Cancel, TypeOK
  <2> QED BY <2>1, <2>2, <2>4
<1> QED BY <1>1, <1>2 DEF CancelOrNot

(* A step that takes a message in keeps the types.                          *)
LEMMA AcceptType ==
  ASSUME TypeOK, NEW m \in Messages, NEW t \in Threads, NEW kind \in Kinds,
         Made \subseteq Made', m \in Made', Made' \subseteq Messages,
         msg' \in Seq([thread : Threads, kind : Kinds]), Len(msg') <= MaxMessages,
         redelivered' \in 0 .. MaxRedeliveries, UNCHANGED <<crashes, torn>>,
         Accept(m, t, kind)
  PROVE  TypeOK'
<1>1. /\ hand \in Made' \cup {0} /\ seen \cup {m} \subseteq Made'
      /\ hit \subseteq Made' /\ Len(queue) <= QueueSize
      /\ lock \in [Threads -> Made' \cup {0}]
  BY DEF TypeOK
<1>2. queue \in Seq(Made')
  BY LargerSet DEF TypeOK
<1>3. seen' \subseteq Made' /\ UNCHANGED <<hand, run, out, told, lock>>
  BY <1>1 DEF Accept, Event, Webhook, shared
<1>4. at' \in [Messages -> Stages] /\ answer' \in [Messages -> Answers]
  BY DEF Accept, Event, Webhook, Go, Say, TypeOK, Stages, Answers
<1>5. CancelOrNot(t)
  BY DEF Accept, Event, Webhook, CancelOrNot, shared
<1>6. queue' \in Seq(Made') /\ Len(queue') <= QueueSize
  <2>1. CASE queue' = queue
    BY <1>1, <1>2, <2>1
  <2>2. CASE queue' = Append(queue, m) /\ Len(queue) < QueueSize
    <3>1. Append(queue, m) \in Seq(Made') /\ Len(Append(queue, m)) = Len(queue) + 1
      BY <1>2
    <3>2. Len(queue) \in Nat
      BY <1>2
    <3> QED BY <2>2, <3>1, <3>2, ConstantsAssumption
  <2> QED BY <2>1, <2>2 DEF Accept, Event, Webhook, Room
<1>7. crashes' \in 0 .. MaxCrashes
  BY DEF TypeOK
<1>8. /\ run' \in [Messages -> Live \cup {"none", "ended"}] /\ out' \in [Messages -> Outcomes]
      /\ told' \in [Messages -> Nat] /\ lock' \in [Threads -> Made' \cup {0}]
      /\ hand' \in Made' \cup {0}
  BY <1>1, <1>3 DEF TypeOK
<1>9. /\ flags' \subseteq Threads /\ stops' \in [Threads -> Nat]
      /\ active' \in [Threads -> Messages \cup {0, Pending}] /\ hit' \subseteq Made'
  BY <1>5, CancelType
<1> QED BY <1>3, <1>4, <1>6, <1>7, <1>8, <1>9 DEF TypeOK, Pending

(* Every variable keeps its type.                                           *)
LEMMA TypeStep == TypeOK /\ [Next]_vars => TypeOK'
<1> SUFFICES ASSUME TypeOK, [Next]_vars PROVE TypeOK'
  OBVIOUS
<1> USE ConstantsAssumption, MadeType
<1>1. ASSUME NEW t \in Threads, NEW kind \in Kinds, Deliver(t, kind) PROVE TypeOK'
  BY <1>1, MessageAdded, AcceptType DEF Deliver, TypeOK
<1>2. ASSUME NEW m \in Made, Redeliver(m) PROVE TypeOK'
  <2>1. Made' = Made /\ msg' = msg
    BY <1>2 DEF Redeliver, Made
  <2>2. redelivered' \in 0 .. MaxRedeliveries /\ UNCHANGED <<crashes, torn>>
    BY <1>2 DEF Redeliver, TypeOK
  <2> QED BY <1>2, <2>1, <2>2, AcceptType DEF Redeliver, TypeOK
<1>3. CASE Crash
  <2>1. at' \in [Messages -> Stages]
    BY <1>3 DEF Crash, TypeOK, Stages
  <2>2. /\ run' \in [Messages -> Live \cup {"none", "ended"}] /\ out' \in [Messages -> Outcomes]
        /\ lock' \in [Threads -> Made \cup {0}]
        /\ active' \in [Threads -> Messages \cup {0, Pending}]
    BY <1>3 DEF Crash, Outcomes
  <2>3. /\ seen' \subseteq Made /\ hand' = 0 /\ flags' = {} /\ hit' = {}
        /\ crashes' \in 0 .. MaxCrashes
    BY <1>3 DEF Crash, KeptSeen, TypeOK
  <2>4. queue' \in Seq(Made) /\ Len(queue') = 0
    BY <1>3 DEF Crash
  <2>5. UNCHANGED <<msg, answer, told, stops, redelivered>> /\ torn' \in BOOLEAN
    BY <1>3 DEF Crash, TypeOK
  <2> QED BY <2>1, <2>2, <2>3, <2>4, <2>5 DEF TypeOK, Made
<1>4. CASE Take
  <2> DEFINE m == Head(queue)
  <2>1. m \in Made /\ Tail(queue) \in Seq(Made) /\ Len(Tail(queue)) <= QueueSize
    BY <1>4, QueueHead DEF Take, TypeOK
  <2>2. T(m) \in Threads /\ m \in Messages
    BY <2>1
  <2>3. /\ hand' = m /\ queue' = Tail(queue)
        /\ UNCHANGED <<msg, seen, run, out, told, lock, redelivered, crashes, torn>>
        /\ \/ Cancel(T(m)) /\ Go(m, "reply") /\ Say(m, "stopping")
           \/ Go(m, "ack") /\ UNCHANGED <<answer, active, flags, hit, stops>>
    BY <1>4 DEF Take
  <2> HIDE DEF m
  <2>4. at' \in [Messages -> Stages] /\ answer' \in [Messages -> Answers]
    BY <2>3 DEF Go, Say, TypeOK, Stages, Answers
  <2>5. CancelOrNot(T(m))
    BY <2>3 DEF CancelOrNot
  <2> QED BY <2>1, <2>2, <2>3, <2>4, <2>5, CancelType DEF TypeOK, Made
<1>5. CASE Skip
  <2>1. Head(queue) \in Made /\ Tail(queue) \in Seq(Made) /\ Len(Tail(queue)) <= QueueSize
    BY <1>5, QueueHead DEF Skip, TypeOK
  <2>2. at' \in [Messages -> Stages] /\ queue' = Tail(queue)
        /\ UNCHANGED <<msg, seen, hand, run, out, answer, told, shared, history>>
    BY <1>5 DEF Skip, TypeOK, Go, Stages
  <2> QED BY <2>1, <2>2 DEF TypeOK, Made, shared, history
<1>6. ASSUME NEW m \in Made, Daemon(m) \/ Agent(m) PROVE TypeOK'
  <2>0. m \in Messages /\ T(m) \in Threads
    OBVIOUS
  <2>1. CASE Enter(m)
    <3>1. at' \in [Messages -> Stages] /\ answer' \in [Messages -> Answers]
      BY <2>1 DEF Enter, Stopped, Go, Say, TypeOK, Stages, Answers
    <3>2. /\ flags' \subseteq Threads
          /\ active' \in [Threads -> Messages \cup {0, Pending}]
          /\ lock' \in [Threads -> Made \cup {0}]
      BY <2>0, <2>1 DEF Enter, Stopped, Spend, TypeOK
    <3>3. UNCHANGED <<inbound, run, out, told, history>>
      BY <2>1 DEF Enter
    <3> QED BY <3>1, <3>2, <3>3 DEF TypeOK, Made, inbound, history
  <2>2. CASE StartRun(m)
    <3>1. at' \in [Messages -> Stages] /\ answer' \in [Messages -> Answers]
      BY <2>2 DEF StartRun, Stopped, Go, Say, TypeOK, Stages, Answers
    <3>2. /\ flags' \subseteq Threads
          /\ lock' \in [Threads -> Made \cup {0}]
      <4>1. flags \subseteq Threads /\ lock \in [Threads -> Made \cup {0}]
        BY DEF TypeOK
      <4>2. flags' \in {flags, flags \ {T(m)}}
        BY <2>2 DEF StartRun, Stopped, Spend
      <4>3. \/ lock' = [lock EXCEPT ![T(m)] = 0]
            \/ lock' = [lock EXCEPT ![T(m)] = m]
        BY <2>2 DEF StartRun, Released
      <4>4. lock' \in [Threads -> Made \cup {0}]
        BY <4>1, <4>3
      <4> QED BY <4>1, <4>2, <4>4
    <3>4. active' \in [Threads -> Messages \cup {0, Pending}]
      <4>1. active \in [Threads -> Messages \cup {0, Pending}]
        BY DEF TypeOK
      <4>2. \/ active' = [active EXCEPT ![T(m)] = 0]
            \/ active' = [active EXCEPT ![T(m)] = IF @ = 0 THEN Pending ELSE @]
        BY <2>2 DEF StartRun
      <4> QED BY <2>0, <4>1, <4>2
    <3>3. UNCHANGED <<inbound, out, told, history>> /\ run' \in [Messages -> Live \cup {"none", "ended"}]
      BY <2>2 DEF StartRun, Live, TypeOK
    <3> QED BY <3>1, <3>2, <3>3, <3>4 DEF TypeOK, Made, inbound, history
  <2>3. CASE Return(m)
    <3>1. at' \in [Messages -> Stages] /\ answer' \in [Messages -> Answers]
      BY <2>3 DEF Return, Stopped, Verdict, Go, Say, TypeOK, Stages, Answers
    <3>2. /\ flags' \subseteq Threads
          /\ active' \in [Threads -> Messages \cup {0, Pending}]
          /\ lock' \in [Threads -> Made \cup {0}]
      BY <2>0, <2>3 DEF Return, Stopped, Spend, Released, TypeOK
    <3>3. /\ UNCHANGED <<inbound, told, history>>
          /\ run' \in [Messages -> Live \cup {"none", "ended"}] /\ out' \in [Messages -> Outcomes]
      BY <2>3 DEF Return, Live, Outcomes, TypeOK
    <3> QED BY <3>1, <3>2, <3>3 DEF TypeOK, Made, inbound, history
  <2>4. CASE Reply(m)
    <3>1. /\ at' \in [Messages -> Stages] /\ told' \in [Messages -> Nat]
      BY <2>0, <2>4 DEF Reply, Go, TypeOK, Stages
    <3>2. lock' \in [Threads -> Made \cup {0}] /\ hand' \in Made \cup {0}
      BY <2>4 DEF Reply, Released, TypeOK
    <3>3. UNCHANGED <<msg, seen, queue, run, out, answer, active, flags, history>>
      BY <2>4 DEF Reply
    <3> QED BY <3>1, <3>2, <3>3 DEF TypeOK, Made, history
  <2>5. CASE Timeout(m)
    <3>1. at' \in [Messages -> Stages] /\ out' \in [Messages -> Outcomes]
      BY <2>5 DEF Timeout, Go, TypeOK, Stages, Outcomes
    <3>2. told' \in [Messages -> Nat]
      BY <2>0, <2>5 DEF Timeout, TypeOK
    <3>3. /\ lock' \in [Threads -> Made \cup {0}] /\ hand' \in Made \cup {0}
          /\ active' \in [Threads -> Messages \cup {0, Pending}]
          /\ run' \in [Messages -> Live \cup {"none", "ended"}]
      BY <2>5 DEF Timeout, Released, TypeOK
    <3>4. UNCHANGED <<msg, seen, queue, answer, flags, history>>
      BY <2>5 DEF Timeout
    <3> QED BY <3>1, <3>2, <3>3, <3>4 DEF TypeOK, Made, history
  <2>6. CASE Agent(m)
    <3>1. /\ run' \in [Messages -> Live \cup {"none", "ended"}] /\ out' \in [Messages -> Outcomes]
      BY <2>6 DEF Agent, Send, Register, Finish, CutShort, Ends, Live, Outcomes, TypeOK
    <3>2. flags' \subseteq Threads /\ active' \in [Threads -> Messages \cup {0, Pending}]
      BY <2>0, <2>6 DEF Agent, Send, Register, Finish, CutShort, Spend, Popped, TypeOK
    <3>3. UNCHANGED <<inbound, at, answer, told, lock, history>>
      BY <2>6 DEF Agent, Send, Register, Finish
    <3> QED BY <3>1, <3>2, <3>3 DEF TypeOK, Made, inbound, history
  <2> QED BY <1>6, <2>1, <2>2, <2>3, <2>4, <2>5, <2>6 DEF Daemon
<1>7. CASE UNCHANGED vars
  BY <1>7 DEF vars, inbound, turn, shared, history, TypeOK, Made
<1> QED BY <1>1, <1>2, <1>3, <1>4, <1>5, <1>6, <1>7 DEF Next, System, Environment

(* Nothing has been delivered at the start.                                 *)
LEMMA InitialType == Init => TypeOK
<1> SUFFICES ASSUME Init PROVE TypeOK
  OBVIOUS
<1>1. /\ msg \in Seq([thread : Threads, kind : Kinds]) /\ Len(msg) = 0
      /\ queue \in Seq(Made) /\ Len(queue) = 0
  BY DEF Init
<1>2. /\ at \in [Messages -> Stages] /\ run \in [Messages -> Live \cup {"none", "ended"}]
      /\ out \in [Messages -> Outcomes] /\ answer \in [Messages -> Answers]
      /\ told \in [Messages -> Nat] /\ lock \in [Threads -> Made \cup {0}]
      /\ active \in [Threads -> Messages \cup {0, Pending}] /\ stops \in [Threads -> Nat]
  BY DEF Init, Stages, Outcomes, Answers
<1>3. /\ seen \subseteq Made /\ hand \in Made \cup {0} /\ flags \subseteq Threads
      /\ hit \subseteq Made /\ torn \in BOOLEAN
  BY DEF Init
<1>4. redelivered \in 0 .. MaxRedeliveries /\ crashes \in 0 .. MaxCrashes
  BY ConstantsAssumption DEF Init
<1> QED
  BY <1>1, <1>2, <1>3, <1>4, ConstantsAssumption DEF TypeOK

(* THE TYPE INVARIANT: every variable keeps its type, and WhatsApp's queue  *)
(* never holds more than its room, whatever is delivered, redelivered,      *)
(* stopped, timed out or lost in a crash (inbound_queue.py, runner.py).     *)
THEOREM TypeCorrect == Spec => []TypeOK
<1>1. Init => TypeOK
  BY InitialType
<1>2. TypeOK /\ [Next]_vars => TypeOK'
  BY TypeStep
<1> QED BY <1>1, <1>2, PTL DEF Spec

-----------------------------------------------------------------------------
(* Who is where.                                                            *)

LEMMA EnterWhere ==
  ASSUME WhereInv, NEW m \in Made, Enter(m) PROVE Untouched' /\ Places' /\ Seen' /\ Locks'
<1>0. /\ TypeOK /\ m \in Messages /\ Made \subseteq Messages /\ T(m) \in Threads
      /\ \A k \in Made : T(k) \in Threads /\ k # 0
  <2>1. 0 \notin Messages /\ TypeOK
    BY ConstantsAssumption DEF Messages, WhereInv
  <2> QED BY <2>1, MadeType
<1>1. Made' = Made /\ msg' = msg
  BY DEF Enter, Made, inbound, history
<1>e. /\ at[m] = "waiting" /\ T(m) \in SlackThreads /\ lock[T(m)] = 0
      /\ lock' = [lock EXCEPT ![T(m)] = m]
      /\ at' \in {[at EXCEPT ![m] = "reply"], [at EXCEPT ![m] = "status"]}
      /\ UNCHANGED <<queue, hand, run, out>>
  BY <1>0 DEF WhereInv, Places, Enter, Stopped, Go, LockFree, inbound
<1>2. Untouched'
  BY <1>0, <1>1 DEF WhereInv, TypeOK, Untouched, Answers, Enter, Stopped, Go, Say, LockFree, inbound, history
<1>3. Places'
  <2>1. /\ \A k \in Made : at[k] \in {"waiting", "status"} => T(k) \in SlackThreads
        /\ \A k \in Made : at[k] \in {"queued", "ack"} => T(k) \in Chats
        /\ \A k \in Made : at[k] \in {"ack", "turn", "reply"} /\ T(k) \in Chats => hand = k
        /\ hand # 0 => T(hand) \in Chats /\ at[hand] \in {"ack", "turn", "reply"}
    BY DEF WhereInv, Places
  <2>2. \A k \in Made :
          /\ at'[k] \in {"waiting", "status"} => T(k) \in SlackThreads
          /\ at'[k] \in {"queued", "ack"} => T(k) \in Chats
          /\ at'[k] \in {"ack", "turn", "reply"} /\ T(k) \in Chats => hand' = k
    BY <1>0, <1>e, <2>1, ConstantsAssumption DEF TypeOK
  <2>3. hand' # 0 => T(hand') \in Chats /\ at'[hand'] \in {"ack", "turn", "reply"}
    BY <1>0, <1>e, <2>1, ConstantsAssumption DEF TypeOK
  <2>4. at[m] # "queued" /\ queue' = queue
    BY <1>e
  <2>5. \A i \in DOMAIN queue : at'[queue[i]] = "queued"
    BY <1>0, <1>e, <2>4 DEF WhereInv, TypeOK, Places
  <2> QED BY <1>1, <2>2, <2>3, <2>4, <2>5 DEF WhereInv, Places, T
<1>4. Seen'
  BY <1>0, <1>1 DEF OnRecord, WhereInv, TypeOK, Seen, T, Enter, Stopped, Go, LockFree, inbound, history
<1>5. Locks'
  <2>1. /\ \A k \in Made : at[k] \in {"status", "turn"} => lock[T(k)] = k
        /\ \A k \in Made : run[k] \in Live /\ T(k) \in SlackThreads => at[k] = "turn"
        /\ \A k \in Made : run[k] = "ended" => at[k] = "turn" /\ out[k] # "none"
        /\ \A t \in Threads : lock[t] # 0 =>
             /\ lock[t] \in Made /\ T(lock[t]) = t
             /\ at[lock[t]] \in IF t \in Chats THEN {"turn"} ELSE {"status", "turn", "reply"}
    BY DEF WhereInv, Locks, TypeOK
  <2>2. \A k \in Made : at'[k] \in {"status", "turn"} => lock'[T(k)] = k
    BY <1>0, <1>e, <2>1, ConstantsAssumption DEF TypeOK
  <2>3. \A k \in Made :
          /\ run'[k] \in Live /\ T(k) \in SlackThreads => at'[k] = "turn"
          /\ run'[k] = "ended" => at'[k] = "turn" /\ out'[k] # "none"
    BY <1>0, <1>e, <2>1, ConstantsAssumption DEF TypeOK, Live
  <2>4. \A t \in Threads : lock'[t] # 0 =>
          /\ T(lock'[t]) = t
          /\ at'[lock'[t]] \in IF t \in Chats THEN {"turn"} ELSE {"status", "turn", "reply"}
    BY <1>0, <1>e, <2>1, ConstantsAssumption DEF TypeOK, Threads
  <2> QED BY <1>1, <2>2, <2>3, <2>4 DEF Locks, T
<1> QED BY <1>2, <1>3, <1>4, <1>5

LEMMA StartRunWhere ==
  ASSUME WhereInv, NEW m \in Made, StartRun(m) PROVE Untouched' /\ Places' /\ Seen' /\ Locks'
<1>0. /\ TypeOK /\ m \in Messages /\ Made \subseteq Messages /\ T(m) \in Threads
      /\ \A k \in Made : T(k) \in Threads /\ k # 0
  <2>1. 0 \notin Messages /\ TypeOK
    BY ConstantsAssumption DEF Messages, WhereInv
  <2> QED BY <2>1, MadeType
<1>1. Made' = Made /\ msg' = msg
  BY DEF StartRun, Made, inbound, history
<1>e. /\ at[m] = "status" \/ (at[m] = "ack" /\ lock[T(m)] = 0)
      /\ \/ /\ lock' = [lock EXCEPT ![T(m)] = 0] /\ run' = run
            /\ at' = [at EXCEPT ![m] = "reply"]
         \/ /\ lock' = [lock EXCEPT ![T(m)] = m] /\ run' = [run EXCEPT ![m] = "starting"]
            /\ at' = [at EXCEPT ![m] = "turn"]
      /\ UNCHANGED <<queue, hand, out>>
  <2>1. /\ at[m] = "status" \/ (at[m] = "ack" /\ lock[T(m)] = 0)
        /\ UNCHANGED <<queue, hand, out>>
    <3>1. at[m] = "status" \/ (at[m] = "ack" /\ LockFree(T(m)))
      BY DEF StartRun
    <3>2. UNCHANGED <<inbound, out>>
      BY DEF StartRun
    <3> QED BY <3>1, <3>2 DEF LockFree, inbound
  <2>2. CASE T(m) \in flags
    BY <2>1, <2>2 DEF StartRun, Stopped, Go, Released
  <2>3. CASE T(m) \notin flags
    BY <2>1, <2>3 DEF StartRun, Go
  <2> QED BY <2>1, <2>2, <2>3
<1>2. Untouched'
  BY <1>0, <1>1 DEF WhereInv, TypeOK, Untouched, Answers, StartRun, Stopped, Go, Say, LockFree, Released, inbound, history
<1>3. Places'
  <2>1. /\ \A k \in Made : at[k] \in {"waiting", "status"} => T(k) \in SlackThreads
        /\ \A k \in Made : at[k] \in {"queued", "ack"} => T(k) \in Chats
        /\ \A k \in Made : at[k] \in {"ack", "turn", "reply"} /\ T(k) \in Chats => hand = k
        /\ hand # 0 => T(hand) \in Chats /\ at[hand] \in {"ack", "turn", "reply"}
    BY DEF WhereInv, Places
  <2>2. \A k \in Made :
          /\ at'[k] \in {"waiting", "status"} => T(k) \in SlackThreads
          /\ at'[k] \in {"queued", "ack"} => T(k) \in Chats
          /\ at'[k] \in {"ack", "turn", "reply"} /\ T(k) \in Chats => hand' = k
    BY <1>0, <1>e, <2>1, ConstantsAssumption DEF TypeOK
  <2>3. hand' # 0 => T(hand') \in Chats /\ at'[hand'] \in {"ack", "turn", "reply"}
    BY <1>0, <1>e, <2>1, ConstantsAssumption DEF TypeOK
  <2>4. at[m] # "queued" /\ queue' = queue
    BY <1>e
  <2>5. \A i \in DOMAIN queue : at'[queue[i]] = "queued"
    BY <1>0, <1>e, <2>4 DEF WhereInv, TypeOK, Places
  <2> QED BY <1>1, <2>2, <2>3, <2>4, <2>5 DEF WhereInv, Places, T
<1>4. Seen'
  BY <1>0, <1>1 DEF OnRecord, WhereInv, TypeOK, Seen, T, StartRun, Stopped, Go, LockFree, Released, inbound, history
<1>5. Locks'
  <2> DEFINE Off == /\ lock' = [lock EXCEPT ![T(m)] = 0] /\ run' = run
                    /\ at' = [at EXCEPT ![m] = "reply"]
             On == /\ lock' = [lock EXCEPT ![T(m)] = m] /\ run' = [run EXCEPT ![m] = "starting"]
                   /\ at' = [at EXCEPT ![m] = "turn"]
  <2>1. /\ \A k \in Made : at[k] \in {"status", "turn"} => lock[T(k)] = k
        /\ \A k \in Made : run[k] \in Live /\ T(k) \in SlackThreads => at[k] = "turn"
        /\ \A k \in Made : run[k] = "ended" => at[k] = "turn" /\ out[k] # "none"
        /\ \A t \in Threads : lock[t] # 0 =>
             /\ lock[t] \in Made /\ T(lock[t]) = t
             /\ at[lock[t]] \in IF t \in Chats THEN {"turn"} ELSE {"status", "turn", "reply"}
    BY DEF WhereInv, Locks, TypeOK
  <2>2. \A k \in Made : at'[k] \in {"status", "turn"} => lock'[T(k)] = k
    <3> SUFFICES ASSUME NEW k \in Made, at'[k] \in {"status", "turn"} PROVE lock'[T(k)] = k
      OBVIOUS
    <3>1. /\ at \in [Messages -> Stages] /\ lock \in [Threads -> Made \cup {0}]
          /\ k \in Messages /\ T(k) \in Threads /\ k # 0 /\ m # 0
      BY <1>0 DEF TypeOK
    <3>2. k # m => at[k] \in {"status", "turn"} /\ lock[T(k)] = k /\ T(k) # T(m)
      <4>1. k # m => at[k] \in {"status", "turn"}
        BY <1>0, <1>e, <3>1
      <4>2. lock[T(m)] \in {0, m}
        BY <1>e, <2>1
      <4> QED BY <2>1, <3>1, <4>1, <4>2
    <3>3. CASE Off
      BY <1>0, <3>1, <3>2, <3>3
    <3>4. CASE On
      BY <1>0, <3>1, <3>2, <3>4
    <3> QED BY <1>e, <3>3, <3>4
  <2>3. \A k \in Made :
          /\ run'[k] \in Live /\ T(k) \in SlackThreads => at'[k] = "turn"
          /\ run'[k] = "ended" => at'[k] = "turn" /\ out'[k] # "none"
    BY <1>0, <1>e, <2>1, ConstantsAssumption DEF TypeOK, Live
  <2>4. \A t \in Threads : lock'[t] # 0 =>
          /\ T(lock'[t]) = t
          /\ at'[lock'[t]] \in IF t \in Chats THEN {"turn"} ELSE {"status", "turn", "reply"}
    <3> SUFFICES ASSUME NEW t \in Threads, lock'[t] # 0
                 PROVE  /\ T(lock'[t]) = t
                        /\ at'[lock'[t]] \in IF t \in Chats THEN {"turn"} ELSE {"status", "turn", "reply"}
      OBVIOUS
    <3>1. at \in [Messages -> Stages] /\ lock \in [Threads -> Made \cup {0}]
      BY DEF TypeOK, WhereInv
    <3>2. CASE Off
      BY <1>0, <2>1, <3>1, <3>2
    <3>3. CASE On
      BY <1>0, <2>1, <3>1, <3>3
    <3> QED BY <1>e, <3>2, <3>3
  <2> QED BY <1>1, <2>2, <2>3, <2>4 DEF Locks, T
<1> QED BY <1>2, <1>3, <1>4, <1>5

LEMMA ReturnWhere ==
  ASSUME WhereInv, NEW m \in Made, Return(m) PROVE Untouched' /\ Places' /\ Seen' /\ Locks'
<1>0. /\ TypeOK /\ m \in Messages /\ Made \subseteq Messages /\ T(m) \in Threads
      /\ \A k \in Made : T(k) \in Threads /\ k # 0
  <2>1. 0 \notin Messages /\ TypeOK
    BY ConstantsAssumption DEF Messages, WhereInv
  <2> QED BY <2>1, MadeType
<1>1. Made' = Made /\ msg' = msg
  BY DEF Return, Made, inbound, history
<1>2. Untouched'
  BY <1>0, <1>1 DEF WhereInv, TypeOK, Untouched, Answers, Return, Stopped, Go, Say, Released, inbound, history
<1>3. Places'
  BY <1>0, <1>1 DEF WhereInv, TypeOK, Places, T, Return, Stopped, Go, Released, inbound, history
<1>4. Seen'
  BY <1>0, <1>1 DEF OnRecord, WhereInv, TypeOK, Seen, T, Return, Stopped, Go, Released, inbound, history
<1>5. Locks'
  BY <1>0, <1>1, ConstantsAssumption DEF WhereInv, TypeOK, Places, Locks, T, Live, Threads, Return, Stopped, Go, Released, inbound, history
<1> QED BY <1>2, <1>3, <1>4, <1>5

LEMMA ReplyWhere ==
  ASSUME WhereInv, NEW m \in Made, Reply(m) PROVE Untouched' /\ Places' /\ Seen' /\ Locks'
<1>0. /\ TypeOK /\ m \in Messages /\ Made \subseteq Messages /\ T(m) \in Threads
      /\ \A k \in Made : T(k) \in Threads /\ k # 0
  <2>1. 0 \notin Messages /\ TypeOK
    BY ConstantsAssumption DEF Messages, WhereInv
  <2> QED BY <2>1, MadeType
<1>1. Made' = Made /\ msg' = msg
  BY DEF Reply, Made, history
<1>e. /\ at[m] = "reply" /\ at' = [at EXCEPT ![m] = "done"]
      /\ lock' = IF lock[T(m)] = m THEN [lock EXCEPT ![T(m)] = 0] ELSE lock
      /\ hand' = IF hand = m THEN 0 ELSE hand
      /\ UNCHANGED <<queue, run, out>>
  BY <1>0 DEF Reply, Go, Released
<1>2. Untouched'
  BY <1>0, <1>1 DEF WhereInv, TypeOK, Untouched, Answers, Reply, Go, Say, Released, history
<1>3. Places'
  <2>1. /\ \A k \in Made : at[k] \in {"waiting", "status"} => T(k) \in SlackThreads
        /\ \A k \in Made : at[k] \in {"queued", "ack"} => T(k) \in Chats
        /\ \A k \in Made : at[k] \in {"ack", "turn", "reply"} /\ T(k) \in Chats => hand = k
        /\ hand # 0 => T(hand) \in Chats /\ at[hand] \in {"ack", "turn", "reply"}
    BY DEF WhereInv, Places
  <2>2. \A k \in Made :
          /\ at'[k] \in {"waiting", "status"} => T(k) \in SlackThreads
          /\ at'[k] \in {"queued", "ack"} => T(k) \in Chats
          /\ at'[k] \in {"ack", "turn", "reply"} /\ T(k) \in Chats => hand' = k
    BY <1>0, <1>e, <2>1, ConstantsAssumption DEF TypeOK
  <2>3. hand' # 0 => T(hand') \in Chats /\ at'[hand'] \in {"ack", "turn", "reply"}
    BY <1>0, <1>e, <2>1, ConstantsAssumption DEF TypeOK
  <2>4. at[m] # "queued" /\ queue' = queue
    BY <1>e
  <2>5. \A i \in DOMAIN queue : at'[queue[i]] = "queued"
    BY <1>0, <1>e, <2>4 DEF WhereInv, TypeOK, Places
  <2> QED BY <1>1, <2>2, <2>3, <2>4, <2>5 DEF WhereInv, Places, T
<1>4. Seen'
  BY <1>0, <1>1 DEF OnRecord, WhereInv, TypeOK, Seen, T, Reply, Go, Released, history
<1>5. Locks'
  <2>1. /\ \A k \in Made : at[k] \in {"status", "turn"} => lock[T(k)] = k
        /\ \A k \in Made : run[k] \in Live /\ T(k) \in SlackThreads => at[k] = "turn"
        /\ \A k \in Made : run[k] = "ended" => at[k] = "turn" /\ out[k] # "none"
        /\ \A t \in Threads : lock[t] # 0 =>
             /\ lock[t] \in Made /\ T(lock[t]) = t
             /\ at[lock[t]] \in IF t \in Chats THEN {"turn"} ELSE {"status", "turn", "reply"}
    BY DEF WhereInv, Locks, TypeOK
  <2>2. \A k \in Made : at'[k] \in {"status", "turn"} => lock'[T(k)] = k
    BY <1>0, <1>e, <2>1, ConstantsAssumption DEF TypeOK
  <2>3. \A k \in Made :
          /\ run'[k] \in Live /\ T(k) \in SlackThreads => at'[k] = "turn"
          /\ run'[k] = "ended" => at'[k] = "turn" /\ out'[k] # "none"
    BY <1>0, <1>e, <2>1, ConstantsAssumption DEF TypeOK, Live
  <2>4. \A t \in Threads : lock'[t] # 0 =>
          /\ T(lock'[t]) = t
          /\ at'[lock'[t]] \in IF t \in Chats THEN {"turn"} ELSE {"status", "turn", "reply"}
    BY <1>0, <1>e, <2>1, ConstantsAssumption DEF TypeOK, Threads
  <2> QED BY <1>1, <2>2, <2>3, <2>4 DEF Locks, T
<1> QED BY <1>2, <1>3, <1>4, <1>5

LEMMA TimeoutWhere ==
  ASSUME WhereInv, NEW m \in Made, Timeout(m) PROVE Untouched' /\ Places' /\ Seen' /\ Locks'
<1>0. /\ TypeOK /\ m \in Messages /\ Made \subseteq Messages /\ T(m) \in Threads
      /\ \A k \in Made : T(k) \in Threads /\ k # 0
  <2>1. 0 \notin Messages /\ TypeOK
    BY ConstantsAssumption DEF Messages, WhereInv
  <2> QED BY <2>1, MadeType
<1>1. Made' = Made /\ msg' = msg
  BY DEF Timeout, Made, history
<1>e. /\ hand = m /\ hand' = 0 /\ at' = [at EXCEPT ![m] = "done"]
      /\ out' = [out EXCEPT ![m] = "none"] /\ T(m) \in Chats
      /\ \/ /\ at[m] = "turn" /\ lock' = [lock EXCEPT ![T(m)] = 0]
            /\ run' = [run EXCEPT ![m] = IF @ = "ended" THEN "none" ELSE @]
         \/ /\ at[m] # "turn" /\ lock' = lock /\ run' = run
      /\ at[m] # "queued" /\ queue' = queue
  BY <1>0 DEF WhereInv, Places, Timeout, Go, Released, TypeOK, Messages
<1>2. Untouched'
  BY <1>0, <1>1 DEF WhereInv, TypeOK, Untouched, Answers, Timeout, Go, Say, Released, history
<1>3. Places'
  <2>1. /\ \A k \in Made : at[k] \in {"waiting", "status"} => T(k) \in SlackThreads
        /\ \A k \in Made : at[k] \in {"queued", "ack"} => T(k) \in Chats
        /\ \A k \in Made : at[k] \in {"ack", "turn", "reply"} /\ T(k) \in Chats => hand = k
        /\ hand # 0 => T(hand) \in Chats /\ at[hand] \in {"ack", "turn", "reply"}
    BY DEF WhereInv, Places
  <2>2. \A k \in Made :
          /\ at'[k] \in {"waiting", "status"} => T(k) \in SlackThreads
          /\ at'[k] \in {"queued", "ack"} => T(k) \in Chats
          /\ at'[k] \in {"ack", "turn", "reply"} /\ T(k) \in Chats => hand' = k
    BY <1>0, <1>e, <2>1, ConstantsAssumption DEF TypeOK
  <2>3. hand' # 0 => T(hand') \in Chats /\ at'[hand'] \in {"ack", "turn", "reply"}
    BY <1>0, <1>e, <2>1, ConstantsAssumption DEF TypeOK
  <2>4. at[m] # "queued" /\ queue' = queue
    BY <1>e
  <2>5. \A i \in DOMAIN queue : at'[queue[i]] = "queued"
    BY <1>0, <1>e, <2>4 DEF WhereInv, TypeOK, Places
  <2> QED BY <1>1, <2>2, <2>3, <2>4, <2>5 DEF WhereInv, Places, T
<1>4. Seen'
  BY <1>0, <1>1 DEF OnRecord, WhereInv, TypeOK, Seen, T, Timeout, Go, Released, history
<1>5. Locks'
  <2>1. /\ \A k \in Made : at[k] \in {"status", "turn"} => lock[T(k)] = k
        /\ \A k \in Made : run[k] \in Live /\ T(k) \in SlackThreads => at[k] = "turn"
        /\ \A k \in Made : run[k] = "ended" => at[k] = "turn" /\ out[k] # "none"
        /\ \A t \in Threads : lock[t] # 0 =>
             /\ lock[t] \in Made /\ T(lock[t]) = t
             /\ at[lock[t]] \in IF t \in Chats THEN {"turn"} ELSE {"status", "turn", "reply"}
    BY DEF WhereInv, Locks, TypeOK
  <2>2. \A k \in Made : at'[k] \in {"status", "turn"} => lock'[T(k)] = k
    BY <1>0, <1>e, <2>1, ConstantsAssumption DEF TypeOK
  <2>3. \A k \in Made :
          /\ run'[k] \in Live /\ T(k) \in SlackThreads => at'[k] = "turn"
          /\ run'[k] = "ended" => at'[k] = "turn" /\ out'[k] # "none"
    BY <1>0, <1>e, <2>1, ConstantsAssumption DEF TypeOK, Live
  <2>4. \A t \in Threads : lock'[t] # 0 =>
          /\ T(lock'[t]) = t
          /\ at'[lock'[t]] \in IF t \in Chats THEN {"turn"} ELSE {"status", "turn", "reply"}
    <3> SUFFICES ASSUME NEW t \in Threads, lock'[t] # 0
                 PROVE  /\ T(lock'[t]) = t
                        /\ at'[lock'[t]] \in IF t \in Chats THEN {"turn"} ELSE {"status", "turn", "reply"}
      OBVIOUS
    <3>1. at \in [Messages -> Stages] /\ lock \in [Threads -> Made \cup {0}]
      BY DEF TypeOK, WhereInv
    <3>2. lock'[t] = lock[t] /\ lock[t] # m
      BY <1>0, <1>e, <2>1, <3>1
    <3> QED BY <1>0, <1>e, <2>1, <3>1, <3>2
  <2> QED BY <1>1, <2>2, <2>3, <2>4 DEF Locks, T
<1> QED BY <1>2, <1>3, <1>4, <1>5

LEMMA SendWhere ==
  ASSUME WhereInv, NEW m \in Made, Send(m) PROVE Untouched' /\ Places' /\ Seen' /\ Locks'
<1>0. /\ TypeOK /\ m \in Messages /\ Made \subseteq Messages /\ T(m) \in Threads
      /\ \A k \in Made : T(k) \in Threads /\ k # 0
  <2>1. 0 \notin Messages /\ TypeOK
    BY ConstantsAssumption DEF Messages, WhereInv
  <2> QED BY <2>1, MadeType
<1>1. Made' = Made /\ msg' = msg
  BY DEF Send, Made, inbound, history
<1>2. Untouched'
  BY <1>0, <1>1 DEF WhereInv, TypeOK, Untouched, Answers, Send, CutShort, Ends, Say, inbound, history
<1>3. Places'
  BY <1>0, <1>1 DEF WhereInv, TypeOK, Places, T, Send, CutShort, Ends, inbound, history
<1>4. Seen'
  BY <1>0, <1>1 DEF OnRecord, WhereInv, TypeOK, Seen, T, Send, CutShort, Ends, inbound, history
<1>5. Locks'
  BY <1>0, <1>1, ConstantsAssumption DEF WhereInv, TypeOK, Places, Locks, T, Live, Threads, Send, CutShort, Ends, inbound, history
<1> QED BY <1>2, <1>3, <1>4, <1>5

LEMMA RegisterWhere ==
  ASSUME WhereInv, NEW m \in Made, Register(m) PROVE Untouched' /\ Places' /\ Seen' /\ Locks'
<1>0. /\ TypeOK /\ m \in Messages /\ Made \subseteq Messages /\ T(m) \in Threads
      /\ \A k \in Made : T(k) \in Threads /\ k # 0
  <2>1. 0 \notin Messages /\ TypeOK
    BY ConstantsAssumption DEF Messages, WhereInv
  <2> QED BY <2>1, MadeType
<1>1. Made' = Made /\ msg' = msg
  BY DEF Register, Made, inbound, history
<1>2. Untouched'
  BY <1>0, <1>1 DEF WhereInv, TypeOK, Untouched, Answers, Register, CutShort, Ends, Say, inbound, history
<1>3. Places'
  BY <1>0, <1>1 DEF WhereInv, TypeOK, Places, T, Register, CutShort, Ends, inbound, history
<1>4. Seen'
  BY <1>0, <1>1 DEF OnRecord, WhereInv, TypeOK, Seen, T, Register, CutShort, Ends, inbound, history
<1>5. Locks'
  BY <1>0, <1>1, ConstantsAssumption DEF WhereInv, TypeOK, Places, Locks, T, Live, Threads, Register, CutShort, Ends, inbound, history
<1> QED BY <1>2, <1>3, <1>4, <1>5

LEMMA FinishWhere ==
  ASSUME WhereInv, NEW m \in Made, Finish(m) PROVE Untouched' /\ Places' /\ Seen' /\ Locks'
<1>0. /\ TypeOK /\ m \in Messages /\ Made \subseteq Messages /\ T(m) \in Threads
      /\ \A k \in Made : T(k) \in Threads /\ k # 0
  <2>1. 0 \notin Messages /\ TypeOK
    BY ConstantsAssumption DEF Messages, WhereInv
  <2> QED BY <2>1, MadeType
<1>1. Made' = Made /\ msg' = msg
  BY DEF Finish, Made, inbound, history
<1>2. Untouched'
  BY <1>0, <1>1 DEF WhereInv, TypeOK, Untouched, Answers, Finish, CutShort, Ends, Say, inbound, history
<1>3. Places'
  BY <1>0, <1>1 DEF WhereInv, TypeOK, Places, T, Finish, CutShort, Ends, inbound, history
<1>4. Seen'
  BY <1>0, <1>1 DEF OnRecord, WhereInv, TypeOK, Seen, T, Finish, CutShort, Ends, inbound, history
<1>5. Locks'
  BY <1>0, <1>1, ConstantsAssumption DEF WhereInv, TypeOK, Places, Locks, T, Live, Threads, Finish, CutShort, Ends, inbound, history
<1> QED BY <1>2, <1>3, <1>4, <1>5

(* A delivery that is taken in: of a new message, or of one that the crash  *)
(* made the daemon forget.                                                  *)
LEMMA AcceptWhere ==
  ASSUME WhereInv, NEW m \in Messages, NEW t \in Threads, NEW kind \in Kinds,
         m \in Made => m \notin seen /\ T(m) = t,
         Made' = Made \cup {m}, \A k \in Made : T(k)' = T(k), msg'[m].thread = t,
         UNCHANGED <<crashes, torn>>, Accept(m, t, kind)
  PROVE  Untouched' /\ Places' /\ Seen' /\ Locks'
<1>0. /\ TypeOK /\ Made \subseteq Messages
      /\ \A k \in Made : T(k) \in Threads /\ k # 0
      /\ m # 0 /\ T(m)' = t /\ \A k \in Made' : k \in Messages /\ k # 0 /\ (k = m \/ k \in Made)
  <2>1. 0 \notin Messages /\ TypeOK
    BY ConstantsAssumption DEF Messages, WhereInv
  <2> QED BY <2>1, MadeType DEF T
<1>1. /\ at[m] \in {"none", "done", "lost"} /\ (m \in Made => ~OnRecord(m))
      /\ run[m] # "ended" /\ (t \in SlackThreads => run[m] \notin Live)
      /\ hand # m /\ \A x \in Threads : lock[x] # m
  <2>1. CASE m \notin Made
    <3>1. at[m] = "none" /\ run[m] = "none"
      BY <2>1 DEF WhereInv, Untouched
    <3> QED BY <1>0, <2>1, <3>1 DEF TypeOK, Live
  <2>2. CASE m \in Made
    <3>1. at[m] \in {"done", "lost"} /\ ~OnRecord(m)
      BY <2>2 DEF OnRecord, WhereInv, Seen
    <3>2. hand # m /\ run[m] # "ended" /\ (t \in SlackThreads => run[m] \notin Live)
      BY <1>0, <2>2, <3>1 DEF WhereInv, Places, Locks
    <3>3. \A x \in Threads : lock[x] # m
      BY <1>0, <3>1 DEF WhereInv, Locks
    <3> QED BY <2>2, <3>1, <3>2, <3>3
  <2> QED BY <2>1, <2>2
<1>2. /\ seen' = seen \cup {m} /\ UNCHANGED <<hand, run, out, told, lock>>
      /\ \E a \in Answers : answer' = [answer EXCEPT ![m] = a]
      /\ \/ /\ t \in SlackThreads /\ queue' = queue
            /\ \E x \in {"reply", "waiting"} : at' = [at EXCEPT ![m] = x]
         \/ /\ t \in Chats /\ queue' = Append(queue, m) /\ at' = [at EXCEPT ![m] = "queued"]
         \/ /\ t \in Chats /\ queue' = queue /\ at' = [at EXCEPT ![m] = "lost"]
  <2>1. CASE t \in SlackThreads
    <3>1. Event(m, t, kind)
      BY <2>1 DEF Accept
    <3>2. answer' \in {[answer EXCEPT ![m] = "stopping"], [answer EXCEPT ![m] = "none"]}
      BY <3>1 DEF Event, Say
    <3> QED BY <2>1, <3>1, <3>2 DEF Event, Go, Answers
  <2>2. CASE t \notin SlackThreads
    <3>1. Webhook(m) /\ t \in Chats
      BY <2>2 DEF Accept, Threads
    <3> QED BY <3>1 DEF Webhook, Go, Say, Answers, shared
  <2> QED BY <2>1, <2>2
<1>3. \A k \in Made : k # m => at'[k] = at[k] /\ T(k)' = T(k)
  BY <1>0, <1>2 DEF TypeOK
<1>4. Untouched'
  <2> SUFFICES ASSUME NEW k \in Messages, k \notin Made'
               PROVE  /\ at'[k] = "none" /\ run'[k] = "none" /\ out'[k] = "none"
                      /\ answer'[k] = "none" /\ told'[k] = 0
    BY DEF Untouched
  <2>1. k # m /\ at'[k] = at[k] /\ answer'[k] = answer[k]
    BY <1>0, <1>2 DEF TypeOK
  <2> QED BY <1>2, <2>1 DEF WhereInv, Untouched
<1>5. at'[m] = "waiting" => t \in SlackThreads
  BY <1>0, <1>2 DEF TypeOK
<1>6. at'[m] = "queued" => t \in Chats
  BY <1>0, <1>2 DEF TypeOK
<1>7. at'[m] \in {"reply", "waiting", "queued", "lost"} /\ (at'[m] = "reply" => t \notin Chats)
  BY <1>0, <1>2, ConstantsAssumption DEF TypeOK
<1>8. Places'
  <2>1. \A k \in Made' :
       /\ at'[k] \in {"waiting", "status"} => T(k)' \in SlackThreads
       /\ at'[k] \in {"queued", "ack"} => T(k)' \in Chats
       /\ at'[k] \in {"ack", "turn", "reply"} /\ T(k)' \in Chats => hand' = k
    BY <1>0, <1>2, <1>3, <1>5, <1>6, <1>7 DEF WhereInv, Places
  <2>2. hand' # 0 => T(hand)' \in Chats /\ at'[hand'] \in {"ack", "turn", "reply"}
    BY <1>0, <1>1, <1>2, <1>3 DEF WhereInv, Places, TypeOK
  <2>3. \A i \in DOMAIN queue : queue[i] \in Made /\ queue[i] # m
    BY <1>0, <1>1 DEF WhereInv, Places, TypeOK
  <2>4. /\ \A i \in DOMAIN queue : msg'[queue[i]].thread \in Chats /\ at'[queue[i]] = "queued"
        /\ \A i, k \in DOMAIN queue : queue[i] = queue[k] => i = k
    <3>1. \A k \in Made : T(k)' = msg'[k].thread
      BY DEF T
    <3>2. /\ \A i \in DOMAIN queue : T(queue[i]) \in Chats /\ at[queue[i]] = "queued"
          /\ \A i, k \in DOMAIN queue : queue[i] = queue[k] => i = k
      BY DEF WhereInv, Places
    <3> QED BY <1>3, <2>3, <3>1, <3>2
  <2>5. /\ \A i \in DOMAIN queue' : msg'[queue'[i]].thread \in Chats /\ at'[queue'[i]] = "queued"
        /\ \A i, k \in DOMAIN queue' : queue'[i] = queue'[k] => i = k
    <3>1. CASE queue' = queue
      BY <2>4, <3>1
    <3>2. CASE t \in Chats /\ queue' = Append(queue, m) /\ at' = [at EXCEPT ![m] = "queued"]
      <4>1. /\ DOMAIN queue' = 1 .. Len(queue) + 1 /\ Len(queue) \in Nat
            /\ DOMAIN queue = 1 .. Len(queue)
            /\ queue'[Len(queue) + 1] = m /\ \A i \in DOMAIN queue : queue'[i] = queue[i]
        BY <1>0, <3>2 DEF TypeOK
      <4>2. at'[m] = "queued"
        BY <1>0, <3>2 DEF TypeOK
      <4>3. \A i \in DOMAIN queue' : i = Len(queue) + 1 \/ i \in DOMAIN queue
        BY <4>1
      <4> QED BY <1>0, <2>3, <2>4, <3>2, <4>1, <4>2, <4>3
    <3> QED BY <1>2, <3>1, <3>2
  <2> QED BY <2>1, <2>2, <2>5 DEF Places, T
<1>9. Seen'
  <2> SUFFICES ASSUME NEW k \in Made'
               PROVE  /\ at'[k] # "none" /\ (k \in seen' \/ at'[k] \in {"done", "lost"})
                      /\ OnRecord(k)' => k \in seen'
    BY DEF OnRecord, Seen
  <2>1. CASE k = m
    BY <1>2, <1>7, <2>1
  <2>2. CASE k # m
    BY <1>0, <1>2, <1>3, <2>2 DEF OnRecord, WhereInv, Seen
  <2> QED BY <2>1, <2>2
<1>10. Locks'
  <2>1. \A k \in Made' :
       /\ at'[k] \in {"status", "turn"} => lock'[T(k)'] = k
       /\ run'[k] \in Live /\ T(k)' \in SlackThreads => at'[k] = "turn"
       /\ run'[k] = "ended" => at'[k] = "turn" /\ out'[k] # "none"
    BY <1>0, <1>1, <1>2, <1>3, <1>7 DEF WhereInv, Locks
  <2>2. \A x \in Threads : lock'[x] # 0 =>
       /\ T(lock[x])' = x
       /\ at'[lock'[x]] \in IF x \in Chats THEN {"turn"} ELSE {"status", "turn", "reply"}
    <3>1. \A x \in Threads : lock[x] # 0 => lock[x] \in Made /\ lock[x] # m
      BY <1>0, <1>1 DEF TypeOK
    <3> QED BY <1>2, <1>3, <3>1 DEF WhereInv, Locks
  <2> QED BY <1>2, <2>1, <2>2 DEF Locks
<1> QED BY <1>4, <1>8, <1>9, <1>10

(* The worker takes a message from the queue.                               *)
LEMMA TakeWhere ==
  ASSUME WhereInv, Take PROVE Untouched' /\ Places' /\ Seen' /\ Locks'
<1> DEFINE m == Head(queue)
<1>1. /\ m \in Made /\ m = queue[1] /\ 1 \in DOMAIN queue
      /\ \A i \in DOMAIN Tail(queue) : i + 1 \in DOMAIN queue /\ Tail(queue)[i] = queue[i + 1] /\ i \in Nat
      /\ DOMAIN Tail(queue) \subseteq Nat \ {0}
  BY QueueHead DEF Take, WhereInv, TypeOK
<1>2. /\ hand = 0 /\ hand' = m /\ queue' = Tail(queue)
      /\ UNCHANGED <<msg, seen, run, out, told, lock, crashes, torn>>
      /\ \E x \in {"reply", "ack"} : at' = [at EXCEPT ![m] = x]
      /\ answer' = answer \/ answer' = [answer EXCEPT ![m] = "stopping"]
  BY DEF Take, Go, Say
<1> HIDE DEF m
<1>3. /\ TypeOK /\ m \in Messages /\ Made \subseteq Messages /\ T(m) \in Threads
      /\ \A k \in Made : T(k) \in Threads /\ k # 0
  <2>1. 0 \notin Messages /\ TypeOK
    BY ConstantsAssumption DEF Messages, WhereInv
  <2> QED BY <1>1, <2>1, MadeType
<1>4. Made' = Made /\ at[m] = "queued" /\ T(m) \in Chats
  BY <1>1, <1>2 DEF Made, WhereInv, Places
<1>5. at'[m] \in {"reply", "ack"} /\ \A k \in Messages : k # m => at'[k] = at[k]
  BY <1>2, <1>3 DEF TypeOK
<1>6. Untouched'
  BY <1>1, <1>2, <1>3, <1>4 DEF WhereInv, TypeOK, Untouched
<1>7. \A i \in DOMAIN Tail(queue) : queue[i + 1] # m
  BY <1>1 DEF WhereInv, Places
<1>8. Places'
  <2>1. \A k \in Made :
          /\ at'[k] \in {"waiting", "status"} => T(k) \in SlackThreads
          /\ at'[k] \in {"queued", "ack"} => T(k) \in Chats
          /\ at'[k] \in {"ack", "turn", "reply"} /\ T(k) \in Chats => hand' = k
    BY <1>2, <1>3, <1>4, <1>5 DEF WhereInv, Places
  <2>2. /\ \A i \in DOMAIN queue' : T(queue'[i]) \in Chats /\ at'[queue'[i]] = "queued"
    BY <1>1, <1>2, <1>3, <1>5, <1>7 DEF WhereInv, Places, TypeOK
  <2>3. \A i, k \in DOMAIN queue' : queue'[i] = queue'[k] => i = k
    BY <1>1, <1>2 DEF WhereInv, Places
  <2> QED BY <1>2, <1>4, <1>5, <2>1, <2>2, <2>3 DEF Places, T
<1>9. Seen'
  BY <1>2, <1>3, <1>4, <1>5 DEF OnRecord, WhereInv, Seen, T
<1>10. Locks'
  BY <1>2, <1>3, <1>4, <1>5 DEF WhereInv, TypeOK, Locks, T, Live
<1> QED BY <1>6, <1>8, <1>9, <1>10

(* The worker drops a message.                                              *)
LEMMA SkipWhere ==
  ASSUME WhereInv, Skip PROVE Untouched' /\ Places' /\ Seen' /\ Locks'
<1> DEFINE m == Head(queue)
<1>1. /\ m \in Made /\ m = queue[1] /\ 1 \in DOMAIN queue
      /\ \A i \in DOMAIN Tail(queue) : i + 1 \in DOMAIN queue /\ Tail(queue)[i] = queue[i + 1] /\ i \in Nat
      /\ DOMAIN Tail(queue) \subseteq Nat \ {0}
  BY QueueHead DEF Skip, WhereInv, TypeOK
<1>2. /\ hand = 0 /\ hand' = 0 /\ queue' = Tail(queue)
      /\ UNCHANGED <<msg, seen, run, out, told, answer, lock, crashes, torn>>
      /\ at' = [at EXCEPT ![m] = "done"]
  BY DEF Skip, Go, shared, history
<1> HIDE DEF m
<1>3. /\ TypeOK /\ m \in Messages /\ Made \subseteq Messages /\ T(m) \in Threads
      /\ \A k \in Made : T(k) \in Threads /\ k # 0
  <2>1. 0 \notin Messages /\ TypeOK
    BY ConstantsAssumption DEF Messages, WhereInv
  <2> QED BY <1>1, <2>1, MadeType
<1>4. Made' = Made /\ at[m] = "queued" /\ T(m) \in Chats
  BY <1>1, <1>2 DEF Made, WhereInv, Places
<1>5. at'[m] = "done" /\ \A k \in Messages : k # m => at'[k] = at[k]
  BY <1>2, <1>3 DEF TypeOK
<1>6. Untouched'
  BY <1>1, <1>2, <1>3, <1>4 DEF WhereInv, TypeOK, Untouched
<1>7. \A i \in DOMAIN Tail(queue) : queue[i + 1] # m
  BY <1>1 DEF WhereInv, Places
<1>8. Places'
  <2>1. \A k \in Made :
          /\ at'[k] \in {"waiting", "status"} => T(k) \in SlackThreads
          /\ at'[k] \in {"queued", "ack"} => T(k) \in Chats
          /\ at'[k] \in {"ack", "turn", "reply"} /\ T(k) \in Chats => hand' = k
    BY <1>2, <1>3, <1>4, <1>5 DEF WhereInv, Places
  <2>2. /\ \A i \in DOMAIN queue' : T(queue'[i]) \in Chats /\ at'[queue'[i]] = "queued"
    BY <1>1, <1>2, <1>3, <1>5, <1>7 DEF WhereInv, Places, TypeOK
  <2>3. \A i, k \in DOMAIN queue' : queue'[i] = queue'[k] => i = k
    BY <1>1, <1>2 DEF WhereInv, Places
  <2> QED BY <1>2, <1>4, <1>5, <2>1, <2>2, <2>3 DEF Places, T
<1>9. Seen'
  BY <1>2, <1>3, <1>4, <1>5 DEF OnRecord, WhereInv, Seen, T
<1>10. Locks'
  BY <1>2, <1>3, <1>4, <1>5 DEF WhereInv, TypeOK, Locks, T, Live
<1> QED BY <1>6, <1>8, <1>9, <1>10

(* A crash leaves only what was said and what is on file.                   *)
LEMMA CrashWhere ==
  ASSUME WhereInv, Crash PROVE Untouched' /\ Places' /\ Seen' /\ Locks'
<1>1. TypeOK /\ Made \subseteq Messages /\ Made' = Made /\ msg' = msg
  BY MadeType DEF WhereInv, Crash, Made
<1>2. Untouched'
  BY <1>1 DEF Crash, WhereInv, Untouched
<1>3. \A k \in Messages : at'[k] \in {"none", "done", "lost"} /\ (at[k] # "none" => at'[k] # "none")
  BY DEF Crash
<1>4. Places'
  BY <1>1, <1>3 DEF Crash, Places
<1>5. Seen'
  <2>1. \A k \in Made : at[k] # "none"
    BY <1>1 DEF OnRecord, WhereInv, Seen
  <2> QED BY <1>1, <1>3, <2>1 DEF OnRecord, Crash, KeptSeen, WhereInv, Seen, T, TypeOK
<1>6. Locks'
  BY <1>1, <1>3 DEF Crash, Locks, Live
<1> QED BY <1>2, <1>4, <1>5, <1>6

(* A delivery, the first one or another.                                    *)
LEMMA DeliverWhere ==
  ASSUME WhereInv, NEW t \in Threads, NEW kind \in Kinds, Deliver(t, kind)
  PROVE  Untouched' /\ Places' /\ Seen' /\ Locks'
<1> DEFINE m == Len(msg) + 1
<1>1. /\ m \in Messages /\ msg' = Append(msg, [thread |-> t, kind |-> kind])
      /\ Accept(m, t, kind) /\ UNCHANGED <<crashes, torn>> /\ TypeOK
  BY DEF Deliver, WhereInv
<1>2. /\ Made' = Made \cup {m} /\ m \notin Made /\ msg'[m].thread = t
      /\ \A k \in Made : T(k)' = T(k)
  BY <1>1, MessageAdded
<1> HIDE DEF m
<1> QED BY <1>1, <1>2, AcceptWhere

LEMMA RedeliverWhere ==
  ASSUME WhereInv, NEW m \in Made, Redeliver(m)
  PROVE  Untouched' /\ Places' /\ Seen' /\ Locks'
<1>1. TypeOK /\ m \in Messages /\ T(m) \in Threads /\ msg[m].kind \in Kinds
  BY MadeType DEF WhereInv
<1>2. /\ msg' = msg /\ UNCHANGED <<crashes, torn>> /\ m \notin seen
      /\ Accept(m, T(m), msg[m].kind)
  BY DEF Redeliver
<1>3. /\ Made' = Made \cup {m} /\ msg'[m].thread = T(m)
      /\ \A k \in Made : T(k)' = T(k)
  BY <1>2 DEF Made, T
<1> QED BY <1>1, <1>2, <1>3, AcceptWhere

LEMMA WhereStep == WhereInv /\ [Next]_vars => WhereInv'
<1> SUFFICES ASSUME WhereInv, [Next]_vars PROVE Untouched' /\ Places' /\ Seen' /\ Locks'
  BY TypeStep DEF WhereInv
<1>1. CASE UNCHANGED vars
  BY <1>1 DEF OnRecord, vars, inbound, turn, shared, history, WhereInv, Untouched, Places, Seen, Locks,
              Made, T
<1>2. CASE Next
  BY <1>2, DeliverWhere, RedeliverWhere, CrashWhere, TakeWhere, SkipWhere, EnterWhere,
     StartRunWhere, ReturnWhere, ReplyWhere, TimeoutWhere, SendWhere, RegisterWhere, FinishWhere
     DEF Next, System, Environment, Daemon, Agent
<1> QED BY <1>1, <1>2

LEMMA WhereInvariant == Spec => []WhereInv
<1>1. Init => WhereInv
  <2>1. Init => TypeOK
    BY InitialType
  <2>2. Init => Made = {}
    BY DEF Init, Made
  <2> QED BY <2>1, <2>2 DEF OnRecord, Init, WhereInv, Untouched, Places, Seen, Locks
<1> QED BY <1>1, WhereStep, PTL DEF Spec

(* A live run of a Slack thread belongs to the turn that holds its lock.    *)
LEMMA OneHolder == WhereInv => OneSlackRun
<1> SUFFICES ASSUME WhereInv, NEW t \in SlackThreads PROVE Cardinality(Running(t)) <= 1
  BY DEF OneSlackRun
<1>1. Running(t) \subseteq {lock[t]}
  BY DEF Running, WhereInv, Locks
<1>2. IsFiniteSet({lock[t]}) /\ Cardinality({lock[t]}) = 1
  BY FS_Singleton
<1>3. Cardinality(Running(t)) <= Cardinality({lock[t]})
  BY <1>1, <1>2, FS_Subset
<1>4. IsFiniteSet(Running(t)) /\ Cardinality(Running(t)) \in Nat
  BY <1>1, <1>2, FS_Subset, FS_CardinalityType
<1> QED BY <1>2, <1>3, <1>4

(* ONE RUN PER SLACK THREAD: however events, stops, redeliveries, crashes   *)
(* and failing runs interleave, two agents never work for one Slack thread  *)
(* at a time (runner.py:107, the lock slack_ingress.py holds for a turn).   *)
THEOREM OneRun == Spec => []OneSlackRun
BY WhereInvariant, OneHolder, PTL

-----------------------------------------------------------------------------
(* Stops are heard, and answers given once.                                 *)

(* Every turn that was under way when a stop came will find the flag, or    *)
(* has found it.                                                            *)
Heard ==
  /\ \A m \in Made :
       /\ at[m] = "reply" /\ lock[T(m)] = m => answer[m] = "stopped"
       /\ at[m] \in {"queued", "ack", "waiting", "status", "turn"} => answer[m] = "none"
  /\ \A m \in hit :
       /\ T(m) \in SlackThreads /\ m \in seen /\ answer[m] # "reply"
       /\ at[m] \in {"status", "turn", "reply", "done", "lost"}
       /\ at[m] = "status" => T(m) \in flags
       /\ at[m] = "turn" => \/ T(m) \in flags
                            \/ run[m] = "ended" /\ out[m] \in {"cancelled", "failed"}

(* A message that was answered is done with.                                *)
Once ==
  \A m \in Made : OnRecord(m) =>
    told[m] <= 1 /\ (told[m] = 1 => at[m] \in {"done", "lost"})

StopInv == WhereInv /\ Heard /\ Once

LEMMA EnterHeard == ASSUME StopInv, WhereInv', NEW m \in Made, Enter(m) PROVE Heard' /\ Once'
<1>0. /\ TypeOK /\ m \in Messages /\ Made \subseteq Messages /\ hit \subseteq Made
      /\ \A k \in Made : T(k) \in Threads /\ k # 0
  <2>1. 0 \notin Messages /\ TypeOK
    BY ConstantsAssumption DEF Messages, StopInv, WhereInv
  <2> QED BY <2>1, MadeType DEF TypeOK
<1>1. Made' = Made /\ msg' = msg /\ UNCHANGED <<seen, hit, crashes, torn>>
  BY DEF Enter, Made, inbound, history
<1>2. \A k \in Made :
        /\ at'[k] = "reply" /\ lock'[T(k)] = k => answer'[k] = "stopped"
        /\ at'[k] \in {"queued", "ack", "waiting", "status", "turn"} => answer'[k] = "none"
  BY <1>0, ConstantsAssumption
     DEF StopInv, WhereInv, TypeOK, Heard, Locks, Places, Threads, Enter, Stopped, Go, Say, LockFree, Spend, inbound, history
<1>3. \A k \in hit :
       /\ answer'[k] # "reply"
       /\ at'[k] \in {"status", "turn", "reply", "done", "lost"}
       /\ at'[k] = "status" => T(k) \in flags'
       /\ at'[k] = "turn" => \/ T(k) \in flags'
                             \/ run'[k] = "ended" /\ out'[k] \in {"cancelled", "failed"}
  <2> SUFFICES ASSUME NEW k \in hit
               PROVE  /\ answer'[k] # "reply"
                      /\ at'[k] \in {"status", "turn", "reply", "done", "lost"}
                      /\ at'[k] = "status" => T(k) \in flags'
                      /\ at'[k] = "turn" =>
                           \/ T(k) \in flags'
                           \/ run'[k] = "ended" /\ out'[k] \in {"cancelled", "failed"}
    OBVIOUS
  <2>1. /\ k \in Made /\ T(k) \in SlackThreads /\ answer[k] # "reply"
        /\ at[k] \in {"status", "turn", "reply", "done", "lost"}
        /\ at[k] = "status" => T(k) \in flags
        /\ at[k] = "turn" => \/ T(k) \in flags
                             \/ run[k] = "ended" /\ out[k] \in {"cancelled", "failed"}
        /\ at[k] \in {"status", "turn"} => lock[T(k)] = k
    BY <1>0 DEF StopInv, WhereInv, Locks, Heard
  <2>2. CASE k # m
    <3>1. /\ at'[k] = at[k] /\ answer'[k] = answer[k] /\ run'[k] = run[k] /\ out'[k] = out[k]
          /\ flags' = flags \/ flags' = flags \ {T(m)}
      BY <1>0, <2>1, <2>2 DEF TypeOK, Enter, Stopped, Go, Say, LockFree, Spend, inbound, history
    <3>2. at[k] \in {"status", "turn"} => T(k) # T(m)
      BY <1>0, <2>1, <2>2, ConstantsAssumption
         DEF StopInv, WhereInv, Locks, Threads, Live, Enter, LockFree
    <3> QED BY <2>1, <3>1, <3>2
  <2>3. CASE k = m
    BY <1>0, <2>1, <2>3 DEF StopInv, WhereInv, TypeOK, Locks, Live, Enter, Stopped, Go, Say, LockFree, Spend, inbound, history
  <2> QED BY <2>2, <2>3
<1>4. \A k \in Made : OnRecord(k) =>
        told'[k] <= 1 /\ (told'[k] = 1 => at'[k] \in {"done", "lost"})
  BY <1>0, ConstantsAssumption DEF OnRecord, StopInv, WhereInv, TypeOK, Once, Enter, Stopped, Go, Say, LockFree, Spend, inbound, history
<1>5. Heard'
  BY <1>1, <1>2, <1>3 DEF StopInv, Heard, T
<1> QED BY <1>1, <1>4, <1>5 DEF OnRecord, Once, T

LEMMA StartRunHeard == ASSUME StopInv, WhereInv', NEW m \in Made, StartRun(m) PROVE Heard' /\ Once'
<1>0. /\ TypeOK /\ m \in Messages /\ Made \subseteq Messages /\ hit \subseteq Made
      /\ \A k \in Made : T(k) \in Threads /\ k # 0
  <2>1. 0 \notin Messages /\ TypeOK
    BY ConstantsAssumption DEF Messages, StopInv, WhereInv
  <2> QED BY <2>1, MadeType DEF TypeOK
<1>1. Made' = Made /\ msg' = msg /\ UNCHANGED <<seen, hit, crashes, torn>>
  BY DEF StartRun, Made, inbound, history
<1>2. \A k \in Made :
        /\ at'[k] = "reply" /\ lock'[T(k)] = k => answer'[k] = "stopped"
        /\ at'[k] \in {"queued", "ack", "waiting", "status", "turn"} => answer'[k] = "none"
  BY <1>0, ConstantsAssumption
     DEF StopInv, WhereInv, TypeOK, Heard, Locks, Places, Threads, StartRun, Stopped, Go, Say, LockFree, Released, Spend, inbound, history
<1>3. \A k \in hit :
       /\ answer'[k] # "reply"
       /\ at'[k] \in {"status", "turn", "reply", "done", "lost"}
       /\ at'[k] = "status" => T(k) \in flags'
       /\ at'[k] = "turn" => \/ T(k) \in flags'
                             \/ run'[k] = "ended" /\ out'[k] \in {"cancelled", "failed"}
  <2>1. at[m] \in {"status", "ack"} /\ lock[T(m)] \in {0, m}
    BY <1>0 DEF StopInv, WhereInv, Locks, StartRun, LockFree
  <2>2. \A k \in hit :
          /\ answer[k] # "reply"
          /\ at[k] \in {"status", "turn", "reply", "done", "lost"}
          /\ at[k] = "status" => T(k) \in flags
          /\ at[k] = "turn" => \/ T(k) \in flags
                               \/ run[k] = "ended" /\ out[k] \in {"cancelled", "failed"}
    BY DEF StopInv, Heard
  <2>3. m \in hit => at[m] = "status" /\ T(m) \in flags
    BY <2>1, <2>2
  <2>4. CASE T(m) \in flags
    <3>1. \A k \in Made : k # m /\ at[k] \in {"status", "turn"} => T(k) # T(m)
      BY <1>0, <2>1 DEF StopInv, WhereInv, Locks
    <3>2. \A k \in Made : k # m => at'[k] = at[k] /\ answer'[k] = answer[k]
      BY <1>0, <2>4 DEF StartRun, Stopped, Go, Say, TypeOK
    <3>3. at'[m] = "reply" /\ answer'[m] = "stopped"
      BY <1>0, <2>4 DEF StartRun, Stopped, Go, Say, TypeOK
    <3>4. run' = run /\ out' = out /\ flags' = flags \ {T(m)}
      BY <2>4 DEF StartRun, Stopped, Spend
    <3> QED BY <1>0, <2>2, <3>1, <3>2, <3>3, <3>4
  <2>5. CASE T(m) \notin flags
    <3>1. UNCHANGED <<answer, flags, out>> /\ m \notin hit
      BY <2>3, <2>5 DEF StartRun
    <3>2. \A k \in Made : k # m => at'[k] = at[k] /\ run'[k] = run[k]
      BY <1>0, <2>5 DEF StartRun, Go, TypeOK
    <3> QED BY <1>0, <2>2, <3>1, <3>2
  <2> QED BY <2>4, <2>5
<1>4. \A k \in Made : OnRecord(k) =>
        told'[k] <= 1 /\ (told'[k] = 1 => at'[k] \in {"done", "lost"})
  <2>1. told' = told /\ at[m] \in {"status", "ack"}
    BY DEF StartRun
  <2>2. \A k \in Made : k # m => at'[k] = at[k]
    BY <1>0 DEF StartRun, Stopped, Go, TypeOK
  <2>3. \A k \in Made : OnRecord(k) => told[k] <= 1 /\ (told[k] = 1 => at[k] \in {"done", "lost"})
    BY DEF StopInv, Once
  <2>4. OnRecord(m) => told[m] <= 1 /\ told[m] # 1
    BY <2>1, <2>3
  <2> QED BY <2>1, <2>2, <2>3, <2>4
<1>5. Heard'
  BY <1>1, <1>2, <1>3 DEF StopInv, Heard, T
<1> QED BY <1>1, <1>4, <1>5 DEF OnRecord, Once, T

LEMMA ReturnHeard == ASSUME StopInv, WhereInv', NEW m \in Made, Return(m) PROVE Heard' /\ Once'
<1>0. /\ TypeOK /\ m \in Messages /\ Made \subseteq Messages /\ hit \subseteq Made
      /\ \A k \in Made : T(k) \in Threads /\ k # 0
  <2>1. 0 \notin Messages /\ TypeOK
    BY ConstantsAssumption DEF Messages, StopInv, WhereInv
  <2> QED BY <2>1, MadeType DEF TypeOK
<1>1. Made' = Made /\ msg' = msg /\ UNCHANGED <<seen, hit, crashes, torn>>
  BY DEF Return, Made, inbound, history
<1>2. \A k \in Made :
        /\ at'[k] = "reply" /\ lock'[T(k)] = k => answer'[k] = "stopped"
        /\ at'[k] \in {"queued", "ack", "waiting", "status", "turn"} => answer'[k] = "none"
  BY <1>0, ConstantsAssumption
     DEF StopInv, WhereInv, TypeOK, Heard, Locks, Places, Threads, Return, Stopped, StopAtEnd, Verdict, Go, Say, Released, Spend, inbound, history
<1>3. \A k \in hit :
       /\ answer'[k] # "reply"
       /\ at'[k] \in {"status", "turn", "reply", "done", "lost"}
       /\ at'[k] = "status" => T(k) \in flags'
       /\ at'[k] = "turn" => \/ T(k) \in flags'
                             \/ run'[k] = "ended" /\ out'[k] \in {"cancelled", "failed"}
  <2> SUFFICES ASSUME NEW k \in hit
               PROVE  /\ answer'[k] # "reply"
                      /\ at'[k] \in {"status", "turn", "reply", "done", "lost"}
                      /\ at'[k] = "status" => T(k) \in flags'
                      /\ at'[k] = "turn" =>
                           \/ T(k) \in flags'
                           \/ run'[k] = "ended" /\ out'[k] \in {"cancelled", "failed"}
    OBVIOUS
  <2>1. /\ k \in Made /\ T(k) \in SlackThreads /\ answer[k] # "reply"
        /\ at[k] \in {"status", "turn", "reply", "done", "lost"}
        /\ at[k] = "status" => T(k) \in flags
        /\ at[k] = "turn" => \/ T(k) \in flags
                             \/ run[k] = "ended" /\ out[k] \in {"cancelled", "failed"}
        /\ at[k] \in {"status", "turn"} => lock[T(k)] = k
    BY <1>0 DEF StopInv, WhereInv, Locks, Heard
  <2>2. CASE k # m
    <3>1. /\ at'[k] = at[k] /\ answer'[k] = answer[k] /\ run'[k] = run[k] /\ out'[k] = out[k]
          /\ flags' = flags \/ flags' = flags \ {T(m)}
      BY <1>0, <2>1, <2>2 DEF TypeOK, Return, Stopped, StopAtEnd, Verdict, Go, Say, Released, Spend, inbound, history
    <3>2. at[k] \in {"status", "turn"} => T(k) # T(m)
      BY <1>0, <2>1, <2>2, ConstantsAssumption
         DEF StopInv, WhereInv, Locks, Threads, Live, Return
    <3> QED BY <2>1, <3>1, <3>2
  <2>3. CASE k = m
    <3>1. at[m] = "turn" /\ run[m] = "ended" /\ out[m] \in Outcomes /\ out[m] # "none"
      BY <1>0 DEF StopInv, WhereInv, Locks, TypeOK, Return
    <3>2. out[m] \in {"cancelled", "failed"} \/ StopAtEnd(m)
      BY <2>1, <2>3, <3>1 DEF StopAtEnd, Outcomes
    <3>3. answer'[m] \in {"stopped", "problem"}
      <4>1. CASE StopAtEnd(m)
        BY <1>0, <4>1 DEF Return, Stopped, Say, TypeOK
      <4>2. CASE ~StopAtEnd(m)
        BY <1>0, <3>2, <4>2 DEF Return, Verdict, Say, TypeOK
      <4> QED BY <4>1, <4>2
    <3>4. at'[m] = "reply"
      BY <1>0 DEF Return, Stopped, Go, TypeOK
    <3> QED BY <2>3, <3>3, <3>4
  <2> QED BY <2>2, <2>3
<1>4. \A k \in Made : OnRecord(k) =>
        told'[k] <= 1 /\ (told'[k] = 1 => at'[k] \in {"done", "lost"})
  <2>1. at[m] = "turn" /\ told' = told /\ \A k \in Made : k # m => at'[k] = at[k]
    BY <1>0 DEF Return, Stopped, Go, TypeOK
  <2> QED BY <1>0, <2>1 DEF OnRecord, StopInv, Once
<1>5. Heard'
  BY <1>1, <1>2, <1>3 DEF StopInv, Heard, T
<1> QED BY <1>1, <1>4, <1>5 DEF OnRecord, Once, T

LEMMA ReplyHeard == ASSUME StopInv, WhereInv', NEW m \in Made, Reply(m) PROVE Heard' /\ Once'
<1>0. /\ TypeOK /\ m \in Messages /\ Made \subseteq Messages /\ hit \subseteq Made
      /\ \A k \in Made : T(k) \in Threads /\ k # 0
  <2>1. 0 \notin Messages /\ TypeOK
    BY ConstantsAssumption DEF Messages, StopInv, WhereInv
  <2> QED BY <2>1, MadeType DEF TypeOK
<1>1. Made' = Made /\ msg' = msg /\ UNCHANGED <<seen, hit, crashes, torn>>
  BY DEF Reply, Made, history
<1>2. \A k \in Made :
        /\ at'[k] = "reply" /\ lock'[T(k)] = k => answer'[k] = "stopped"
        /\ at'[k] \in {"queued", "ack", "waiting", "status", "turn"} => answer'[k] = "none"
  BY <1>0, ConstantsAssumption
     DEF StopInv, WhereInv, TypeOK, Heard, Locks, Places, Threads, Reply, Go, Released, history
<1>3. \A k \in hit :
       /\ answer'[k] # "reply"
       /\ at'[k] \in {"status", "turn", "reply", "done", "lost"}
       /\ at'[k] = "status" => T(k) \in flags'
       /\ at'[k] = "turn" => \/ T(k) \in flags'
                             \/ run'[k] = "ended" /\ out'[k] \in {"cancelled", "failed"}
  BY <1>0, ConstantsAssumption
     DEF StopInv, WhereInv, TypeOK, Heard, Locks, Places, Threads, Live, Reply, Go, Released, history
<1>4. \A k \in Made : OnRecord(k) =>
        told'[k] <= 1 /\ (told'[k] = 1 => at'[k] \in {"done", "lost"})
  BY <1>0, ConstantsAssumption DEF OnRecord, StopInv, WhereInv, TypeOK, Once, Reply, Go, Released, history
<1>5. Heard'
  BY <1>1, <1>2, <1>3 DEF StopInv, Heard, T
<1> QED BY <1>1, <1>4, <1>5 DEF OnRecord, Once, T

LEMMA TimeoutHeard == ASSUME StopInv, WhereInv', NEW m \in Made, Timeout(m) PROVE Heard' /\ Once'
<1>0. /\ TypeOK /\ m \in Messages /\ Made \subseteq Messages /\ hit \subseteq Made
      /\ \A k \in Made : T(k) \in Threads /\ k # 0
  <2>1. 0 \notin Messages /\ TypeOK
    BY ConstantsAssumption DEF Messages, StopInv, WhereInv
  <2> QED BY <2>1, MadeType DEF TypeOK
<1>1. Made' = Made /\ msg' = msg /\ UNCHANGED <<seen, hit, crashes, torn>>
  BY DEF Timeout, Made, history
<1>2. \A k \in Made :
        /\ at'[k] = "reply" /\ lock'[T(k)] = k => answer'[k] = "stopped"
        /\ at'[k] \in {"queued", "ack", "waiting", "status", "turn"} => answer'[k] = "none"
  BY <1>0, ConstantsAssumption
     DEF StopInv, WhereInv, TypeOK, Heard, Locks, Places, Threads, Timeout, Go, Released, history
<1>3. \A k \in hit :
       /\ answer'[k] # "reply"
       /\ at'[k] \in {"status", "turn", "reply", "done", "lost"}
       /\ at'[k] = "status" => T(k) \in flags'
       /\ at'[k] = "turn" => \/ T(k) \in flags'
                             \/ run'[k] = "ended" /\ out'[k] \in {"cancelled", "failed"}
  BY <1>0, ConstantsAssumption
     DEF StopInv, WhereInv, TypeOK, Heard, Locks, Places, Threads, Live, Timeout, Go, Released, history
<1>4. \A k \in Made : OnRecord(k) =>
        told'[k] <= 1 /\ (told'[k] = 1 => at'[k] \in {"done", "lost"})
  BY <1>0, ConstantsAssumption DEF OnRecord, StopInv, WhereInv, TypeOK, Once, Timeout, Go, Released, history
<1>5. Heard'
  BY <1>1, <1>2, <1>3 DEF StopInv, Heard, T
<1> QED BY <1>1, <1>4, <1>5 DEF OnRecord, Once, T

LEMMA SendHeard == ASSUME StopInv, WhereInv', NEW m \in Made, Send(m) PROVE Heard' /\ Once'
<1>0. /\ TypeOK /\ m \in Messages /\ Made \subseteq Messages /\ hit \subseteq Made
      /\ \A k \in Made : T(k) \in Threads /\ k # 0
  <2>1. 0 \notin Messages /\ TypeOK
    BY ConstantsAssumption DEF Messages, StopInv, WhereInv
  <2> QED BY <2>1, MadeType DEF TypeOK
<1>1. Made' = Made /\ msg' = msg /\ UNCHANGED <<seen, hit, crashes, torn>>
  BY DEF Send, Made, inbound, history
<1>2. \A k \in Made :
        /\ at'[k] = "reply" /\ lock'[T(k)] = k => answer'[k] = "stopped"
        /\ at'[k] \in {"queued", "ack", "waiting", "status", "turn"} => answer'[k] = "none"
  BY <1>0, ConstantsAssumption
     DEF StopInv, WhereInv, TypeOK, Heard, Locks, Places, Threads, Send, CutShort, Ends, Spend, inbound, history
<1>3. \A k \in hit :
       /\ answer'[k] # "reply"
       /\ at'[k] \in {"status", "turn", "reply", "done", "lost"}
       /\ at'[k] = "status" => T(k) \in flags'
       /\ at'[k] = "turn" => \/ T(k) \in flags'
                             \/ run'[k] = "ended" /\ out'[k] \in {"cancelled", "failed"}
  <2> SUFFICES ASSUME NEW k \in hit
               PROVE  /\ answer'[k] # "reply"
                      /\ at'[k] \in {"status", "turn", "reply", "done", "lost"}
                      /\ at'[k] = "status" => T(k) \in flags'
                      /\ at'[k] = "turn" =>
                           \/ T(k) \in flags'
                           \/ run'[k] = "ended" /\ out'[k] \in {"cancelled", "failed"}
    OBVIOUS
  <2>1. /\ k \in Made /\ T(k) \in SlackThreads /\ answer[k] # "reply"
        /\ at[k] \in {"status", "turn", "reply", "done", "lost"}
        /\ at[k] = "status" => T(k) \in flags
        /\ at[k] = "turn" => \/ T(k) \in flags
                             \/ run[k] = "ended" /\ out[k] \in {"cancelled", "failed"}
        /\ at[k] \in {"status", "turn"} => lock[T(k)] = k
    BY <1>0 DEF StopInv, WhereInv, Locks, Heard
  <2>2. CASE k # m
    <3>1. /\ at'[k] = at[k] /\ answer'[k] = answer[k] /\ run'[k] = run[k] /\ out'[k] = out[k]
          /\ flags' = flags \/ flags' = flags \ {T(m)}
      BY <1>0, <2>1, <2>2 DEF TypeOK, Send, CutShort, Ends, Spend, inbound, history
    <3>2. at[k] \in {"status", "turn"} => T(k) # T(m)
      BY <1>0, <2>1, <2>2, ConstantsAssumption
         DEF StopInv, WhereInv, Locks, Threads, Live, Send
    <3> QED BY <2>1, <3>1, <3>2
  <2>3. CASE k = m
    BY <1>0, <2>1, <2>3 DEF StopInv, WhereInv, TypeOK, Locks, Live, Send, CutShort, Ends, Spend, inbound, history
  <2> QED BY <2>2, <2>3
<1>4. \A k \in Made : OnRecord(k) =>
        told'[k] <= 1 /\ (told'[k] = 1 => at'[k] \in {"done", "lost"})
  BY <1>0, ConstantsAssumption DEF OnRecord, StopInv, WhereInv, TypeOK, Once, Send, CutShort, Ends, Spend, inbound, history
<1>5. Heard'
  BY <1>1, <1>2, <1>3 DEF StopInv, Heard, T
<1> QED BY <1>1, <1>4, <1>5 DEF OnRecord, Once, T

LEMMA RegisterHeard == ASSUME StopInv, WhereInv', NEW m \in Made, Register(m) PROVE Heard' /\ Once'
<1>0. /\ TypeOK /\ m \in Messages /\ Made \subseteq Messages /\ hit \subseteq Made
      /\ \A k \in Made : T(k) \in Threads /\ k # 0
  <2>1. 0 \notin Messages /\ TypeOK
    BY ConstantsAssumption DEF Messages, StopInv, WhereInv
  <2> QED BY <2>1, MadeType DEF TypeOK
<1>1. Made' = Made /\ msg' = msg /\ UNCHANGED <<seen, hit, crashes, torn>>
  BY DEF Register, Made, inbound, history
<1>2. \A k \in Made :
        /\ at'[k] = "reply" /\ lock'[T(k)] = k => answer'[k] = "stopped"
        /\ at'[k] \in {"queued", "ack", "waiting", "status", "turn"} => answer'[k] = "none"
  BY <1>0, ConstantsAssumption
     DEF StopInv, WhereInv, TypeOK, Heard, Locks, Places, Threads, Register, CutShort, Ends, Spend, inbound, history
<1>3. \A k \in hit :
       /\ answer'[k] # "reply"
       /\ at'[k] \in {"status", "turn", "reply", "done", "lost"}
       /\ at'[k] = "status" => T(k) \in flags'
       /\ at'[k] = "turn" => \/ T(k) \in flags'
                             \/ run'[k] = "ended" /\ out'[k] \in {"cancelled", "failed"}
  <2> SUFFICES ASSUME NEW k \in hit
               PROVE  /\ answer'[k] # "reply"
                      /\ at'[k] \in {"status", "turn", "reply", "done", "lost"}
                      /\ at'[k] = "status" => T(k) \in flags'
                      /\ at'[k] = "turn" =>
                           \/ T(k) \in flags'
                           \/ run'[k] = "ended" /\ out'[k] \in {"cancelled", "failed"}
    OBVIOUS
  <2>1. /\ k \in Made /\ T(k) \in SlackThreads /\ answer[k] # "reply"
        /\ at[k] \in {"status", "turn", "reply", "done", "lost"}
        /\ at[k] = "status" => T(k) \in flags
        /\ at[k] = "turn" => \/ T(k) \in flags
                             \/ run[k] = "ended" /\ out[k] \in {"cancelled", "failed"}
        /\ at[k] \in {"status", "turn"} => lock[T(k)] = k
    BY <1>0 DEF StopInv, WhereInv, Locks, Heard
  <2>2. CASE k # m
    <3>1. /\ at'[k] = at[k] /\ answer'[k] = answer[k] /\ run'[k] = run[k] /\ out'[k] = out[k]
          /\ flags' = flags \/ flags' = flags \ {T(m)}
      BY <1>0, <2>1, <2>2 DEF TypeOK, Register, CutShort, Ends, Spend, inbound, history
    <3>2. at[k] \in {"status", "turn"} => T(k) # T(m)
      BY <1>0, <2>1, <2>2, ConstantsAssumption
         DEF StopInv, WhereInv, Locks, Threads, Live, Register
    <3> QED BY <2>1, <3>1, <3>2
  <2>3. CASE k = m
    BY <1>0, <2>1, <2>3 DEF StopInv, WhereInv, TypeOK, Locks, Live, Register, CutShort, Ends, Spend, inbound, history
  <2> QED BY <2>2, <2>3
<1>4. \A k \in Made : OnRecord(k) =>
        told'[k] <= 1 /\ (told'[k] = 1 => at'[k] \in {"done", "lost"})
  BY <1>0, ConstantsAssumption DEF OnRecord, StopInv, WhereInv, TypeOK, Once, Register, CutShort, Ends, Spend, inbound, history
<1>5. Heard'
  BY <1>1, <1>2, <1>3 DEF StopInv, Heard, T
<1> QED BY <1>1, <1>4, <1>5 DEF OnRecord, Once, T

LEMMA FinishHeard == ASSUME StopInv, WhereInv', NEW m \in Made, Finish(m) PROVE Heard' /\ Once'
<1>0. /\ TypeOK /\ m \in Messages /\ Made \subseteq Messages /\ hit \subseteq Made
      /\ \A k \in Made : T(k) \in Threads /\ k # 0
  <2>1. 0 \notin Messages /\ TypeOK
    BY ConstantsAssumption DEF Messages, StopInv, WhereInv
  <2> QED BY <2>1, MadeType DEF TypeOK
<1>1. Made' = Made /\ msg' = msg /\ UNCHANGED <<seen, hit, crashes, torn>>
  BY DEF Finish, Made, inbound, history
<1>2. \A k \in Made :
        /\ at'[k] = "reply" /\ lock'[T(k)] = k => answer'[k] = "stopped"
        /\ at'[k] \in {"queued", "ack", "waiting", "status", "turn"} => answer'[k] = "none"
  BY <1>0, ConstantsAssumption
     DEF StopInv, WhereInv, TypeOK, Heard, Locks, Places, Threads, Finish, CutShort, Ends, Spend, inbound, history
<1>3. \A k \in hit :
       /\ answer'[k] # "reply"
       /\ at'[k] \in {"status", "turn", "reply", "done", "lost"}
       /\ at'[k] = "status" => T(k) \in flags'
       /\ at'[k] = "turn" => \/ T(k) \in flags'
                             \/ run'[k] = "ended" /\ out'[k] \in {"cancelled", "failed"}
  <2> SUFFICES ASSUME NEW k \in hit
               PROVE  /\ answer'[k] # "reply"
                      /\ at'[k] \in {"status", "turn", "reply", "done", "lost"}
                      /\ at'[k] = "status" => T(k) \in flags'
                      /\ at'[k] = "turn" =>
                           \/ T(k) \in flags'
                           \/ run'[k] = "ended" /\ out'[k] \in {"cancelled", "failed"}
    OBVIOUS
  <2>1. /\ k \in Made /\ T(k) \in SlackThreads /\ answer[k] # "reply"
        /\ at[k] \in {"status", "turn", "reply", "done", "lost"}
        /\ at[k] = "status" => T(k) \in flags
        /\ at[k] = "turn" => \/ T(k) \in flags
                             \/ run[k] = "ended" /\ out[k] \in {"cancelled", "failed"}
        /\ at[k] \in {"status", "turn"} => lock[T(k)] = k
    BY <1>0 DEF StopInv, WhereInv, Locks, Heard
  <2>2. CASE k # m
    <3>1. /\ at'[k] = at[k] /\ answer'[k] = answer[k] /\ run'[k] = run[k] /\ out'[k] = out[k]
          /\ flags' = flags \/ flags' = flags \ {T(m)}
      BY <1>0, <2>1, <2>2 DEF TypeOK, Finish, CutShort, Ends, Spend, inbound, history
    <3>2. at[k] \in {"status", "turn"} => T(k) # T(m)
      BY <1>0, <2>1, <2>2, ConstantsAssumption
         DEF StopInv, WhereInv, Locks, Threads, Live, Finish
    <3> QED BY <2>1, <3>1, <3>2
  <2>3. CASE k = m
    BY <1>0, <2>1, <2>3 DEF StopInv, WhereInv, TypeOK, Locks, Live, Finish, CutShort, Ends, Spend, inbound, history
  <2> QED BY <2>2, <2>3
<1>4. \A k \in Made : OnRecord(k) =>
        told'[k] <= 1 /\ (told'[k] = 1 => at'[k] \in {"done", "lost"})
  BY <1>0, ConstantsAssumption DEF OnRecord, StopInv, WhereInv, TypeOK, Once, Finish, CutShort, Ends, Spend, inbound, history
<1>5. Heard'
  BY <1>1, <1>2, <1>3 DEF StopInv, Heard, T
<1> QED BY <1>1, <1>4, <1>5 DEF OnRecord, Once, T

LEMMA AcceptHeard ==
  ASSUME StopInv, WhereInv', NEW m \in Messages, NEW t \in Threads, NEW kind \in Kinds,
         m \in Made => m \notin seen /\ T(m) = t,
         Made' = Made \cup {m}, \A k \in Made : T(k)' = T(k), msg'[m].thread = t,
         UNCHANGED <<crashes, torn>>, Accept(m, t, kind)
  PROVE  Heard' /\ Once'
<1>0. /\ TypeOK /\ Made \subseteq Messages /\ hit \subseteq Made
      /\ \A k \in Made : T(k) \in Threads /\ k # 0
      /\ m # 0 /\ T(m)' = t
  <2>1. 0 \notin Messages /\ TypeOK
    BY ConstantsAssumption DEF Messages, StopInv, WhereInv
  <2> QED BY <2>1, MadeType DEF T, TypeOK
<1>1. lock[t] # m /\ m \notin hit
  <2>1. CASE m \notin Made
    BY <1>0, <2>1 DEF TypeOK
  <2>2. CASE m \in Made
    <3>1. m \notin seen /\ at[m] \in {"done", "lost"}
      BY <2>2 DEF OnRecord, StopInv, WhereInv, Seen
    <3> QED BY <1>0, <3>1 DEF StopInv, WhereInv, Locks, Heard
  <2> QED BY <2>1, <2>2
<1>2. told'[m] = told[m] /\ (OnRecord(m)' => told[m] = 0)
  <2>1. told' = told
    BY DEF Accept, Event, Webhook
  <2>2. CASE m \notin Made
    BY <2>1, <2>2 DEF StopInv, WhereInv, Untouched
  <2>3. CASE m \in Made
    BY <1>0, <2>1, <2>3 DEF OnRecord, StopInv, WhereInv, Seen
  <2> QED BY <2>2, <2>3
<1>3. /\ UNCHANGED <<run, out, told, lock>> /\ seen \subseteq seen' /\ flags \subseteq flags'
      /\ \A k \in Made : k # m => at'[k] = at[k] /\ answer'[k] = answer[k]
  BY <1>0 DEF Accept, Event, Webhook, Cancel, Go, Say, TypeOK, shared
<1>4. hit' = hit \/ (t \in SlackThreads /\ t \in flags' /\ hit' = hit \cup {k \in Messages : lock[t] = k})
  BY DEF Accept, Event, Webhook, Cancel
<1>5. at'[m] \in {"queued", "waiting"} => answer'[m] = "none"
  <2>1. CASE t \in SlackThreads
    BY <1>0, <2>1 DEF Accept, Event, Go, Say, TypeOK
  <2>2. CASE t \notin SlackThreads
    BY <1>0, <2>2 DEF Accept, Webhook, Say, TypeOK
  <2> QED BY <2>1, <2>2
<1>6. at'[m] \in {"queued", "waiting", "reply", "lost"}
  BY <1>0 DEF Accept, Event, Webhook, Go, TypeOK
<1>7. \A k \in Made' :
       /\ at'[k] = "reply" /\ lock'[T(k)'] = k => answer'[k] = "stopped"
       /\ at'[k] \in {"queued", "ack", "waiting", "status", "turn"} => answer'[k] = "none"
  BY <1>0, <1>1, <1>3, <1>5, <1>6 DEF StopInv, Heard
<1>8. \A k \in hit' :
       /\ T(k)' \in SlackThreads /\ k \in seen' /\ answer'[k] # "reply"
       /\ at'[k] \in {"status", "turn", "reply", "done", "lost"}
       /\ at'[k] = "status" => T(k)' \in flags'
       /\ at'[k] = "turn" => \/ T(k)' \in flags'
                             \/ run'[k] = "ended" /\ out'[k] \in {"cancelled", "failed"}
  <2>1. \A k \in hit : k \in Made /\ k # m
    BY <1>0, <1>1
  <2>2. ASSUME NEW k \in hit
        PROVE  /\ T(k)' \in SlackThreads /\ k \in seen' /\ answer'[k] # "reply"
               /\ at'[k] \in {"status", "turn", "reply", "done", "lost"}
               /\ at'[k] = "status" => T(k)' \in flags'
               /\ at'[k] = "turn" => \/ T(k)' \in flags'
                                     \/ run'[k] = "ended" /\ out'[k] \in {"cancelled", "failed"}
    <3>1. /\ T(k) \in SlackThreads /\ k \in seen /\ answer[k] # "reply"
          /\ at[k] \in {"status", "turn", "reply", "done", "lost"}
          /\ at[k] = "status" => T(k) \in flags
          /\ at[k] = "turn" => \/ T(k) \in flags
                               \/ run[k] = "ended" /\ out[k] \in {"cancelled", "failed"}
      BY DEF StopInv, Heard
    <3>2. /\ T(k)' = T(k) /\ k \in seen' /\ answer'[k] = answer[k] /\ at'[k] = at[k]
          /\ run'[k] = run[k] /\ out'[k] = out[k] /\ (T(k) \in flags => T(k) \in flags')
      BY <1>3, <2>1, <3>1
    <3> QED BY <3>1, <3>2 DEF T
  <2>3. ASSUME t \in SlackThreads, t \in flags', NEW k \in Messages, lock[t] = k
        PROVE  /\ T(k)' \in SlackThreads /\ k \in seen' /\ answer'[k] # "reply"
               /\ at'[k] \in {"status", "turn", "reply", "done", "lost"} /\ T(k)' \in flags'
    <3>1. /\ k \in Made /\ k # m /\ T(k) = t /\ at[k] \in {"status", "turn", "reply"} /\ k \in seen
          /\ answer[k] # "reply"
      <4>1. k \in Made /\ k # 0 /\ k # m
        BY <1>0, <1>1, <2>3, ConstantsAssumption DEF TypeOK, Messages
      <4>2. T(k) = t /\ at[k] \in {"status", "turn", "reply"}
        BY <2>3, <4>1 DEF StopInv, WhereInv, Locks
      <4>3. k \in seen /\ answer[k] # "reply"
        BY <2>3, <4>1, <4>2 DEF OnRecord, StopInv, WhereInv, Seen, Heard
      <4> QED BY <4>1, <4>2, <4>3
    <3> QED BY <1>3, <2>3, <3>1
  <2>4. CASE hit' = hit
    BY <2>2, <2>4
  <2>5. CASE t \in SlackThreads /\ t \in flags' /\ hit' = hit \cup {k \in Messages : lock[t] = k}
    <3> SUFFICES ASSUME NEW k \in hit'
                 PROVE  /\ T(k)' \in SlackThreads /\ k \in seen' /\ answer'[k] # "reply"
                        /\ at'[k] \in {"status", "turn", "reply", "done", "lost"}
                        /\ at'[k] = "status" => T(k)' \in flags'
                        /\ at'[k] = "turn" =>
                             \/ T(k)' \in flags'
                             \/ run'[k] = "ended" /\ out'[k] \in {"cancelled", "failed"}
      BY DEF T
    <3>1. CASE k \in hit
      BY <2>2, <3>1
    <3>2. CASE k \in Messages /\ lock[t] = k
      BY <2>3, <2>5, <3>2
    <3> QED BY <2>5, <3>1, <3>2
  <2> QED BY <1>4, <2>4, <2>5
<1>9. Heard'
  BY <1>7, <1>8 DEF Heard
<1>10. Once'
  <2> SUFFICES ASSUME NEW k \in Made', OnRecord(k)'
               PROVE  told'[k] <= 1 /\ (told'[k] = 1 => at'[k] \in {"done", "lost"})
    BY DEF OnRecord, Once
  <2>1. CASE k = m
    BY <1>2, <2>1
  <2>2. CASE k # m
    BY <1>3, <2>2 DEF OnRecord, StopInv, Once
  <2> QED BY <2>1, <2>2
<1> QED BY <1>9, <1>10

LEMMA TakeHeard == ASSUME StopInv, WhereInv', Take PROVE Heard' /\ Once'
<1> DEFINE m == Head(queue)
<1>1. m \in Made /\ m = queue[1] /\ 1 \in DOMAIN queue
  BY QueueHead DEF Take, StopInv, WhereInv, TypeOK
<1>2. /\ hand = 0 /\ UNCHANGED <<msg, seen, run, out, told, lock, crashes, torn>>
      /\ \/ Cancel(T(m)) /\ Go(m, "reply") /\ Say(m, "stopping")
         \/ Go(m, "ack") /\ UNCHANGED <<answer, active, flags, hit>>
  BY DEF Take
<1> HIDE DEF m
<1>3. /\ TypeOK /\ m \in Messages /\ Made \subseteq Messages /\ T(m) \in Threads
      /\ hit \subseteq Made /\ 0 \notin Messages
      /\ \A k \in Made : T(k) \in Threads /\ k # 0
  <2>1. 0 \notin Messages /\ TypeOK
    BY ConstantsAssumption DEF Messages, StopInv, WhereInv
  <2> QED BY <1>1, <2>1, MadeType DEF TypeOK
<1>4. at[m] = "queued" /\ T(m) \in Chats
  BY <1>1 DEF StopInv, WhereInv, Places
<1>5. lock[T(m)] = 0
  <2>1. CASE lock[T(m)] # 0
    <3>1. /\ lock[T(m)] \in Made /\ T(lock[T(m)]) = T(m) /\ at[lock[T(m)]] = "turn"
      BY <1>3, <1>4, <2>1 DEF StopInv, WhereInv, Locks, TypeOK
    <3>2. hand = lock[T(m)]
      BY <1>4, <3>1 DEF StopInv, WhereInv, Places
    <3> QED BY <1>2, <2>1, <3>2
  <2> QED BY <2>1
<1>6. /\ hit' = hit /\ flags \subseteq flags' /\ m \notin hit
      /\ \A k \in Made : k # m => at'[k] = at[k] /\ answer'[k] = answer[k]
      /\ at'[m] \in {"reply", "ack"} /\ (at'[m] = "ack" => answer'[m] = answer[m])
  <2>1. m \notin hit
    BY <1>4 DEF StopInv, Heard
  <2>2. {k \in Messages : lock[T(m)] = k} = {}
    BY <1>3, <1>5
  <2>3. hit' = hit /\ flags \subseteq flags'
    BY <1>2, <2>2 DEF Cancel
  <2>4. /\ \A k \in Made : k # m => at'[k] = at[k] /\ answer'[k] = answer[k]
        /\ at'[m] \in {"reply", "ack"} /\ (at'[m] = "ack" => answer'[m] = answer[m])
    BY <1>2, <1>3 DEF Go, Say, TypeOK
  <2> QED BY <2>1, <2>3, <2>4
<1>7. answer[m] = "none"
  BY <1>1, <1>4 DEF StopInv, Heard
<1>8. Heard'
  <2>1. \A k \in Made :
          /\ at'[k] = "reply" /\ lock'[T(k)] = k => answer'[k] = "stopped"
          /\ at'[k] \in {"queued", "ack", "waiting", "status", "turn"} => answer'[k] = "none"
    BY <1>2, <1>3, <1>5, <1>6, <1>7 DEF StopInv, Heard
  <2>2. \A k \in hit' :
       /\ T(k) \in SlackThreads /\ k \in seen' /\ answer'[k] # "reply"
       /\ at'[k] \in {"status", "turn", "reply", "done", "lost"}
       /\ at'[k] = "status" => T(k) \in flags'
       /\ at'[k] = "turn" => \/ T(k) \in flags'
                             \/ run'[k] = "ended" /\ out'[k] \in {"cancelled", "failed"}
    <3>1. \A k \in hit : k \in Made /\ k # m /\ at'[k] = at[k] /\ answer'[k] = answer[k]
      BY <1>3, <1>6
    <3>0. hit' = hit
      BY <1>6
    <3> SUFFICES ASSUME NEW k \in hit
                 PROVE  /\ T(k) \in SlackThreads /\ k \in seen' /\ answer'[k] # "reply"
                        /\ at'[k] \in {"status", "turn", "reply", "done", "lost"}
                        /\ at'[k] = "status" => T(k) \in flags'
                        /\ at'[k] = "turn" =>
                             \/ T(k) \in flags'
                             \/ run'[k] = "ended" /\ out'[k] \in {"cancelled", "failed"}
      BY <3>0
    <3>2. /\ T(k) \in SlackThreads /\ k \in seen /\ answer[k] # "reply"
          /\ at[k] \in {"status", "turn", "reply", "done", "lost"}
          /\ at[k] = "status" => T(k) \in flags
          /\ at[k] = "turn" => \/ T(k) \in flags
                               \/ run[k] = "ended" /\ out[k] \in {"cancelled", "failed"}
      BY DEF StopInv, Heard
    <3>3. /\ seen' = seen /\ run' = run /\ out' = out /\ (T(k) \in flags => T(k) \in flags')
          /\ at'[k] = at[k] /\ answer'[k] = answer[k]
      BY <1>2, <1>6, <3>1
    <3> QED BY <3>2, <3>3
  <2> QED BY <1>2, <2>1, <2>2 DEF Heard, Made, T
<1>9. Once'
  <2>1. \A k \in Made : k # m => at'[k] = at[k] /\ told'[k] = told[k]
    BY <1>2, <1>6
  <2>2. OnRecord(m) => told[m] <= 1 /\ told[m] # 1
    BY <1>1, <1>4 DEF OnRecord, StopInv, Once
  <2> QED BY <1>2, <2>1, <2>2 DEF OnRecord, StopInv, Once, Made, T
<1> QED BY <1>8, <1>9

LEMMA SkipHeard == ASSUME StopInv, WhereInv', Skip PROVE Heard' /\ Once'
<1> DEFINE m == Head(queue)
<1>1. m \in Made /\ m = queue[1] /\ 1 \in DOMAIN queue
  BY QueueHead DEF Skip, StopInv, WhereInv, TypeOK
<1>2. /\ UNCHANGED <<msg, seen, run, out, told, answer, lock, flags, hit, crashes, torn>>
      /\ at' = [at EXCEPT ![m] = "done"]
  BY DEF Skip, Go, shared, history
<1> HIDE DEF m
<1>3. /\ m \in Messages /\ Made \subseteq Messages /\ hit \subseteq Made
      /\ at'[m] = "done" /\ \A k \in Made : k # m => at'[k] = at[k]
  <2>1. TypeOK
    BY DEF StopInv, WhereInv
  <2>2. m \in Messages /\ Made \subseteq Messages /\ hit \subseteq Made
    BY <1>1, <2>1, MadeType DEF TypeOK
  <2> QED BY <1>2, <2>1, <2>2 DEF TypeOK
<1>4. Heard'
  BY <1>2, <1>3 DEF StopInv, Heard, Made, T
<1>5. Once'
  BY <1>2, <1>3 DEF OnRecord, StopInv, Once, Made, T
<1> QED BY <1>4, <1>5

LEMMA CrashHeard == ASSUME StopInv, WhereInv', Crash PROVE Heard' /\ Once'
<1>1. TypeOK /\ Made \subseteq Messages /\ crashes' # 0
  <2>1. TypeOK
    BY DEF StopInv, WhereInv
  <2>2. crashes \in Nat /\ crashes' = crashes + 1
    BY <2>1 DEF TypeOK, Crash
  <2> QED BY <2>1, <2>2, MadeType
<1>2. \A k \in Messages : at'[k] \in {"none", "done", "lost"} /\ (at[k] = "done" => at'[k] = "done")
  BY DEF Crash
<1>3. Heard'
  BY <1>1, <1>2 DEF Crash, Heard, Made
<1>4. Once'
  <2>1. \A k \in Made : at[k] # "none" /\ (at[k] = "lost" => at'[k] = "lost")
    BY <1>1 DEF OnRecord, Crash, StopInv, WhereInv, Seen
  <2>2. \A k \in Made : OnRecord(k)' => OnRecord(k) /\ told'[k] = told[k]
    BY <1>1 DEF OnRecord, Crash, T
  <2>4. \A k \in Made : OnRecord(k)' =>
          told'[k] <= 1 /\ (told'[k] = 1 => at'[k] \in {"done", "lost"})
    BY <1>1, <1>2, <2>1, <2>2 DEF StopInv, Once
  <2>3. Made' = Made /\ msg' = msg
    BY DEF Crash, Made
  <2> QED BY <2>3, <2>4 DEF Once
<1> QED BY <1>3, <1>4

LEMMA StopStep == StopInv /\ [Next]_vars => StopInv'
<1> SUFFICES ASSUME StopInv, [Next]_vars PROVE Heard' /\ Once'
  BY WhereStep DEF StopInv
<1>0. WhereInv' /\ TypeOK
  BY WhereStep DEF StopInv, WhereInv
<1>1. ASSUME NEW t \in Threads, NEW kind \in Kinds, Deliver(t, kind) PROVE Heard' /\ Once'
  <2> DEFINE m == Len(msg) + 1
  <2>1. /\ m \in Messages /\ msg' = Append(msg, [thread |-> t, kind |-> kind])
        /\ Accept(m, t, kind) /\ UNCHANGED <<crashes, torn>>
    BY <1>1 DEF Deliver
  <2>2. /\ Made' = Made \cup {m} /\ m \notin Made /\ msg'[m].thread = t
        /\ \A k \in Made : T(k)' = T(k)
    BY <1>0, <2>1, MessageAdded
  <2> HIDE DEF m
  <2> QED BY <1>0, <2>1, <2>2, AcceptHeard
<1>2. ASSUME NEW m \in Made, Redeliver(m) PROVE Heard' /\ Once'
  <2>1. m \in Messages /\ T(m) \in Threads /\ msg[m].kind \in Kinds
    BY <1>0, MadeType
  <2>2. msg' = msg /\ UNCHANGED <<crashes, torn>> /\ m \notin seen /\ Accept(m, T(m), msg[m].kind)
    BY <1>2 DEF Redeliver
  <2>3. /\ Made' = Made \cup {m} /\ msg'[m].thread = T(m) /\ \A k \in Made : T(k)' = T(k)
    BY <2>2 DEF Made, T
  <2> QED BY <1>0, <2>1, <2>2, <2>3, AcceptHeard
<1>3. CASE UNCHANGED vars
  BY <1>3 DEF OnRecord, vars, inbound, turn, shared, history, StopInv, Heard, Once, Made, T
<1> QED BY <1>0, <1>1, <1>2, <1>3, CrashHeard, TakeHeard, SkipHeard, EnterHeard, StartRunHeard,
     ReturnHeard, ReplyHeard, TimeoutHeard, SendHeard, RegisterHeard, FinishHeard
     DEF Next, System, Environment, Daemon, Agent

LEMMA InitialStop == Init => StopInv
<1>1. Init => TypeOK
  BY InitialType
<1>2. Init => Made = {}
  BY DEF Init, Made
<1>3. Init => WhereInv
  BY <1>1, <1>2 DEF OnRecord, Init, WhereInv, Untouched, Places, Seen, Locks
<1> QED BY <1>2, <1>3 DEF OnRecord, Init, StopInv, Heard, Once

LEMMA StopInvariant == Spec => []StopInv
BY InitialStop, StopStep, PTL DEF Spec

(* A STOP IS HEARD: a turn that was under way when a stop was taken, at its *)
(* status message, in its run or after it, does not answer as if nothing    *)
(* had happened (runner.py:121, 276-285, 373-378).                          *)
THEOREM StopIsHeard == Spec => []StopHeard
<1>1. StopInv => StopHeard
  BY DEF StopInv, Heard, StopHeard
<1> QED BY <1>1, StopInvariant, PTL

(* ONE ANSWER: through redeliveries, timeouts and stops no message gets two *)
(* answers, and through crashes none of WhatsApp does (dedupe.py:56,        *)
(* session.py:39).                                                          *)
THEOREM OneAnswer == Spec => []AnsweredOnce
<1>1. StopInv => AnsweredOnce
  BY DEF OnRecord, StopInv, Once, AnsweredOnce
<1> QED BY <1>1, StopInvariant, PTL

-----------------------------------------------------------------------------
(* One stop ends one turn.                                                  *)

(* The turns that a stop was charged to: answered with "stopped", or about  *)
(* to be since their run was cancelled.                                     *)
Ended(m)   == answer[m] = "stopped" \/ out[m] = "cancelled"
Charged(t) == {m \in Made : T(m) = t /\ Ended(m)}

(* A flag is a stop that was charged to nobody yet.                         *)
Spent ==
  \A t \in Threads : Cardinality(Charged(t)) + (IF t \in flags THEN 1 ELSE 0) <= stops[t]

SpentInv == StopInv /\ Spent

(* A step charges nobody, or takes a stop, or charges one turn and spends   *)
(* the flag.                                                                *)
LEMMA SpentKept ==
  ASSUME TypeOK, TypeOK', Spent,
         \A t \in Threads :
           \/ Charged(t)' \subseteq Charged(t) /\ (t \in flags' => t \in flags) /\ stops'[t] = stops[t]
           \/ Charged(t)' \subseteq Charged(t) /\ stops'[t] = stops[t] + 1
           \/ /\ \E m \in Messages : Charged(t)' \subseteq Charged(t) \cup {m}
              /\ t \in flags /\ t \notin flags' /\ stops'[t] = stops[t]
  PROVE  Spent'
<1> SUFFICES ASSUME NEW t \in Threads
             PROVE  Cardinality(Charged(t)') + (IF t \in flags' THEN 1 ELSE 0) <= stops'[t]
  BY DEF Spent
<1>1. IsFiniteSet(Charged(t)) /\ Cardinality(Charged(t)) \in Nat
  <2>1. Made = 1 .. Len(msg) /\ Len(msg) \in Nat
    BY MadeType
  <2>2. IsFiniteSet(Made)
    BY <2>1, FS_Interval
  <2>3. Charged(t) \subseteq Made
    BY DEF Charged
  <2> QED BY <2>2, <2>3, FS_Subset, FS_CardinalityType
<1>2. stops[t] \in Nat /\ Cardinality(Charged(t)) + (IF t \in flags THEN 1 ELSE 0) <= stops[t]
  BY DEF Spent, TypeOK
<1>3. ASSUME Charged(t)' \subseteq Charged(t)
      PROVE  Cardinality(Charged(t)') \in Nat /\ Cardinality(Charged(t)') <= Cardinality(Charged(t))
  BY <1>1, <1>3, FS_Subset, FS_CardinalityType
<1>4. ASSUME NEW m \in Messages, Charged(t)' \subseteq Charged(t) \cup {m}
      PROVE  Cardinality(Charged(t)') \in Nat /\ Cardinality(Charged(t)') <= Cardinality(Charged(t)) + 1
  <2>1. /\ IsFiniteSet(Charged(t) \cup {m})
        /\ Cardinality(Charged(t) \cup {m}) \in {Cardinality(Charged(t)), Cardinality(Charged(t)) + 1}
    BY <1>1, FS_AddElement
  <2>2. /\ Cardinality(Charged(t)') \in Nat
        /\ Cardinality(Charged(t)') <= Cardinality(Charged(t) \cup {m})
    BY <1>4, <2>1, FS_Subset, FS_CardinalityType
  <2> QED BY <1>1, <2>1, <2>2
<1> QED BY <1>1, <1>2, <1>3, <1>4

(* A step of one turn charges at most that turn, for the flag it spends.    *)
LEMMA TurnSpends ==
  ASSUME SpentInv, WhereInv', NEW m \in Made, msg' = msg, stops' = stops,
         \A k \in Made : k # m => answer'[k] = answer[k] /\ out'[k] = out[k],
         \/ (Ended(m)' => Ended(m)) /\ flags' \subseteq flags
         \/ T(m) \in flags /\ flags' = flags \ {T(m)}
  PROVE  Spent'
<1>1. TypeOK /\ TypeOK' /\ Spent /\ Made' = Made /\ m \in Messages
  BY MadeType DEF SpentInv, StopInv, WhereInv, Made
<1>2. CASE (Ended(m)' => Ended(m)) /\ flags' \subseteq flags
  <2>1. \A t \in Threads : Charged(t)' \subseteq Charged(t)
    BY <1>1, <1>2 DEF Charged, Ended, T
  <2> QED BY <1>1, <1>2, <2>1, SpentKept
<1>3. CASE T(m) \in flags /\ flags' = flags \ {T(m)}
  <2>1. \A t \in Threads : t # T(m) => Charged(t)' \subseteq Charged(t)
    BY <1>1 DEF Charged, Ended, T
  <2>2. \A t \in Threads : Charged(t)' \subseteq Charged(t) \cup {m}
    BY <1>1 DEF Charged, Ended, T
  <2>3. ASSUME NEW t \in Threads
        PROVE  \/ Charged(t)' \subseteq Charged(t) /\ (t \in flags' => t \in flags) /\ stops'[t] = stops[t]
               \/ Charged(t)' \subseteq Charged(t) /\ stops'[t] = stops[t] + 1
               \/ /\ \E k \in Messages : Charged(t)' \subseteq Charged(t) \cup {k}
                  /\ t \in flags /\ t \notin flags' /\ stops'[t] = stops[t]
    <3>1. CASE t = T(m)
      BY <1>1, <1>3, <2>2, <3>1
    <3>2. CASE t # T(m)
      BY <1>3, <2>1, <3>2
    <3> QED BY <3>1, <3>2
  <2> QED BY <1>1, <2>3, SpentKept
<1> QED BY <1>2, <1>3

LEMMA EnterSpent == ASSUME SpentInv, WhereInv', NEW m \in Made, Enter(m) PROVE Spent'
<1>0. TypeOK /\ m \in Messages /\ Made \subseteq Messages
  BY MadeType DEF SpentInv, StopInv, WhereInv
<1>1. msg' = msg /\ stops' = stops
  BY DEF Enter, inbound, history
<1>2. \A k \in Made : k # m => answer'[k] = answer[k] /\ out'[k] = out[k]
  BY <1>0 DEF Enter, Stopped, Say, TypeOK
<1>3. \/ (Ended(m)' => Ended(m)) /\ flags' \subseteq flags
      \/ T(m) \in flags /\ flags' = flags \ {T(m)}
  BY <1>0, ConstantsAssumption DEF Ended, Enter, Stopped, Say, Spend, history, TypeOK
<1> QED BY <1>1, <1>2, <1>3, TurnSpends

LEMMA StartRunSpent == ASSUME SpentInv, WhereInv', NEW m \in Made, StartRun(m) PROVE Spent'
<1>0. TypeOK /\ m \in Messages /\ Made \subseteq Messages
  BY MadeType DEF SpentInv, StopInv, WhereInv
<1>1. msg' = msg /\ stops' = stops
  BY DEF StartRun, inbound, history
<1>2. \A k \in Made : k # m => answer'[k] = answer[k] /\ out'[k] = out[k]
  BY <1>0 DEF StartRun, Stopped, Say, TypeOK
<1>3. \/ (Ended(m)' => Ended(m)) /\ flags' \subseteq flags
      \/ T(m) \in flags /\ flags' = flags \ {T(m)}
  BY <1>0, ConstantsAssumption DEF Ended, StartRun, Stopped, Say, Spend, history, TypeOK
<1> QED BY <1>1, <1>2, <1>3, TurnSpends

LEMMA ReturnSpent == ASSUME SpentInv, WhereInv', NEW m \in Made, Return(m) PROVE Spent'
<1>0. TypeOK /\ m \in Messages /\ Made \subseteq Messages
  BY MadeType DEF SpentInv, StopInv, WhereInv
<1>1. msg' = msg /\ stops' = stops
  BY DEF Return, inbound, history
<1>2. \A k \in Made : k # m => answer'[k] = answer[k] /\ out'[k] = out[k]
  BY <1>0 DEF Return, Stopped, StopAtEnd, Verdict, Say, TypeOK
<1>3. \/ (Ended(m)' => Ended(m)) /\ flags' \subseteq flags
      \/ T(m) \in flags /\ flags' = flags \ {T(m)}
  BY <1>0, ConstantsAssumption DEF Ended, Return, Stopped, StopAtEnd, Verdict, Say, Spend, history, TypeOK
<1> QED BY <1>1, <1>2, <1>3, TurnSpends

LEMMA ReplySpent == ASSUME SpentInv, WhereInv', NEW m \in Made, Reply(m) PROVE Spent'
<1>0. TypeOK /\ m \in Messages /\ Made \subseteq Messages
  BY MadeType DEF SpentInv, StopInv, WhereInv
<1>1. msg' = msg /\ stops' = stops
  BY DEF Reply, inbound, history
<1>2. \A k \in Made : k # m => answer'[k] = answer[k] /\ out'[k] = out[k]
  BY <1>0 DEF Reply, TypeOK
<1>3. \/ (Ended(m)' => Ended(m)) /\ flags' \subseteq flags
      \/ T(m) \in flags /\ flags' = flags \ {T(m)}
  BY <1>0, ConstantsAssumption DEF Ended, Reply, history, TypeOK
<1> QED BY <1>1, <1>2, <1>3, TurnSpends

LEMMA TimeoutSpent == ASSUME SpentInv, WhereInv', NEW m \in Made, Timeout(m) PROVE Spent'
<1>0. TypeOK /\ m \in Messages /\ Made \subseteq Messages
  BY MadeType DEF SpentInv, StopInv, WhereInv
<1>1. msg' = msg /\ stops' = stops
  BY DEF Timeout, inbound, history
<1>2. \A k \in Made : k # m => answer'[k] = answer[k] /\ out'[k] = out[k]
  BY <1>0 DEF Timeout, TypeOK
<1>3. \/ (Ended(m)' => Ended(m)) /\ flags' \subseteq flags
      \/ T(m) \in flags /\ flags' = flags \ {T(m)}
  BY <1>0, ConstantsAssumption DEF Ended, Timeout, history, TypeOK
<1> QED BY <1>1, <1>2, <1>3, TurnSpends

LEMMA SendSpent == ASSUME SpentInv, WhereInv', NEW m \in Made, Send(m) PROVE Spent'
<1>0. TypeOK /\ m \in Messages /\ Made \subseteq Messages
  BY MadeType DEF SpentInv, StopInv, WhereInv
<1>1. msg' = msg /\ stops' = stops
  BY DEF Send, inbound, history
<1>2. \A k \in Made : k # m => answer'[k] = answer[k] /\ out'[k] = out[k]
  BY <1>0 DEF Send, CutShort, Ends, TypeOK
<1>3. \/ (Ended(m)' => Ended(m)) /\ flags' \subseteq flags
      \/ T(m) \in flags /\ flags' = flags \ {T(m)}
  BY <1>0, ConstantsAssumption DEF Ended, Send, CutShort, Ends, Spend, history, TypeOK
<1> QED BY <1>1, <1>2, <1>3, TurnSpends

LEMMA RegisterSpent == ASSUME SpentInv, WhereInv', NEW m \in Made, Register(m) PROVE Spent'
<1>0. TypeOK /\ m \in Messages /\ Made \subseteq Messages
  BY MadeType DEF SpentInv, StopInv, WhereInv
<1>1. msg' = msg /\ stops' = stops
  BY DEF Register, inbound, history
<1>2. \A k \in Made : k # m => answer'[k] = answer[k] /\ out'[k] = out[k]
  BY <1>0 DEF Register, CutShort, Ends, TypeOK
<1>3. \/ (Ended(m)' => Ended(m)) /\ flags' \subseteq flags
      \/ T(m) \in flags /\ flags' = flags \ {T(m)}
  BY <1>0, ConstantsAssumption DEF Ended, Register, CutShort, Ends, Spend, history, TypeOK
<1> QED BY <1>1, <1>2, <1>3, TurnSpends

LEMMA FinishSpent == ASSUME SpentInv, WhereInv', NEW m \in Made, Finish(m) PROVE Spent'
<1>0. TypeOK /\ m \in Messages /\ Made \subseteq Messages
  BY MadeType DEF SpentInv, StopInv, WhereInv
<1>1. msg' = msg /\ stops' = stops
  BY DEF Finish, inbound, history
<1>2. \A k \in Made : k # m => answer'[k] = answer[k] /\ out'[k] = out[k]
  BY <1>0 DEF Finish, CutShort, Ends, TypeOK
<1>3. \/ (Ended(m)' => Ended(m)) /\ flags' \subseteq flags
      \/ T(m) \in flags /\ flags' = flags \ {T(m)}
  BY <1>0, ConstantsAssumption DEF Ended, Finish, CutShort, Ends, Spend, history, TypeOK
<1> QED BY <1>1, <1>2, <1>3, TurnSpends

LEMMA AcceptSpent ==
  ASSUME SpentInv, WhereInv', NEW m \in Messages, NEW t \in Threads, NEW kind \in Kinds,
         m \in Made => T(m) = t,
         Made' = Made \cup {m}, \A k \in Made : T(k)' = T(k), msg'[m].thread = t,
         Accept(m, t, kind)
  PROVE  Spent'
<1>0. TypeOK /\ TypeOK' /\ Spent /\ Made \subseteq Messages
  BY MadeType DEF SpentInv, StopInv, WhereInv
<1>1. out' = out /\ \A k \in Made : k # m => answer'[k] = answer[k]
  BY <1>0 DEF Accept, Event, Webhook, Say, TypeOK
<1>2. answer'[m] = "stopped" => answer[m] = "stopped"
  BY <1>0 DEF Accept, Event, Webhook, Say, TypeOK
<1>3. m \in Made \/ (answer[m] = "none" /\ out[m] = "none")
  BY DEF SpentInv, StopInv, WhereInv, Untouched
<1>4. \A x \in Threads : Charged(x)' \subseteq Charged(x)
  <2> SUFFICES ASSUME NEW x \in Threads, NEW k \in Made', msg'[k].thread = x,
                      answer'[k] = "stopped" \/ out'[k] = "cancelled"
               PROVE  k \in Charged(x)
    BY DEF Charged, Ended, T
  <2>1. k \in Made /\ (answer[k] = "stopped" \/ out[k] = "cancelled")
    BY <1>0, <1>1, <1>2, <1>3
  <2>2. T(k) = x
    BY <2>1 DEF T
  <2> QED BY <2>1, <2>2 DEF Charged, Ended
<1>5. \/ flags' = flags /\ stops' = stops
      \/ flags' = flags \cup {t} /\ stops' = [stops EXCEPT ![t] = @ + 1]
  BY DEF Accept, Event, Webhook, Cancel, shared
<1>6. \A x \in Threads : \/ (x \in flags' => x \in flags) /\ stops'[x] = stops[x]
                         \/ stops'[x] = stops[x] + 1
  BY <1>0, <1>5 DEF TypeOK
<1> QED BY <1>0, <1>4, <1>6, SpentKept

LEMMA WorkerSpent == ASSUME SpentInv, WhereInv', Take \/ Skip PROVE Spent'
<1> DEFINE m == Head(queue)
<1>0. TypeOK /\ TypeOK' /\ Spent /\ m \in Messages /\ T(m) \in Threads /\ Made \subseteq Messages
  <2>1. TypeOK
    BY DEF SpentInv, StopInv, WhereInv
  <2>2. m \in Made
    BY <2>1, QueueHead DEF Take, Skip, TypeOK
  <2> QED BY <2>1, <2>2, MadeType DEF SpentInv, WhereInv
<1>1. /\ out' = out /\ msg' = msg
      /\ answer' = answer \/ answer' = [answer EXCEPT ![m] = "stopping"]
      /\ \/ flags' = flags /\ stops' = stops
         \/ flags' = flags \cup {T(m)} /\ stops' = [stops EXCEPT ![T(m)] = @ + 1]
  BY DEF Take, Skip, Say, Cancel, shared, history
<1> HIDE DEF m
<1>2. \A k \in Made : answer'[k] = "stopped" => answer[k] = "stopped"
  BY <1>0, <1>1 DEF TypeOK
<1>3. \A x \in Threads : Charged(x)' \subseteq Charged(x)
  BY <1>1, <1>2 DEF Charged, Ended, T, Made
<1>4. \A x \in Threads : \/ (x \in flags' => x \in flags) /\ stops'[x] = stops[x]
                         \/ stops'[x] = stops[x] + 1
  BY <1>0, <1>1 DEF TypeOK
<1> QED BY <1>0, <1>3, <1>4, SpentKept

LEMMA SpentStep == SpentInv /\ [Next]_vars => SpentInv'
<1> SUFFICES ASSUME SpentInv, [Next]_vars PROVE Spent'
  BY StopStep DEF SpentInv
<1>0. WhereInv' /\ TypeOK /\ TypeOK' /\ Spent
  BY WhereStep DEF SpentInv, StopInv, WhereInv
<1>1. ASSUME NEW t \in Threads, NEW kind \in Kinds, Deliver(t, kind) PROVE Spent'
  <2> DEFINE m == Len(msg) + 1
  <2>1. /\ m \in Messages /\ msg' = Append(msg, [thread |-> t, kind |-> kind])
        /\ Accept(m, t, kind)
    BY <1>1 DEF Deliver
  <2>2. /\ Made' = Made \cup {m} /\ m \notin Made /\ msg'[m].thread = t
        /\ \A k \in Made : T(k)' = T(k)
    BY <1>0, <2>1, MessageAdded
  <2> HIDE DEF m
  <2> QED BY <1>0, <2>1, <2>2, AcceptSpent
<1>2. ASSUME NEW m \in Made, Redeliver(m) PROVE Spent'
  <2>1. m \in Messages /\ T(m) \in Threads /\ msg[m].kind \in Kinds
    BY <1>0, MadeType
  <2>2. msg' = msg /\ Accept(m, T(m), msg[m].kind)
    BY <1>2 DEF Redeliver
  <2>3. /\ Made' = Made \cup {m} /\ msg'[m].thread = T(m) /\ \A k \in Made : T(k)' = T(k)
    BY <2>2 DEF Made, T
  <2> QED BY <1>0, <2>1, <2>2, <2>3, AcceptSpent
<1>3. CASE Crash
  <2>1. \A x \in Threads : Charged(x)' \subseteq Charged(x)
    <3>1. msg' = msg /\ answer' = answer /\ \A k \in Messages : out'[k] = "none"
      BY <1>3 DEF Crash
    <3>2. Made \subseteq Messages
      BY <1>0, MadeType
    <3> QED BY <3>1, <3>2 DEF Charged, Ended, T, Made
  <2>2. flags' = {} /\ stops' = stops
    BY <1>3 DEF Crash
  <2> QED BY <1>0, <2>1, <2>2, SpentKept
<1>4. CASE UNCHANGED vars
  <2>1. \A x \in Threads : Charged(x)' = Charged(x)
    BY <1>4 DEF vars, inbound, turn, Charged, Ended, T, Made
  <2>2. flags' = flags /\ stops' = stops
    BY <1>4 DEF vars, shared, history
  <2> QED BY <1>0, <2>1, <2>2 DEF Spent
<1> QED BY <1>0, <1>1, <1>2, <1>3, <1>4, WorkerSpent, EnterSpent, StartRunSpent, ReturnSpent,
     ReplySpent, TimeoutSpent, SendSpent, RegisterSpent, FinishSpent
     DEF Next, System, Environment, Daemon, Agent

(* ONE STOP ENDS ONE TURN: a flag is spent by the turn it ends, in the      *)
(* thread or in the loop, so that no more turns are answered "stopped" than *)
(* stops were taken (runner.py:144-147, 198-221, 279-285, 373-378).         *)
THEOREM StopIsSpent == Spec => []StopSpent
<1>1. Init => SpentInv
  <2>1. Init => Spent
    <3> SUFFICES ASSUME Init, NEW t \in Threads
                 PROVE  Cardinality(Charged(t)) + (IF t \in flags THEN 1 ELSE 0) <= stops[t]
      BY DEF Spent
    <3>1. Charged(t) = {} /\ flags = {} /\ stops[t] = 0
      BY DEF Init, Charged, Made
    <3> QED BY <3>1, FS_EmptySet
  <2> QED BY <2>1, InitialStop DEF SpentInv
<1>2. SpentInv => StopSpent
  <2> SUFFICES ASSUME SpentInv, NEW t \in Threads
               PROVE  Cardinality({m \in Made : T(m) = t /\ answer[m] = "stopped"}) <= stops[t]
    BY DEF StopSpent
  <2> DEFINE A == {m \in Made : T(m) = t /\ answer[m] = "stopped"}
  <2>1. A \subseteq Charged(t) /\ Charged(t) \subseteq Made
    BY DEF Charged, Ended
  <2>2. IsFiniteSet(Made)
    <3>1. Made = 1 .. Len(msg) /\ Len(msg) \in Nat
      BY MadeType DEF SpentInv, StopInv, WhereInv
    <3> QED BY <3>1, FS_Interval
  <2>3. /\ IsFiniteSet(Charged(t)) /\ Cardinality(Charged(t)) \in Nat
        /\ Cardinality(A) \in Nat /\ Cardinality(A) <= Cardinality(Charged(t))
    BY <2>1, <2>2, FS_Subset, FS_CardinalityType
  <2>4. stops[t] \in Nat /\ Cardinality(Charged(t)) + (IF t \in flags THEN 1 ELSE 0) <= stops[t]
    BY DEF SpentInv, StopInv, WhereInv, TypeOK, Spent
  <2> QED BY <2>3, <2>4
<1> QED BY <1>1, <1>2, SpentStep, PTL DEF Spec

=============================================================================
