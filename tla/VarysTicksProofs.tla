--------------------------- MODULE VarysTicksProofs ---------------------------
(***************************************************************************)
(* Proofs about VarysTicks, for any contexts, ticks and faults.            *)
(***************************************************************************)
EXTENDS VarysTicks, FiniteSetTheorems, TLAPS

Busied(t)  == run[t].at \in {"open", "prompt"}
Holding(c) == {t \in Tickers : At(t, "prompt") /\ run[t].context = c}

(* A tick that dispatches has events of one context, which it has marked    *)
(* once it prompts.                                                         *)
InTurn(t) ==
  /\ run[t].context \in Contexts
  /\ \A e \in run[t].batch : e.context = run[t].context /\ status[e] # "none"
  /\ At(t, "prompt") => \A e \in run[t].batch : status[e] \in {"processing", "done"}

Turns == \A t \in Tickers : Busied(t) => InTurn(t)

(* Every prompt has a session of its own.                                   *)
Counted == \A c \in Contexts : Cardinality(Holding(c)) <= sessions[c]

(* What was put to Claude was marked.                                       *)
Marked == \A e \in Events : prompts[e] > 0 => status[e] \in {"processing", "done"}

(* OneSession, and how the next session and prompt keep it.                 *)
Alone ==
  overruns = 0 =>
    /\ \A t \in Running : lock = t /\ ~lapsed
    /\ \A t, u \in Running : t = u
    /\ \A t \in Tickers : At(t, "open") => sessions[run[t].context] = 0
    /\ \A t \in Tickers : Busied(t) => \A e \in run[t].batch : prompts[e] = 0
    /\ \A c \in Contexts : sessions[c] <= 1
    /\ \A e \in Events : prompts[e] <= 1

Excused(e) == e \in late \cup dropped \/ prompts[e] > 0

(* What a dispatch is about to complete.                                    *)
Covered ==
  \A t \in Tickers, e \in Events :
    Busied(t) /\ e.context = run[t].context /\ status[e] \in {"pending", "processing"} =>
      e \in run[t].batch \/ Excused(e)

(* What no dispatch will complete before a session is closed.               *)
Owned == \A e \in Events : status[e] = "processing" => Excused(e) \/ sessions[e.context] > 0

Revision(i) == [context |-> i, n |-> rev[i]]

(* What the end of the tick skips over.                                     *)
Polled ==
  \A t \in Running, i \in Items :
    run[t].at # "poll" /\ rev[i] > 0 /\ status[Revision(i)] = "none" => Revision(i) \in overlooked

IInv == /\ TypeOK /\ Turns /\ Counted /\ Marked /\ Alone
        /\ Covered /\ Owned /\ Polled /\ EventsAccounted

-----------------------------------------------------------------------------
LEMMA EventTypes ==
  /\ \A e \in Events : e.context \in Contexts
  /\ \A i \in Items, n \in 1 .. MaxRevs : [context |-> i, n |-> n] \in Events
  /\ \A k \in Tickets : Created(k) \in Events
BY ConstantsAssumption DEF Events, Contexts, Created

LEMMA InitInv == Init => IInv
<1> SUFFICES ASSUME Init PROVE IInv OBVIOUS
<1> USE DEF Init
<1>1. TypeOK
  <2>1. Idle \in Turn
    BY DEF Idle, Turn
  <2>2. run \in [Tickers -> Turn]
    BY <2>1
  <2>3. \A t \in Tickers : run[t].at \in {"open", "prompt"} <=> run[t].batch # {}
    BY DEF Idle
  <2>4. rev \in [Items -> 0 .. MaxRevs] /\ sessions \in [Contexts -> Nat] /\ prompts \in [Events -> Nat]
    BY ConstantsAssumption
  <2>5. status \in [Events -> {"none", "pending", "processing", "done"}]
    OBVIOUS
  <2>6. crashes \in 0 .. MaxFaults /\ overruns \in 0 .. MaxFaults
    BY ConstantsAssumption
  <2>7. lock \in Tickers \cup {None} /\ lapsed \in BOOLEAN /\ tickets \subseteq Tickets
          /\ unsynced \subseteq {i \in Items : rev[i] > 0}
          /\ late \subseteq Events /\ dropped \subseteq Events /\ overlooked \subseteq Events
    OBVIOUS
  <2> HIDE DEF Init
  <2> QED BY <2>2, <2>3, <2>4, <2>5, <2>6, <2>7 DEF TypeOK
<1>2. Turns /\ Marked /\ Alone /\ Covered /\ Owned /\ Polled
  BY ConstantsAssumption DEF Turns, Marked, Alone, Covered, Owned, Polled, Busied, Idle, At, Running
<1>3. Counted
  <2>1. \A c \in Contexts : Holding(c) = {}
    BY DEF Holding, At, Idle
  <2> QED BY <2>1, FS_EmptySet DEF Counted
<1>4. EventsAccounted
  BY DEF EventsAccounted
<1> QED BY <1>1, <1>2, <1>3, <1>4 DEF IInv

LEMMA TickersFinite == IsFiniteSet(Tickers)
<1>1. IsFiniteSet({Loop})
  BY FS_Singleton
<1> QED BY <1>1, FS_Union, ConstantsAssumption DEF Tickers

LEMMA HoldingFinite ==
  ASSUME NEW c
  PROVE  IsFiniteSet(Holding(c)) /\ Cardinality(Holding(c)) \in Nat
<1>1. Holding(c) \subseteq Tickers
  BY DEF Holding
<1> QED BY <1>1, TickersFinite, FS_Subset, FS_CardinalityType

(* A prompt's session is there to be closed.                                *)
LEMMA PromptHasSession ==
  ASSUME TypeOK, Counted, Turns, NEW t \in Tickers, At(t, "prompt")
  PROVE  run[t].context \in Contexts /\ sessions[run[t].context] \in Nat \ {0}
<1> DEFINE c == run[t].context
<1>1. c \in Contexts
  BY DEF Turns, Busied, At, InTurn
<1>2. t \in Holding(c)
  BY DEF Holding
<1>3. Cardinality(Holding(c)) # 0
  BY <1>2, HoldingFinite, FS_EmptySet
<1>4. sessions[c] \in Nat /\ Cardinality(Holding(c)) <= sessions[c]
  BY <1>1 DEF TypeOK, Counted
<1> QED BY <1>1, <1>3, <1>4, HoldingFinite

LEMMA TypeStep == TypeOK /\ Counted /\ Turns /\ [Next]_vars => TypeOK'
<1> SUFFICES ASSUME TypeOK, Counted, Turns, [Next]_vars PROVE TypeOK' OBVIOUS
<1> USE ConstantsAssumption, EventTypes DEF TypeOK
<1>1. ASSUME NEW k \in Tickets, Create(k) PROVE TypeOK'
  BY <1>1 DEF Create, Insert
<1>2. ASSUME NEW e \in Events, Approve(e) PROVE TypeOK'
  BY <1>2 DEF Approve, Insert
<1>3. ASSUME NEW i \in Items, Update(i) PROVE TypeOK'
  BY <1>3 DEF Update
<1>4. ASSUME NEW t \in Tickers, Acquire(t) PROVE TypeOK'
  BY <1>4 DEF Acquire, seen, Goto, At, Turn
<1>5. ASSUME NEW t \in Tickers, Poll(t) PROVE TypeOK'
  <2>1. PICK found \in SUBSET unsynced :
          /\ Insert({Created(k) : k \in tickets} \cup Latest(found))
          /\ overlooked' = overlooked \cup Latest(unsynced \ found)
    BY <1>5 DEF Poll
  <2>2. overlooked' \subseteq Events
    <3>1. Latest(unsynced \ found) \subseteq Events
      BY DEF Latest
    <3> QED BY <3>1, <2>1
  <2>3. status' \in [Events -> {"none", "pending", "processing", "done"}] /\ late' \subseteq Events
    <3>1. {Created(k) : k \in tickets} \cup Latest(found) \subseteq Events
      BY DEF Latest
    <3> QED BY <2>1, <3>1 DEF Insert
  <2>4. run' \in [Tickers -> Turn]
    <3> DEFINE Todo == {c \in Contexts : Pending(c)' # {}}
    <3>1. run' = [run EXCEPT ![t].at = "next", ![t].todo = Todo]
      BY <1>5 DEF Poll
    <3>2. Todo \in SUBSET Contexts
      OBVIOUS
    <3> HIDE DEF Todo
    <3>3. [run[t] EXCEPT !.at = "next", !.todo = Todo] \in Turn
      <4>1. run[t] \in Turn
        OBVIOUS
      <4> QED BY <3>2, <4>1 DEF Turn
    <3>4. run' = [run EXCEPT ![t] = [run[t] EXCEPT !.at = "next", !.todo = Todo]]
      BY <3>1
    <3> QED BY <3>3, <3>4
  <2>5. \A u \in Tickers : run'[u].at \in {"open", "prompt"} <=> run'[u].batch # {}
    BY <1>5 DEF Poll, At
  <2> QED BY <1>5, <2>2, <2>3, <2>4, <2>5 DEF Poll
<1>6. ASSUME NEW t \in Tickers, PollRaises(t) PROVE TypeOK'
  BY <1>6 DEF PollRaises, Released, TakeAway, Idle, seen, At, Turn
<1>7. ASSUME NEW t \in Tickers, Look(t) PROVE TypeOK'
  <2>1. PICK c \in run[t].todo :
          \/ run' = [run EXCEPT ![t].todo = run[t].todo \ {c}]
          \/ /\ Pending(c) # {}
             /\ run' = [run EXCEPT ![t] = [at |-> "open", todo |-> run[t].todo \ {c},
                                           context |-> c, batch |-> Pending(c)]]
    BY <1>7 DEF Look, Batch, Empty
  <2>2. c \in Contexts /\ Pending(c) \subseteq Events
    BY DEF Turn, Pending
  <2>3. CASE run' = [run EXCEPT ![t].todo = run[t].todo \ {c}]
    BY <1>7, <2>3 DEF Look, seen, db, Turn
  <2>4. CASE /\ Pending(c) # {}
             /\ run' = [run EXCEPT ![t] = [at |-> "open", todo |-> run[t].todo \ {c},
                                           context |-> c, batch |-> Pending(c)]]
    BY <1>7, <2>2, <2>4 DEF Look, seen, db, Turn
  <2> QED BY <2>1, <2>3, <2>4
<1>8. ASSUME NEW t \in Tickers, Open(t) PROVE TypeOK'
  BY <1>8 DEF Open, Advance, seen, At, Goto, Turns, Busied, InTurn, Turn
<1>9. ASSUME NEW t \in Tickers, Prompt(t) PROVE TypeOK'
  <2>1. sessions' \in [Contexts -> Nat]
    <3>1. run[t].context \in Contexts /\ sessions[run[t].context] \in Nat \ {0}
      BY <1>9, PromptHasSession DEF Prompt
    <3> QED BY <1>9, <3>1 DEF Prompt, Closed
  <2>2. status' \in [Events -> {"none", "pending", "processing", "done"}]
          /\ prompts' \in [Events -> Nat]
    BY <1>9 DEF Prompt, Shown, Done, Advance
  <2> QED BY <1>9, <2>1, <2>2 DEF Prompt, NextTurn, Idle, At, Turn
<1>10. ASSUME NEW t \in Tickers, PromptFails(t) PROVE TypeOK'
  <2>1. sessions' \in [Contexts -> Nat]
    <3>1. run[t].context \in Contexts /\ sessions[run[t].context] \in Nat \ {0}
      BY <1>10, PromptHasSession DEF PromptFails
    <3>2. sessions' = [sessions EXCEPT ![run[t].context] = @ - 1]
      BY <1>10 DEF PromptFails, Closed
    <3> QED BY <3>1, <3>2
  <2>2. prompts' \in [Events -> Nat]
    BY <1>10 DEF PromptFails, Shown
  <2> QED BY <1>10, <2>1, <2>2 DEF PromptFails, NextTurn, Idle, At, Turn
<1>11. ASSUME NEW t \in Tickers, Sync(t) PROVE TypeOK'
  BY <1>11 DEF Sync, Released, TakeAway, Idle, seen, At, Turn
<1>12. ASSUME NEW t \in Tickers, Crash(t) PROVE TypeOK'
  <2>1. crashes' \in 0 .. MaxFaults
    BY <1>12 DEF Crash
  <2>2. sessions' \in [Contexts -> Nat]
    BY <1>12 DEF Crash, Turns, Busied, At
  <2>3. status' \in [Events -> {"none", "pending", "processing", "done"}]
          /\ prompts' \in [Events -> Nat] /\ unsynced' \subseteq Items
    BY <1>12 DEF Crash, Shown, Done, Advance
  <2>4. lock' \in Tickers \cup {None} /\ lapsed' \in BOOLEAN
    BY <1>12 DEF Crash, TakeAway
  <2> QED BY <1>12, <2>1, <2>2, <2>3, <2>4 DEF Crash, Idle, Turn
<1>13. CASE Lapse
  <2>1. overruns' \in 0 .. MaxFaults
    BY <1>13 DEF Lapse
  <2> QED BY <1>13, <2>1 DEF Lapse, db, seen
<1>14. CASE UNCHANGED vars
  BY <1>14 DEF vars, db, seen
<1> QED
  BY <1>1, <1>2, <1>3, <1>4, <1>5, <1>6, <1>7, <1>8, <1>9, <1>10, <1>11, <1>12, <1>13, <1>14
     DEF Next, System, Others, Happens, Step, Tickers

(* The actions, one by one.                                                 *)
LEMMA Steps ==
  [Next]_vars =>
    \/ \E k \in Tickets : Create(k)
    \/ \E e \in Events : Approve(e)
    \/ \E i \in Items : Update(i)
    \/ \E t \in Tickers : \/ Acquire(t) \/ Poll(t) \/ PollRaises(t) \/ Look(t) \/ Open(t)
                          \/ Prompt(t) \/ PromptFails(t) \/ Sync(t) \/ Crash(t)
    \/ Lapse
    \/ UNCHANGED vars
BY DEF Next, System, Others, Happens, Step, Tickers

LEMMA InsertEffect ==
  ASSUME TypeOK, NEW S, Insert(S)
  PROVE  /\ late \subseteq late'
         /\ \A e \in Events :
              \/ status'[e] = status[e]
              \/ /\ status[e] = "none" /\ status'[e] = "pending" /\ e \in S
                 /\ Dispatched(e.context) => e \in late'
         /\ \A e \in S \cap Events : status'[e] # "none"
BY DEF TypeOK, Insert

LEMMA TurnsStep == TypeOK /\ Turns /\ [Next]_vars => Turns'
<1> SUFFICES ASSUME TypeOK, Turns, [Next]_vars, NEW u \in Tickers, Busied(u)'
             PROVE  InTurn(u)'
  BY DEF Turns
<1> USE DEF TypeOK, Turns, Busied, At, InTurn
<1>0. \A e \in run[u].batch : e \in Events
  BY DEF Turn
<1>1. ASSUME NEW S, Insert(S), run' = run PROVE InTurn(u)'
  BY <1>0, <1>1, InsertEffect
<1>2. ASSUME NEW k \in Tickets, Create(k) PROVE InTurn(u)'
  BY <1>1, <1>2 DEF Create
<1>3. ASSUME NEW e \in Events, Approve(e) PROVE InTurn(u)'
  BY <1>1, <1>3 DEF Approve
<1>4. ASSUME status' = status, run'[u] = run[u] PROVE InTurn(u)'
  BY <1>4
<1>5. ASSUME NEW i \in Items, Update(i) PROVE InTurn(u)'
  BY <1>4, <1>5 DEF Update
<1>6. ASSUME NEW t \in Tickers, Acquire(t) PROVE InTurn(u)'
  BY <1>4, <1>6 DEF Acquire, Goto
<1>7. ASSUME NEW t \in Tickers, Poll(t) PROVE InTurn(u)'
  <2>1. u # t /\ run'[u] = run[u]
    BY <1>7 DEF Poll
  <2>2. PICK found \in SUBSET unsynced : Insert({Created(k) : k \in tickets} \cup Latest(found))
    BY <1>7 DEF Poll
  <2> QED BY <1>0, <2>1, <2>2, InsertEffect
<1>8. ASSUME NEW t \in Tickers, PollRaises(t) PROVE InTurn(u)'
  BY <1>4, <1>8 DEF PollRaises, Released, Idle
<1>9. ASSUME NEW t \in Tickers, Look(t) PROVE InTurn(u)'
  <2>1. CASE run'[u] = run[u]
    BY <1>4, <1>9, <2>1 DEF Look, db
  <2>2. CASE run'[u] # run[u]
    <3>1. PICK c \in run[t].todo :
            \/ run' = [run EXCEPT ![t].todo = run[t].todo \ {c}]
            \/ run' = [run EXCEPT ![t] = [at |-> "open", todo |-> run[t].todo \ {c},
                                          context |-> c, batch |-> Pending(c)]]
      BY <1>9 DEF Look, Batch
    <3>2. c \in Contexts
      BY DEF Turn
    <3>3. u = t
      BY <2>2, <3>1
    <3>4. run' # [run EXCEPT ![t].todo = run[t].todo \ {c}]
      BY <1>9, <3>3 DEF Look, Turn
    <3>5. run'[t].context = c /\ run'[t].at = "open" /\ run'[t].batch = Pending(c)
      BY <3>1, <3>4
    <3> QED BY <1>9, <3>2, <3>3, <3>5 DEF Look, db, Pending
  <2> QED BY <2>1, <2>2
<1>10. ASSUME NEW t \in Tickers, Open(t) PROVE InTurn(u)'
  BY <1>0, <1>10 DEF Open, Advance, Goto
<1>11. ASSUME NEW t \in Tickers, Prompt(t) PROVE InTurn(u)'
  BY <1>0, <1>11 DEF Prompt, NextTurn, Done, Advance, Idle
<1>12. ASSUME NEW t \in Tickers, PromptFails(t) PROVE InTurn(u)'
  BY <1>4, <1>12 DEF PromptFails, NextTurn, Idle
<1>13. ASSUME NEW t \in Tickers, Sync(t) PROVE InTurn(u)'
  BY <1>4, <1>13 DEF Sync, Released, Idle
<1>14. ASSUME NEW t \in Tickers, Crash(t) PROVE InTurn(u)'
  <2>1. run'[u] = run[u]
    BY <1>14 DEF Crash, Idle
  <2>2. status' = status \/ Done(run[t].context)
    BY <1>14 DEF Crash
  <2> QED BY <1>0, <1>4, <2>1, <2>2 DEF Done, Advance
<1>15. CASE Lapse
  BY <1>4, <1>15 DEF Lapse, db
<1>16. CASE UNCHANGED vars
  BY <1>4, <1>16 DEF vars, db
<1> HIDE DEF TypeOK, Turns, Busied, At, InTurn
<1> QED
  BY <1>2, <1>3, <1>5, <1>6, <1>7, <1>8, <1>9, <1>10, <1>11, <1>12, <1>13, <1>14, <1>15,
     <1>16, Steps

LEMMA CountedStep == TypeOK /\ Turns /\ Counted /\ [Next]_vars => Counted'
<1> SUFFICES ASSUME TypeOK, Turns, Counted, [Next]_vars, NEW c \in Contexts
             PROVE  Cardinality(Holding(c)') <= sessions'[c]
  BY DEF Counted, Holding, At
<1>1. Cardinality(Holding(c)) <= sessions[c] /\ sessions[c] \in Nat
  BY DEF Counted, TypeOK
<1>2. /\ IsFiniteSet(Holding(c)) /\ Cardinality(Holding(c)) \in Nat
      /\ \A S : S \subseteq Holding(c) => IsFiniteSet(S) /\ Cardinality(S) <= Cardinality(Holding(c))
                                          /\ Cardinality(S) \in Nat
  BY HoldingFinite, FS_Subset, FS_CardinalityType
<1>3. ASSUME Holding(c)' \subseteq Holding(c), sessions'[c] = sessions[c] \/ sessions'[c] = sessions[c] + 1
      PROVE  Cardinality(Holding(c)') <= sessions'[c]
  BY <1>1, <1>2, <1>3
<1>4. ASSUME run' = run, sessions' = sessions PROVE Cardinality(Holding(c)') <= sessions'[c]
  BY <1>1, <1>4 DEF Holding, At
<1>5. ASSUME NEW t \in Tickers, sessions' = sessions, run'[t].at # "prompt",
             \A u \in Tickers \ {t} : run'[u] = run[u]
      PROVE  Cardinality(Holding(c)') <= sessions'[c]
  BY <1>3, <1>5 DEF Holding, At
<1>6. ASSUME NEW t \in Tickers, Open(t) PROVE Cardinality(Holding(c)') <= sessions'[c]
  <2>1. /\ sessions' = [sessions EXCEPT ![run[t].context] = @ + 1]
        /\ run' = [run EXCEPT ![t].at = "prompt"] /\ run[t].at = "open"
    BY <1>6 DEF Open, Goto, At
  <2>2. CASE run[t].context = c
    <3>1. Holding(c)' = Holding(c) \cup {t} /\ t \notin Holding(c)
      BY <2>1, <2>2 DEF Holding, At, TypeOK, Turn
    <3>2. Cardinality(Holding(c)') = Cardinality(Holding(c)) + 1
      BY <1>2, <3>1, FS_AddElement
    <3> QED BY <1>1, <1>2, <2>1, <2>2, <3>2 DEF TypeOK
  <2>3. CASE run[t].context # c
    <3>1. Holding(c)' = Holding(c)
      BY <2>1, <2>3 DEF Holding, At, TypeOK, Turn
    <3>2. sessions'[c] = sessions[c]
      BY <2>1, <2>3 DEF TypeOK
    <3> QED BY <1>3, <3>1, <3>2
  <2> QED BY <2>2, <2>3
<1>7. ASSUME NEW t \in Tickers, At(t, "prompt"), NextTurn(t), Closed(run[t].context)
      PROVE  Cardinality(Holding(c)') <= sessions'[c]
  <2>1. /\ run'[t].at = "next" /\ \A u \in Tickers \ {t} : run'[u] = run[u]
        /\ sessions' = [sessions EXCEPT ![run[t].context] = @ - 1]
    BY <1>7 DEF NextTurn, Closed, Idle, TypeOK
  <2>2. CASE run[t].context = c
    <3>1. Holding(c)' = Holding(c) \ {t} /\ t \in Holding(c)
      BY <1>7, <2>1, <2>2 DEF Holding, At
    <3>2. Cardinality(Holding(c)') = Cardinality(Holding(c)) - 1
      BY <1>2, <3>1, FS_RemoveElement
    <3>3. sessions'[c] = sessions[c] - 1
      BY <2>1, <2>2 DEF TypeOK
    <3> QED BY <1>1, <1>2, <3>2, <3>3
  <2>3. CASE run[t].context # c
    <3>1. Holding(c)' \subseteq Holding(c)
      BY <2>1, <2>3 DEF Holding, At
    <3>2. sessions'[c] = sessions[c]
      BY <2>1, <2>3 DEF TypeOK
    <3> QED BY <1>3, <3>1, <3>2
  <2> QED BY <2>2, <2>3
<1>8. ASSUME NEW k \in Tickets, Create(k) PROVE Cardinality(Holding(c)') <= sessions'[c]
  BY <1>4, <1>8 DEF Create
<1>9. ASSUME NEW e \in Events, Approve(e) PROVE Cardinality(Holding(c)') <= sessions'[c]
  BY <1>4, <1>9 DEF Approve
<1>10. ASSUME NEW i \in Items, Update(i) PROVE Cardinality(Holding(c)') <= sessions'[c]
  BY <1>4, <1>10 DEF Update
<1>11. ASSUME NEW t \in Tickers, Acquire(t) \/ Poll(t) \/ PollRaises(t) \/ Look(t) \/ Sync(t)
       PROVE  Cardinality(Holding(c)') <= sessions'[c]
  <2>1. /\ sessions' = sessions /\ run[t].at \in {"idle", "poll", "next"}
        /\ \A u \in Tickers \ {t} : run'[u] = run[u]
    BY <1>11 DEF Acquire, Poll, PollRaises, Look, Sync, Goto, Released, At, db, TypeOK
  <2>2. run'[t].at # "prompt"
    BY <1>11 DEF Acquire, Poll, PollRaises, Look, Sync, Goto, Released, Idle, At, TypeOK, Turn
  <2> QED BY <1>5, <2>1, <2>2
<1>12. ASSUME NEW t \in Tickers, Prompt(t) \/ PromptFails(t)
       PROVE  Cardinality(Holding(c)') <= sessions'[c]
  BY <1>7, <1>12 DEF Prompt, PromptFails
<1>13. ASSUME NEW t \in Tickers, Crash(t) PROVE Cardinality(Holding(c)') <= sessions'[c]
  <2>1. Holding(c)' \subseteq Holding(c)
    BY <1>13 DEF Crash, Holding, At, Idle, TypeOK
  <2>2. sessions' = sessions \/ sessions' = [sessions EXCEPT ![run[t].context] = @ + 1]
    BY <1>13 DEF Crash
  <2>3. sessions'[c] = sessions[c] \/ sessions'[c] = sessions[c] + 1
    BY <2>2 DEF TypeOK
  <2> QED BY <1>3, <2>1, <2>3
<1>14. CASE Lapse
  BY <1>4, <1>14 DEF Lapse, db
<1>15. CASE UNCHANGED vars
  BY <1>4, <1>15 DEF vars, db
<1> QED
  BY <1>6, <1>8, <1>9, <1>10, <1>11, <1>12, <1>13, <1>14, <1>15, Steps

LEMMA StatusSteps ==
  [Next]_vars =>
    \/ status' = status
    \/ \E S : Insert(S)
    \/ \E c : Advance(c, {"pending"}, "processing") \/ Done(c)
BY Steps DEF Create, Approve, Update, Acquire, Poll, PollRaises, Look, Open, Prompt, PromptFails,
             Sync, Crash, Lapse, vars, db

(* What happened has happened: histories and statuses only advance.         *)
LEMMA Grows ==
  ASSUME TypeOK, [Next]_vars
  PROVE  /\ late \subseteq late' /\ dropped \subseteq dropped' /\ overlooked \subseteq overlooked'
         /\ overruns \in Nat /\ overruns' \in Nat /\ overruns' >= overruns
<1>1. late \subseteq late'
  BY Steps DEF Create, Approve, Update, Acquire, Poll, PollRaises, Look, Open, Prompt, PromptFails,
               Sync, Crash, Lapse, vars, seen, Insert
<1>2. dropped \subseteq dropped' /\ overlooked \subseteq overlooked'
  BY Steps DEF Create, Approve, Update, Acquire, Poll, PollRaises, Look, Open, Prompt, PromptFails,
               Sync, Crash, Lapse, vars, seen
<1>3. overruns' = overruns \/ overruns' = overruns + 1
  BY Steps DEF Create, Approve, Update, Acquire, Poll, PollRaises, Look, Open, Prompt, PromptFails,
               Sync, Crash, Lapse, vars, seen
<1> QED BY <1>1, <1>2, <1>3, ConstantsAssumption DEF TypeOK

LEMMA EventsAdvance ==
  ASSUME TypeOK, [Next]_vars, NEW e \in Events
  PROVE  /\ prompts[e] \in Nat /\ prompts'[e] \in Nat /\ prompts'[e] >= prompts[e]
         /\ status[e] # "none" => status'[e] # "none"
         /\ status[e] = "done" => status'[e] = "done"
         /\ status[e] = "processing" => status'[e] \in {"processing", "done"}
<1>1. prompts' = prompts \/ \E S : Shown(S)
  BY Steps DEF Create, Approve, Update, Acquire, Poll, PollRaises, Look, Open, Prompt, PromptFails,
               Sync, Crash, Lapse, vars, seen
<1>2. prompts[e] \in Nat /\ prompts'[e] \in Nat /\ prompts'[e] >= prompts[e]
  BY <1>1 DEF Shown, TypeOK
<1>3. /\ status[e] # "none" => status'[e] # "none"
      /\ status[e] = "done" => status'[e] = "done"
      /\ status[e] = "processing" => status'[e] \in {"processing", "done"}
  BY StatusSteps DEF Insert, Advance, Done, TypeOK
<1> QED BY <1>2, <1>3

(* A tick moves by its own steps only.                                      *)
LEMMA OwnSteps ==
  ASSUME TypeOK, [Next]_vars, NEW u \in Tickers, run'[u] # run[u]
  PROVE  \/ Acquire(u) \/ Poll(u) \/ PollRaises(u) \/ Look(u) \/ Open(u)
         \/ Prompt(u) \/ PromptFails(u) \/ Sync(u) \/ Crash(u)
<1>1. run' # run
  OBVIOUS
<1>2. PICK t \in Tickers : \/ Acquire(t) \/ Poll(t) \/ PollRaises(t) \/ Look(t) \/ Open(t)
                         \/ Prompt(t) \/ PromptFails(t) \/ Sync(t) \/ Crash(t)
  BY <1>1, Steps DEF Create, Approve, Update, Lapse, vars
<1>3. \A v \in Tickers : v # t => run'[v] = run[v]
  BY <1>2 DEF Acquire, Poll, PollRaises, Look, Open, Prompt, PromptFails, Sync, Crash,
              Goto, Released, NextTurn, TypeOK
<1> QED BY <1>2, <1>3

(* Where each step takes its tick.                                          *)
LEMMA Moves ==
  ASSUME TypeOK, NEW u \in Tickers
  PROVE  /\ Acquire(u) => run[u].at = "idle" /\ run'[u].at = "poll"
         /\ Poll(u) => run[u].at = "poll" /\ run'[u].at = "next"
         /\ PollRaises(u) => run[u].at = "poll" /\ run'[u].at = "idle"
         /\ Look(u) => run[u].at = "next" /\ run'[u].at \in {"next", "open"}
         /\ Open(u) => run[u].at = "open" /\ run'[u].at = "prompt"
         /\ Prompt(u) \/ PromptFails(u) => run[u].at = "prompt" /\ run'[u].at = "next"
         /\ Sync(u) => run[u].at = "next" /\ run'[u].at = "idle"
         /\ Crash(u) => run'[u].at = "idle"
<1> USE DEF TypeOK, At
<1>1. Acquire(u) => run[u].at = "idle" /\ run'[u].at = "poll"
  BY DEF Acquire, Goto, Turn
<1>2. Poll(u) => run[u].at = "poll" /\ run'[u].at = "next"
  <2> SUFFICES ASSUME Poll(u) PROVE run[u].at = "poll" /\ run'[u].at = "next"
    OBVIOUS
  <2> DEFINE Todo == {c \in Contexts : Pending(c)' # {}}
  <2>1. run[u].at = "poll" /\ run' = [run EXCEPT ![u].at = "next", ![u].todo = Todo]
    BY DEF Poll
  <2> HIDE DEF Todo
  <2> QED BY <2>1 DEF Turn
<1>3. PollRaises(u) => run[u].at = "poll" /\ run'[u].at = "idle"
  BY DEF PollRaises, Released, Idle
<1>4. Look(u) => run[u].at = "next" /\ run'[u].at \in {"next", "open"}
  BY DEF Look, Turn
<1>5. Open(u) => run[u].at = "open" /\ run'[u].at = "prompt"
  BY DEF Open, Goto, Turn
<1>6. Prompt(u) \/ PromptFails(u) => run[u].at = "prompt" /\ run'[u].at = "next"
  BY DEF Prompt, PromptFails, NextTurn, Idle
<1>7. Sync(u) => run[u].at = "next" /\ run'[u].at = "idle"
  BY DEF Sync, Released, Idle
<1>8. Crash(u) => run'[u].at = "idle"
  BY DEF Crash, Idle
<1> QED BY <1>1, <1>2, <1>3, <1>4, <1>5, <1>6, <1>7, <1>8

(* The only steps that put events to Claude.                                *)
LEMMA ShownSteps ==
  [Next]_vars =>
    \/ prompts' = prompts
    \/ \E t \in Tickers : At(t, "prompt") /\ (prompts' = prompts \/ Shown({}) \/ Shown(run[t].batch))
BY Steps DEF Create, Approve, Update, Acquire, Poll, PollRaises, Look, Open, Prompt, PromptFails,
             Sync, Crash, Lapse, vars, seen

LEMMA MarkedStep == TypeOK /\ Turns /\ Marked /\ [Next]_vars => Marked'
<1> SUFFICES ASSUME TypeOK, Turns, Marked, [Next]_vars, NEW e \in Events, prompts'[e] > 0
             PROVE  status'[e] \in {"processing", "done"}
  BY DEF Marked
<1>1. status[e] \in {"processing", "done"}
  <2>1. CASE prompts' = prompts
    BY <2>1 DEF Marked
  <2>2. CASE prompts' # prompts
    <3>1. PICK t \in Tickers : At(t, "prompt") /\ (Shown({}) \/ Shown(run[t].batch))
      BY <2>2, ShownSteps
    <3>2. prompts'[e] = prompts[e] \/ e \in run[t].batch
      BY <3>1 DEF Shown
    <3> QED BY <3>1, <3>2 DEF Marked, Turns, Busied, InTurn, At
  <2> QED BY <2>1, <2>2
<1> QED BY <1>1, EventsAdvance

LEMMA OwnedStep == TypeOK /\ Turns /\ Counted /\ Owned /\ [Next]_vars => Owned'
<1> SUFFICES ASSUME TypeOK, Turns, Counted, Owned, [Next]_vars, NEW e \in Events,
                    status'[e] = "processing", ~Excused(e)'
             PROVE  sessions'[e.context] > 0
  BY DEF Owned
<1>1. ~Excused(e)
  BY Grows, EventsAdvance DEF Excused
<1>2. e.context \in Contexts /\ sessions[e.context] \in Nat
  BY EventTypes DEF TypeOK
<1>3. CASE status[e] # "processing"
  <2>1. PICK t \in Tickers : Open(t)
    BY <1>3, Steps DEF Create, Approve, Update, Acquire, Poll, PollRaises, Look, Prompt, PromptFails,
         Sync, Crash, Lapse, vars, db, Insert, Done, Advance, TypeOK
  <2>2. e.context = run[t].context
    BY <1>3, <2>1 DEF Open, Advance, TypeOK
  <2> QED BY <1>2, <2>1, <2>2 DEF Open, TypeOK
<1>4. CASE status[e] = "processing"
  <2>1. sessions[e.context] > 0
    BY <1>1, <1>4 DEF Owned
  <2>2. ASSUME NEW t \in Tickers, Prompt(t) \/ PromptFails(t) PROVE sessions'[e.context] > 0
    <3>1. e.context # run[t].context
      BY <1>4, <2>2 DEF Prompt, PromptFails, Done, Advance, TypeOK, Excused
    <3>2. sessions'[e.context] = sessions[e.context]
      BY <1>2, <2>2, <3>1 DEF Prompt, PromptFails, Closed, TypeOK
    <3> QED BY <2>1, <3>2
  <2>3. CASE \A t \in Tickers : ~Prompt(t) /\ ~PromptFails(t)
    <3>1. sessions' = sessions \/ \E c : sessions' = [sessions EXCEPT ![c] = @ + 1]
      BY <2>3, Steps DEF Create, Approve, Update, Acquire, Poll, PollRaises, Look, Open,
           Sync, Crash, Lapse, vars, db
    <3>2. sessions'[e.context] >= sessions[e.context] /\ sessions'[e.context] \in Nat
      BY <1>2, <3>1 DEF TypeOK
    <3> QED BY <1>2, <2>1, <3>2
  <2> QED BY <2>2, <2>3
<1> QED BY <1>3, <1>4

(* A dispatch goes on, or begins with the events that are pending in a      *)
(* context that has no session.                                             *)
LEMMA BusyBefore ==
  ASSUME TypeOK, [Next]_vars, NEW u \in Tickers, Busied(u)'
  PROVE  \/ Busied(u) /\ run'[u].context = run[u].context /\ run'[u].batch = run[u].batch
         \/ /\ Look(u) /\ At(u, "open")' /\ run'[u].context \in Contexts
            /\ sessions[run'[u].context] = 0 /\ run'[u].batch = Pending(run'[u].context)
<1> USE DEF Busied, At, TypeOK
<1>1. CASE run'[u] = run[u]
  BY <1>1
<1>2. CASE run'[u] # run[u] /\ Look(u)
  <2>1. PICK c \in run[u].todo :
          \/ run' = [run EXCEPT ![u].todo = run[u].todo \ {c}]
          \/ /\ sessions[c] = 0
             /\ run' = [run EXCEPT ![u] = [at |-> "open", todo |-> run[u].todo \ {c},
                                           context |-> c, batch |-> Pending(c)]]
    <3>1. \A c \in run[u].todo : c \in Contexts /\ sessions[c] \in Nat
      BY DEF Turn
    <3> QED BY <1>2, <3>1 DEF Look, Batch, Busy
  <2>2. run' # [run EXCEPT ![u].todo = run[u].todo \ {c}]
    BY <1>2 DEF Look, Turn
  <2>3. c \in Contexts
    BY DEF Turn
  <2> QED BY <1>2, <2>1, <2>2, <2>3
<1>3. CASE run'[u] # run[u] /\ ~Look(u)
  <2>1. Open(u)
    BY <1>3, OwnSteps, Moves
  <2> QED BY <2>1 DEF Open, Goto, Turn
<1> QED BY <1>1, <1>2, <1>3

LEMMA CoveredStep == TypeOK /\ Owned /\ Covered /\ [Next]_vars => Covered'
<1> SUFFICES ASSUME TypeOK, Owned, Covered, [Next]_vars, NEW u \in Tickers, NEW e \in Events,
                    Busied(u)', e.context = run'[u].context, status'[e] \in {"pending", "processing"}
             PROVE  e \in run'[u].batch \/ Excused(e)'
  BY DEF Covered
<1>1. Excused(e) => Excused(e)'
  BY Grows, EventsAdvance DEF Excused
<1>2. CASE /\ Busied(u) /\ run'[u].context = run[u].context /\ run'[u].batch = run[u].batch
  <2>1. CASE status[e] \in {"pending", "processing"}
    BY <1>1, <1>2, <2>1 DEF Covered
  <2>2. CASE status[e] \notin {"pending", "processing"}
    <3>1. status[e] = "none"
      BY <2>2, Grows, EventsAdvance DEF TypeOK
    <3>2. PICK S : Insert(S)
      BY <3>1, StatusSteps DEF Advance, Done, TypeOK
    <3>3. Dispatched(e.context)
      BY <1>2 DEF Dispatched, Busied
    <3> QED BY <3>1, <3>2, <3>3, InsertEffect DEF Excused
  <2> QED BY <2>1, <2>2
<1>3. CASE /\ Look(u) /\ run'[u].context \in Contexts
           /\ sessions[run'[u].context] = 0 /\ run'[u].batch = Pending(run'[u].context)
  <2>1. status' = status
    BY <1>3 DEF Look, db
  <2> QED BY <1>1, <1>3, <2>1 DEF Owned, Pending, TypeOK
<1> QED BY <1>2, <1>3, BusyBefore

LEMMA PolledStep == TypeOK /\ EventsAccounted /\ Polled /\ [Next]_vars => Polled'
<1> SUFFICES ASSUME TypeOK, EventsAccounted, Polled, [Next]_vars,
                    NEW t \in Tickers, run'[t].at # "idle", run'[t].at # "poll",
                    NEW i \in Items, rev'[i] > 0, status'[Revision(i)'] = "none"
             PROVE  Revision(i)' \in overlooked'
  BY DEF Polled, Running
<1>1. CASE Poll(t)
  <2>1. PICK found \in SUBSET unsynced :
          /\ Insert({Created(k) : k \in tickets} \cup Latest(found))
          /\ overlooked' = overlooked \cup Latest(unsynced \ found)
    BY <1>1 DEF Poll
  <2>2. rev' = rev /\ Revision(i)' = Revision(i) /\ Revision(i) \in Events
    BY <1>1, EventTypes DEF Poll, Revision, TypeOK
  <2>3. i \notin found
    BY <2>1, <2>2, InsertEffect DEF Latest, Revision
  <2>4. CASE i \in unsynced
    BY <2>1, <2>2, <2>3, <2>4 DEF Latest, Revision
  <2>5. CASE i \notin unsynced
    <3>1. status[Revision(i)] = "none"
      BY <2>2, EventsAdvance
    <3> QED BY <2>1, <2>2, <2>5, <3>1 DEF EventsAccounted, Revision
  <2> QED BY <2>4, <2>5
<1>2. CASE ~Poll(t)
  <2>1. run[t].at # "idle" /\ run[t].at # "poll"
    BY <1>2, OwnSteps, Moves
  <2>2. CASE rev' = rev
    <3>1. Revision(i)' = Revision(i) /\ Revision(i) \in Events
      BY <2>2, EventTypes DEF Revision, TypeOK
    <3>2. status[Revision(i)] = "none"
      BY <3>1, EventsAdvance
    <3> QED BY <2>1, <2>2, <3>1, <3>2, Grows, EventsAdvance DEF Polled, Running
  <2>3. CASE rev' # rev
    <3>1. PICK j \in Items : Update(j)
      BY <2>3, Steps DEF Create, Approve, Acquire, Poll, PollRaises, Look, Open, Prompt, PromptFails,
           Sync, Crash, Lapse, vars
    <3>2. CASE j = i
      BY <2>1, <3>1, <3>2 DEF Update, Running, Revision
    <3>3. CASE j # i
      <4>1. Revision(i)' = Revision(i) /\ status' = status /\ rev'[i] = rev[i]
        BY <3>1, <3>3 DEF Update, Revision, TypeOK
      <4> QED BY <2>1, <4>1, Grows, EventsAdvance DEF Polled, Running
    <3> QED BY <3>2, <3>3
  <2> QED BY <2>2, <2>3
<1> QED BY <1>1, <1>2

LEMMA AccountedStep ==
  TypeOK /\ Turns /\ Covered /\ Polled /\ EventsAccounted /\ [Next]_vars => EventsAccounted'
<1> SUFFICES ASSUME TypeOK, Turns, Covered, Polled, EventsAccounted, [Next]_vars
             PROVE  EventsAccounted'
  OBVIOUS
<1>1. ASSUME NEW e \in Events, status'[e] = "done" PROVE Excused(e)'
  <2>1. Excused(e) => Excused(e)'
    BY Grows, EventsAdvance DEF Excused
  <2>2. CASE status[e] = "done"
    BY <2>1, <2>2 DEF EventsAccounted, Excused
  <2>3. CASE status[e] # "done"
    <3>1. PICK t \in Tickers : At(t, "prompt") /\ Shown(run[t].batch) /\ Done(run[t].context)
      BY <1>1, <2>3, Steps DEF Create, Approve, Update, Acquire, Poll, PollRaises, Look, Open, Prompt,
           PromptFails, Sync, Crash, Lapse, vars, db, Insert, Advance, TypeOK
    <3>2. e.context = run[t].context /\ status[e] \in {"pending", "processing"}
      BY <1>1, <2>3, <3>1 DEF Done, Advance, TypeOK
    <3>3. CASE e \in run[t].batch
      BY <3>1, <3>3 DEF Shown, Excused, TypeOK
    <3>4. CASE e \notin run[t].batch
      BY <2>1, <3>1, <3>2, <3>4 DEF Covered, Busied, At
    <3> QED BY <3>3, <3>4
  <2> QED BY <2>2, <2>3
<1>2. ASSUME NEW i \in Items, rev'[i] > 0, status'[Revision(i)'] = "none"
      PROVE  i \in unsynced' \/ Revision(i)' \in overlooked'
  <2>1. CASE \E j \in Items : Update(j)
    <3>1. PICK j \in Items : Update(j)
      BY <2>1
    <3>2. CASE j = i
      BY <3>1, <3>2 DEF Update
    <3>3. CASE j # i
      <4>1. Revision(i)' = Revision(i) /\ status' = status /\ rev'[i] = rev[i] /\ unsynced \subseteq unsynced'
        BY <3>1, <3>3 DEF Update, Revision, TypeOK
      <4> QED BY <1>2, <4>1, Grows DEF EventsAccounted, Revision
    <3> QED BY <3>2, <3>3
  <2>2. CASE ~\E j \in Items : Update(j)
    <3>1. rev' = rev
      BY <2>2, Steps DEF Create, Approve, Acquire, Poll, PollRaises, Look, Open, Prompt, PromptFails,
           Sync, Crash, Lapse, vars
    <3>2. Revision(i)' = Revision(i) /\ Revision(i) \in Events
      BY <1>2, <3>1, EventTypes DEF Revision, TypeOK
    <3>3. rev[i] > 0 /\ status[Revision(i)] = "none"
      BY <1>2, <3>1, <3>2, EventsAdvance
    <3>4. unsynced' = unsynced \/ \E t \in Tickers : At(t, "next")
      BY <2>2, Steps DEF Create, Approve, Acquire, Poll, PollRaises, Look, Open, Prompt, PromptFails,
           Sync, Crash, Lapse, vars, db
    <3>5. CASE unsynced' = unsynced
      BY <3>2, <3>3, <3>5, Grows DEF EventsAccounted, Revision
    <3>6. CASE \E t \in Tickers : At(t, "next")
      BY <3>2, <3>3, <3>6, Grows DEF Polled, Running, At
    <3> QED BY <3>4, <3>5, <3>6
  <2> QED BY <2>1, <2>2
<1> QED BY <1>1, <1>2 DEF EventsAccounted, Excused, Revision

LEMMA AloneStep == TypeOK /\ Turns /\ Counted /\ Marked /\ Alone /\ [Next]_vars => Alone'
<1> SUFFICES ASSUME TypeOK, Turns, Counted, Marked, Alone, [Next]_vars, overruns' = 0
             PROVE  /\ \A t \in Running' : lock' = t /\ ~lapsed'
                    /\ \A t, u \in Running' : t = u
                    /\ \A t \in Tickers : run'[t].at = "open" => sessions'[run'[t].context] = 0
                    /\ \A t \in Tickers : Busied(t)' => \A e \in run'[t].batch : prompts'[e] = 0
                    /\ \A c \in Contexts : sessions'[c] <= 1
                    /\ \A e \in Events : prompts'[e] <= 1
  BY DEF Alone, At
<1>1. overruns = 0
  BY Grows
<1>2. /\ \A t, u \in Running : t = u
      /\ \A t \in Running : lock = t /\ ~lapsed
  BY <1>1 DEF Alone
<1>3. ASSUME NEW t \in Running', NEW u \in Running' PROVE t = u
  <2>1. CASE t \in Running /\ u \in Running
    BY <1>2, <2>1
  <2>2. ASSUME NEW v \in Tickers, NEW w \in Running', v \in Running', v \notin Running PROVE w = v
    <3>1. Acquire(v)
      BY <2>2, OwnSteps, Moves DEF Running
    <3>2. Running = {}
      BY <1>2, <3>1, ConstantsAssumption DEF Acquire, Free, Running
    <3>3. run' = [run EXCEPT ![v].at = "poll"]
      BY <3>1 DEF Acquire, Goto
    <3> QED BY <2>2, <3>2, <3>3 DEF Running, TypeOK
  <2> QED BY <1>3, <2>1, <2>2 DEF Running
<1>4. ASSUME NEW t \in Tickers, Busied(t)', Busied(t),
             run'[t].context = run[t].context, run'[t].batch = run[t].batch
      PROVE  /\ run'[t].at = "open" => sessions' = sessions /\ run[t].at = "open"
             /\ prompts' = prompts
  <2>1. \A u \in Tickers : run[u].at # "idle" => u = t
    BY <1>2, <1>4 DEF Running, Busied, At
  <2>2. run'[t].at \in {"open", "prompt"} /\ run[t].at \in {"open", "prompt"}
    BY <1>4 DEF Busied
  <2>3. ~Prompt(t) /\ ~PromptFails(t) /\ ~Crash(t) /\ (run'[t].at = "open" => ~Open(t))
    BY <2>2, Moves
  <2>4. \A u \in Tickers : ~Prompt(u) /\ ~PromptFails(u) /\ ~Crash(u) /\ (Open(u) => u = t)
    BY <2>1, <2>3, Moves DEF Crash, Running
  <2>5. prompts' = prompts
    BY <2>4, Steps DEF Create, Approve, Update, Acquire, Poll, PollRaises, Look, Open, Sync, Lapse, vars, seen
  <2>6. run'[t].at = "open" => sessions' = sessions
    BY <2>3, <2>4, Steps DEF Create, Approve, Update, Acquire, Poll, PollRaises, Look, Sync, Lapse, vars, db
  <2>7. run'[t].at = "open" => run[t].at = "open"
    <3>1. CASE run'[t] = run[t]
      BY <3>1
    <3>2. CASE run'[t] # run[t]
      BY <2>2, <2>3, <3>2, OwnSteps, Moves
    <3> QED BY <3>1, <3>2
  <2> QED BY <2>5, <2>6, <2>7
<1>5. ASSUME NEW t \in Tickers, Busied(t)' PROVE \A e \in run'[t].batch : prompts'[e] = 0
  <2>1. CASE Busied(t) /\ run'[t].context = run[t].context /\ run'[t].batch = run[t].batch
    BY <1>1, <1>4, <1>5, <2>1 DEF Alone
  <2>2. CASE Look(t) /\ run'[t].batch = Pending(run'[t].context)
    BY <2>2 DEF Look, seen, Pending, Marked, TypeOK
  <2> QED BY <1>5, <2>1, <2>2, BusyBefore
<1>6. ASSUME NEW t \in Tickers, run'[t].at = "open" PROVE sessions'[run'[t].context] = 0
  <2>1. Busied(t)'
    BY <1>6 DEF Busied
  <2>2. CASE Busied(t) /\ run'[t].context = run[t].context /\ run'[t].batch = run[t].batch
    BY <1>1, <1>4, <1>6, <2>1, <2>2 DEF Alone, At
  <2>3. CASE Look(t) /\ sessions[run'[t].context] = 0
    BY <2>3 DEF Look, db
  <2> QED BY <2>1, <2>2, <2>3, BusyBefore
<1>7. ASSUME NEW c \in Contexts PROVE sessions'[c] <= 1
  <2>1. sessions[c] <= 1 /\ sessions[c] \in Nat
    BY <1>1 DEF Alone, TypeOK
  <2>2. CASE sessions' = sessions
    BY <2>1, <2>2
  <2>3. ASSUME NEW t \in Tickers, At(t, "open"), sessions' = [sessions EXCEPT ![run[t].context] = @ + 1]
        PROVE  sessions'[c] <= 1
    <3>1. sessions[run[t].context] = 0
      BY <1>1, <2>3 DEF Alone
    <3> QED BY <2>1, <2>3, <3>1 DEF TypeOK
  <2>4. ASSUME NEW t \in Tickers, Closed(run[t].context) PROVE sessions'[c] <= 1
    BY <2>1, <2>4 DEF Closed, TypeOK
  <2>5. \/ sessions' = sessions
        \/ \E t \in Tickers : \/ At(t, "open") /\ sessions' = [sessions EXCEPT ![run[t].context] = @ + 1]
                              \/ Closed(run[t].context)
    BY Steps DEF Create, Approve, Update, Acquire, Poll, PollRaises, Look, Open, Prompt, PromptFails,
                 Sync, Crash, Lapse, vars, db
  <2> QED BY <2>2, <2>3, <2>4, <2>5
<1>8. ASSUME NEW e \in Events PROVE prompts'[e] <= 1
  <2>1. prompts[e] <= 1 /\ prompts[e] \in Nat
    BY <1>1 DEF Alone, TypeOK
  <2>2. ASSUME NEW t \in Tickers, At(t, "prompt"), Shown({}) \/ Shown(run[t].batch)
        PROVE  prompts'[e] <= 1
    <3>1. e \in run[t].batch => prompts[e] = 0
      BY <1>1, <2>2 DEF Alone, Busied, At
    <3> QED BY <2>1, <2>2, <3>1 DEF Shown
  <2> QED BY <2>1, <2>2, ShownSteps
<1>9. ASSUME NEW t \in Running' PROVE lock' = t /\ ~lapsed'
  <2>1. CASE t \notin Running
    <3>1. Acquire(t)
      BY <1>9, <2>1, OwnSteps, Moves DEF Running
    <3> QED BY <3>1 DEF Acquire
  <2>2. CASE t \in Running
    <3>1. t \in Tickers /\ lock = t /\ ~lapsed /\ \A u \in Running : u = t
      BY <1>2, <2>2 DEF Running
    <3>2. run'[t].at # "idle"
      BY <1>9 DEF Running
    <3>3. ~PollRaises(t) /\ ~Sync(t) /\ ~Crash(t) /\ ~Acquire(t)
      BY <3>1, <3>2, <2>2, Moves DEF Running
    <3>4. \A u \in Tickers : ~PollRaises(u) /\ ~Sync(u) /\ ~Crash(u) /\ ~Acquire(u)
      BY <3>1, <3>3, ConstantsAssumption DEF PollRaises, Sync, Crash, Acquire, At, Running, Free
    <3>5. ~Lapse
      BY <1>1, <2>2, <3>1 DEF Lapse
    <3>6. lock' = lock /\ lapsed' = lapsed
      BY <3>4, <3>5, Steps DEF Create, Approve, Update, Poll, Look, Open, Prompt, PromptFails, vars, db
    <3> QED BY <3>1, <3>6
  <2> QED BY <2>1, <2>2
<1> QED BY <1>3, <1>5, <1>6, <1>7, <1>8, <1>9

-----------------------------------------------------------------------------
(* IInv is inductive.                                                       *)
LEMMA NextInv == IInv /\ [Next]_vars => IInv'
BY TypeStep, TurnsStep, CountedStep, MarkedStep, AloneStep, CoveredStep, OwnedStep, PolledStep,
   AccountedStep DEF IInv

(* The invariant of the harness, with its sessions, marks and polls.        *)
THEOREM VarysInvariance == Spec => []IInv
<1>1. Init => IInv
  BY InitInv
<1>2. IInv /\ [Next]_vars => IInv'
  BY NextInv
<1> QED BY <1>1, <1>2, PTL DEF Spec

(* The harness has its types: a tick opens no session without an event.     *)
THEOREM VarysTypeCorrect == Spec => []TypeOK
<1>1. IInv => TypeOK
  BY DEF IInv
<1> QED BY <1>1, VarysInvariance, PTL

(* One tick, one session per context, one prompt per event, as long as no   *)
(* tick outlasted its lock (acquire_tick_lock, has_running_session).        *)
THEOREM OneSessionHolds == Spec => []OneSession
<1>1. IInv => OneSession
  BY DEF IInv, Alone, OneSession
<1> QED BY <1>1, VarysInvariance, PTL

(* An event is lost in the known ways only: it came during its context's    *)
(* dispatch, was left by a failed one, or was never polled.                 *)
THEOREM EventsAccountedHolds == Spec => []EventsAccounted
<1>1. IInv => EventsAccounted
  BY DEF IInv
<1> QED BY <1>1, VarysInvariance, PTL
=============================================================================
