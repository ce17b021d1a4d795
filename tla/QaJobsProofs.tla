----------------------------- MODULE QaJobsProofs -----------------------------
(***************************************************************************)
(* Proofs about QaJobs: the queue and the rows agree, a job's outcome is   *)
(* final and said once, and reviews go first, for any number of jobs,      *)
(* branches and crashes, in the middle of a file included.                 *)
(***************************************************************************)
EXTENDS QaJobs, FiniteSetTheorems, TLAPS

(* The job in hand is running until its outcome is written, and then its    *)
(* chat is told; the claim left the queue whole; nothing is known of a job  *)
(* before it is made.                                                       *)
Working ==
  /\ current = 0 <=> step \in {"none", "dead"}
  /\ ~up => current = 0
  /\ current # 0 => IF step = "notify" THEN rows[current] \in Settled ELSE rows[current] = "running"
  /\ current # 0 => cut = "no"
  /\ \A j \in Jobs : j \notin Ids => rows[j] = "none" /\ heard[j] = <<>>

(* A line stands for a job that waits, and a job has one line at most, when *)
(* a crash cut files too.                                                   *)
Lines ==
  /\ \A i \in DOMAIN waiting : waiting[i] # 0 => rows[waiting[i]] \in Waits
  /\ \A i, k \in DOMAIN waiting : waiting[i] = waiting[k] => i = k \/ waiting[i] = 0

(* Only a crash cuts files.                                                 *)
Whole ==
  qaCrashes = 0 =>
    /\ cut = "no" /\ \A i \in DOMAIN waiting : waiting[i] # 0
    /\ \A j \in Jobs : rows[j] \notin {"unlisted", "forgotten"}

(* No row is left running behind.                                           *)
InHand == up => \A j \in Ids : rows[j] = "running" => j = current

(* What the chat was told is the job's outcome, and the worker is done.     *)
Told ==
  \A j \in Jobs : heard[j] # <<>> =>
    Len(heard[j]) = 1 /\ rows[j] \in Settled \cup {"forgotten"} /\ j # current

(* A review that may still comment has commented in earlier processes only. *)
Posted ==
  \A j \in Jobs :
    /\ comments[j] <= 1 + qaCrashes
    /\ comments[j] <= qaCrashes \/ rows[j] \in Settled \/ (j = current /\ step = "settle")

IInv == QaTypeOK /\ Working /\ Lines /\ Whole /\ InHand /\ PriorityFirst /\ Told /\ Posted

-----------------------------------------------------------------------------
(* Sequences of lines.                                                      *)

(* One queue behind another: what is in it, and that no line is repeated.   *)
LEMMA Joined ==
  ASSUME NEW S, NEW p \in Seq(S), NEW q \in Seq(S)
  PROVE  /\ p \o q \in Seq(S) /\ Len(p \o q) = Len(p) + Len(q)
         /\ \A i \in DOMAIN (p \o q) :
              (p \o q)[i] = IF i <= Len(p) THEN p[i] ELSE q[i - Len(p)]
         /\ \A i \in DOMAIN (p \o q) :
              IF i <= Len(p) THEN i \in DOMAIN p ELSE i - Len(p) \in DOMAIN q
OBVIOUS

(* The rows of orphans, in any order, are lines of them, each once.         *)
LEMMA OrphanLines ==
  ASSUME QaTypeOK, NEW lines \in SetToSeqs(Orphans)
  PROVE  lines \in Seq(Orphans) /\ IsInjective(lines)
<1>1. IsFiniteSet(Orphans)
  <2>1. Ids = 1 .. Len(jobs) /\ Len(jobs) \in Nat
    BY DEF QaTypeOK, Ids
  <2>2. Orphans \subseteq Ids
    BY DEF Orphans
  <2>3. IsFiniteSet(Ids)
    BY <2>1, FS_Interval
  <2> QED BY <2>2, <2>3, FS_Subset
<1>2. Cardinality(Orphans) \in Nat
  BY <1>1, FS_CardinalityType
<1>3. lines \in [1 .. Cardinality(Orphans) -> Orphans]
        /\ \A i, j \in 1 .. Cardinality(Orphans) : i # j => lines[i] # lines[j]
  BY DEF SetToSeqs
<1> HIDE DEF Orphans
<1> QED BY <1>2, <1>3 DEF IsInjective

(* New jobs are behind the others and change none of them.                  *)
LEMMA JobsAdded ==
  ASSUME QaTypeOK, NEW new \in Seq(JobType), AddJobs(new)
  PROVE  /\ jobs' \in Seq(JobType) /\ Len(jobs') = Len(jobs) + Len(new) /\ Len(jobs') <= MaxJobs
         /\ Ids = 1 .. Len(jobs) /\ Ids' = 1 .. Len(jobs) + Len(new) /\ Ids \subseteq Ids'
         /\ Ids' \subseteq Jobs
         /\ \A j \in Ids : jobs'[j] = jobs[j]
         /\ \A i \in 1 .. Len(new) : jobs'[Len(jobs) + i] = new[i]
<1>1. jobs \in Seq(JobType) /\ jobs' = jobs \o new /\ Len(jobs) + Len(new) <= MaxJobs
        /\ Len(jobs) \in Nat /\ Len(new) \in Nat /\ MaxJobs \in Nat
  BY QaConstants DEF AddJobs, QaTypeOK
<1>2. jobs' \in Seq(JobType) /\ Len(jobs') = Len(jobs) + Len(new)
  BY <1>1, Joined
<1>3. Ids = 1 .. Len(jobs) /\ Ids' = 1 .. Len(jobs) + Len(new)
  BY <1>1, <1>2 DEF Ids
<1>4. \A i \in DOMAIN jobs' : jobs'[i] = IF i <= Len(jobs) THEN jobs[i] ELSE new[i - Len(jobs)]
  BY <1>1, Joined
<1>5. \A j \in Ids : jobs'[j] = jobs[j]
  BY <1>1, <1>3, <1>4 DEF Ids
<1>6. \A i \in 1 .. Len(new) : jobs'[Len(jobs) + i] = new[i]
  BY <1>1, <1>2, <1>4
<1> QED BY <1>1, <1>2, <1>3, <1>5, <1>6 DEF Jobs

LEMMA SeqMonotone == ASSUME NEW S, NEW T, S \subseteq T, NEW q \in Seq(S) PROVE q \in Seq(T)
OBVIOUS

LEMMA SeqNarrowed ==
  ASSUME NEW S, NEW T, NEW q \in Seq(S), \A i \in DOMAIN q : q[i] \in T
  PROVE  q \in Seq(T)
OBVIOUS

(* A job in the making: of a repository's branch, or as it was asked for.   *)
LEMMA ChildrenAdded ==
  ASSUME QaTypeOK, NEW n \in 0 .. Branches, current \in Ids, AddChildren(n)
  PROVE  /\ jobs' \in Seq(JobType) /\ Len(jobs') <= MaxJobs /\ n \in Nat
         /\ Ids = 1 .. Len(jobs) /\ Ids' = 1 .. Len(jobs) + n /\ Ids \subseteq Ids'
         /\ Ids' \subseteq Jobs
         /\ \A j \in Ids : jobs'[j] = jobs[j]
         /\ \A i \in 1 .. n : ~First(jobs'[Len(jobs) + i])
<1> DEFINE new == [i \in 1 .. n |-> [type |-> "branch", user |-> jobs[current].user]]
<1>1. n \in Nat
  BY QaConstants
<1>2. jobs[current] \in JobType
  BY DEF QaTypeOK, Ids
<1>3. [type |-> "branch", user |-> jobs[current].user] \in JobType
  BY <1>2 DEF JobType
<1>4. new \in Seq(JobType) /\ Len(new) = n /\ AddJobs(new)
  BY <1>1, <1>3 DEF AddChildren
<1>5. \A i \in 1 .. n : new[i].type = "branch"
  OBVIOUS
<1> HIDE DEF new
<1>6. \A i \in 1 .. n : jobs'[Len(jobs) + i] = new[i]
  BY <1>4, JobsAdded
<1> QED BY <1>1, <1>4, <1>5, <1>6, JobsAdded DEF First

LEMMA JobAdded ==
  ASSUME QaTypeOK, NEW job \in Requests, AddJob(job)
  PROVE  /\ jobs' \in Seq(JobType) /\ Len(jobs') = Len(jobs) + 1 /\ Len(jobs') <= MaxJobs
         /\ Ids = 1 .. Len(jobs) /\ Ids' = 1 .. Len(jobs) + 1 /\ Ids \subseteq Ids'
         /\ Ids' \subseteq Jobs
         /\ \A j \in Ids : jobs'[j] = jobs[j]
         /\ jobs'[Len(jobs) + 1] = job
         /\ rows' = RowsWith(1) /\ Len(jobs) \in Nat
<1> DEFINE new == <<job>>
<1>1. job \in JobType
  BY QaConstants
<1>2. new \in Seq(JobType) /\ Len(new) = 1 /\ new[1] = job
  BY <1>1
<1>3. AddJobs(new) /\ rows' = RowsWith(1)
  BY DEF AddJob
<1> HIDE DEF new
<1>4. Len(jobs) \in Nat
  BY DEF QaTypeOK
<1> QED BY <1>2, <1>3, <1>4, JobsAdded


-----------------------------------------------------------------------------
(* Files that are cut.                                                      *)

(* What may be left of a file: fewer lines, some of them no JSON.           *)
Spoiled(r, q) == r \in Seq(Nat) /\ Len(r) <= Len(q) /\ \A i \in DOMAIN r : r[i] \in {q[i], 0}

LEMMA Unspoiled == ASSUME NEW q \in Seq(Nat) PROVE Spoiled(q, q)
BY DEF Spoiled

LEMMA SpoiledLines ==
  ASSUME NEW r, NEW q \in Seq(Nat), Spoiled(r, q)
  PROVE  r \in Seq(Nat) /\ \A i \in DOMAIN r : i \in Nat /\ i \in DOMAIN q /\ r[i] \in {q[i], 0}
<1>1. r \in Seq(Nat) /\ Len(r) \in Nat /\ Len(q) \in Nat /\ Len(r) <= Len(q)
  BY DEF Spoiled
<1>2. \A i \in DOMAIN r : i \in Nat /\ i \in DOMAIN q
  BY <1>1
<1> QED BY <1>1, <1>2 DEF Spoiled

LEMMA LastSpoilt ==
  ASSUME NEW q \in Seq(Nat)
  PROVE  Spoilt(q) \in Seq(Nat) /\ Len(Spoilt(q)) = Len(q) /\ Spoiled(Spoilt(q), q)
<1>1. q \in [1 .. Len(q) -> Nat] /\ Len(q) \in Nat /\ DOMAIN q = 1 .. Len(q)
  OBVIOUS
<1>2. Spoilt(q) \in [1 .. Len(q) -> Nat]
  BY <1>1 DEF Spoilt
<1>3. Spoilt(q) \in Seq(Nat) /\ Len(Spoilt(q)) = Len(q)
  BY <1>1, <1>2
<1>4. \A i \in 1 .. Len(q) : Spoilt(q)[i] \in {q[i], 0}
  BY <1>1 DEF Spoilt
<1>5. DOMAIN Spoilt(q) = 1 .. Len(q)
  BY <1>2
<1> QED BY <1>1, <1>3, <1>4, <1>5 DEF Spoiled

LEMMA Beginning ==
  ASSUME NEW q \in Seq(Nat), NEW n \in 0 .. Len(q)
  PROVE  /\ SubSeq(q, 1, n) \in Seq(Nat) /\ Len(SubSeq(q, 1, n)) = n
         /\ \A i \in 1 .. n : SubSeq(q, 1, n)[i] = q[i]
         /\ Spoiled(SubSeq(q, 1, n), q)
BY DEF Spoiled

LEMMA SpoiledTwice ==
  ASSUME NEW p, NEW q \in Seq(Nat), NEW r, Spoiled(r, p), Spoiled(p, q)
  PROVE  Spoiled(r, q)
<1>1. Len(r) \in Nat /\ Len(p) \in Nat /\ Len(q) \in Nat /\ r \in Seq(Nat) /\ p \in Seq(Nat)
  BY DEF Spoiled
<1>2. ASSUME NEW i \in DOMAIN r PROVE r[i] \in {q[i], 0}
  <2>1. i \in DOMAIN p
    BY <1>1, <1>2 DEF Spoiled
  <2> QED BY <1>2, <2>1 DEF Spoiled
<1> QED BY <1>1, <1>2 DEF Spoiled

LEMMA CutSpoils ==
  ASSUME NEW q \in Seq(Nat), Cut(q)
  PROVE  Spoiled(waiting', q) /\ cut' \in {"no", "line", "garbled"}
<1>1. CASE \E n \in 0 .. Len(q) - 1 : waiting' = SubSeq(q, 1, n) /\ cut' = "no"
  BY <1>1, Beginning
<1>2. ASSUME NEW n \in 1 .. Len(q), waiting' \in {SubSeq(q, 1, n), Spoilt(SubSeq(q, 1, n))}
      PROVE  Spoiled(waiting', q)
  <2>1. SubSeq(q, 1, n) \in Seq(Nat) /\ Spoiled(SubSeq(q, 1, n), q)
    BY Beginning
  <2>2. Spoiled(Spoilt(SubSeq(q, 1, n)), SubSeq(q, 1, n))
    BY <2>1, LastSpoilt
  <2> QED BY <1>2, <2>1, <2>2, SpoiledTwice
<1> QED BY <1>1, <1>2 DEF Cut

(* A line at the end, whole or not, alone or behind a cut one.              *)
LEMMA AppendedSpoils ==
  ASSUME QaTypeOK, waiting \in Seq(Nat), NEW j \in Nat, NEW k \in {j, 0}
  PROVE  Spoiled(Appended(k), waiting \o <<j>>)
<1>1. <<j>> \in Seq(Nat) /\ waiting \o <<j>> \in Seq(Nat) /\ Len(waiting \o <<j>>) = Len(waiting) + 1
        /\ Len(waiting) \in Nat
  OBVIOUS
<1>2. Spoiled(waiting, waiting \o <<j>>)
  BY <1>1 DEF Spoiled
<1>3. Spoiled(Append(waiting, k), waiting \o <<j>>)
  BY <1>1 DEF Spoiled
<1>4. Spoiled(Spoilt(waiting), waiting \o <<j>>)
  BY <1>1, <1>2, LastSpoilt, SpoiledTwice
<1> QED BY <1>3, <1>4 DEF Appended

LEMMA Numbers ==
  ASSUME QaTypeOK
  PROVE  /\ waiting \in Seq(Nat) /\ Ids = 1 .. Len(jobs) /\ Len(jobs) \in Nat /\ Ids \subseteq Jobs
         /\ Ids \subseteq Nat /\ 0 \notin Jobs /\ 0 \notin Ids
         /\ \A i \in DOMAIN waiting : waiting[i] \in Ids \cup {0}
<1>1. Ids = 1 .. Len(jobs) /\ Len(jobs) \in Nat /\ Len(jobs) <= MaxJobs /\ MaxJobs \in Nat
  BY QaConstants DEF QaTypeOK, Ids
<1>2. Ids \cup {0} \subseteq Nat /\ waiting \in Seq(Ids \cup {0})
  BY <1>1 DEF QaTypeOK
<1>3. waiting \in Seq(Nat)
  BY <1>2, SeqMonotone
<1> QED BY <1>1, <1>2, <1>3 DEF Jobs

(* The queue file a new job asks for.                                       *)
NewQueue(job) ==
  IF First(job) THEN <<Len(jobs) + 1>> \o waiting ELSE waiting \o <<Len(jobs) + 1>>

LEMMA LineSpoils ==
  ASSUME QaTypeOK, NEW job \in Requests, waiting' = LineFor(First(job), Len(jobs) + 1)
  PROVE  Spoiled(waiting', waiting) \/ Spoiled(waiting', NewQueue(job))
<1> DEFINE j == Len(jobs) + 1
<1>1. waiting \in Seq(Nat) /\ j \in Nat
  BY Numbers
<1>2. Spoiled(Appended(j), waiting \o <<j>>) /\ Spoiled(waiting, waiting)
  BY <1>1, AppendedSpoils, Unspoiled
<1>3. <<j>> \o waiting \in Seq(Nat)
  BY <1>1
<1>4. Spoiled(<<j>> \o waiting, <<j>> \o waiting)
  BY <1>3, Unspoiled
<1> HIDE DEF j
<1>5. waiting' = LineFor(First(job), j)
  BY DEF j
<1>6. CASE First(job)
  BY <1>2, <1>4, <1>5, <1>6 DEF LineFor, NewQueue, j
<1>7. CASE ~First(job)
  BY <1>2, <1>5, <1>7 DEF LineFor, NewQueue, j
<1> QED BY <1>6, <1>7

LEMMA CrashCounts == QaCrash => qaCrashes' = qaCrashes + 1 /\ current' = 0
BY DEF QaCrash

(* What a crash may do to the store: nothing, or lose the rows, or a line   *)
(* it claims, or cut a new job, a recovery or a fan-out.                    *)
LEMMA CrashSteps ==
  ASSUME QaTypeOK, QaCrash
  PROVE  /\ up' = FALSE /\ current' = 0 /\ step' = "none" /\ heard' = heard /\ comments' = comments
         /\ qaCrashes' = qaCrashes + 1 /\ qaCrashes < MaxQaCrashes
         /\ cut' \in {"no", "line", "garbled"}
         /\ \/ /\ jobs' = jobs /\ reclaimed' = reclaimed /\ rows' \in {rows, Lost(rows)}
               /\ Spoiled(waiting', waiting) \/ (waiting # <<>> /\ Spoiled(waiting', Tail(waiting)))
            \/ /\ reclaimed' = reclaimed
               /\ \E job \in Requests :
                    AddJob(job) /\ (Spoiled(waiting', waiting) \/ Spoiled(waiting', NewQueue(job)))
            \/ /\ ~up /\ jobs' = jobs /\ rows' = RowsReclaimed /\ reclaimed' = reclaimed \cup Orphans
               /\ \/ Spoiled(waiting', waiting)
                  \/ \E lines \in SetToSeqs(Orphans) : Spoiled(waiting', lines \o waiting)
            \/ /\ At("repo") /\ reclaimed' = reclaimed
               /\ \E n \in 0 .. Branches :
                    /\ AddChildren(n) /\ Spoiled(waiting', waiting \o ChildLines(n))
                    /\ rows' \in {RowsWith(n), Lost(RowsWith(n))}
<1>1. /\ up' = FALSE /\ current' = 0 /\ step' = "none" /\ heard' = heard /\ comments' = comments
      /\ qaCrashes' = qaCrashes + 1 /\ qaCrashes < MaxQaCrashes
  BY DEF QaCrash, said
<1>2. waiting \in Seq(Nat) /\ Len(jobs) + 1 \in Nat /\ cut \in {"no", "line", "garbled"}
  BY Numbers DEF QaTypeOK
<1>3. Spoiled(waiting, waiting)
  BY <1>2, Unspoiled
<1>4. CASE UNCHANGED store
  BY <1>1, <1>2, <1>3, <1>4 DEF store
<1>5. ASSUME MayClaim PROVE waiting # <<>> /\ Tail(waiting) \in Seq(Nat) /\ Spoiled(Tail(waiting), Tail(waiting))
  <2>1. waiting # <<>> /\ Tail(waiting) \in Seq(Nat)
    BY <1>2, <1>5 DEF MayClaim, Readable
  <2> QED BY <2>1, Unspoiled
<1>6. CASE CutClaim
  <2>1. CASE TakeLine
    BY <1>1, <1>5, <1>6, <2>1 DEF CutClaim, TakeLine
  <2>2. CASE MayClaim /\ Cut(Tail(waiting))
    BY <1>1, <1>5, <1>6, <2>2, CutSpoils DEF CutClaim
  <2> QED BY <1>6, <2>1, <2>2 DEF CutClaim
<1>7. CASE CutEnqueue
  <2>1. PICK job \in Requests :
          /\ AddJob(job)
          /\ \/ UNCHANGED <<waiting, cut>>
             \/ /\ cut # "garbled"
                /\ IF First(job) THEN Cut(<<Len(jobs) + 1>> \o waiting) ELSE CutLine(Len(jobs) + 1)
    BY <1>7 DEF CutEnqueue
  <2>2. CASE UNCHANGED <<waiting, cut>>
    BY <1>1, <1>2, <1>3, <1>7, <2>1, <2>2 DEF CutEnqueue
  <2>3. CASE First(job) /\ Cut(<<Len(jobs) + 1>> \o waiting)
    <3>1. <<Len(jobs) + 1>> \o waiting \in Seq(Nat)
      BY <1>2
    <3>2. Spoiled(waiting', NewQueue(job)) /\ cut' \in {"no", "line", "garbled"}
      BY <2>3, <3>1, CutSpoils DEF NewQueue
    <3> QED BY <1>1, <1>7, <2>1, <3>2 DEF CutEnqueue
  <2>4. CASE ~First(job) /\ CutLine(Len(jobs) + 1)
    <3>1. Spoiled(waiting', NewQueue(job)) /\ cut' \in {"no", "line", "garbled"}
      BY <1>2, <2>4, AppendedSpoils DEF NewQueue, CutLine
    <3> QED BY <1>1, <1>7, <2>1, <3>1 DEF CutEnqueue
  <2> QED BY <2>1, <2>2, <2>3, <2>4
<1>8. CASE CutRecover
  <2>1. CASE UNCHANGED <<waiting, cut>>
    BY <1>1, <1>2, <1>3, <1>8, <2>1 DEF CutRecover
  <2>2. ASSUME NEW lines \in SetToSeqs(Orphans), Cut(lines \o waiting)
        PROVE  Spoiled(waiting', lines \o waiting) /\ cut' \in {"no", "line", "garbled"}
    <3>1. lines \in Seq(Orphans) /\ Orphans \subseteq Nat
      BY OrphanLines, Numbers DEF Orphans
    <3>2. lines \in Seq(Nat)
      BY <3>1, SeqMonotone
    <3>3. lines \o waiting \in Seq(Nat)
      BY <1>2, <3>2
    <3> QED BY <2>2, <3>3, CutSpoils
  <2> QED BY <1>1, <1>8, <2>1, <2>2 DEF CutRecover
<1>9. ASSUME At("repo"), NEW n \in 0 .. Branches, AddChildren(n)
      PROVE  ChildLines(n) \in Seq(Nat) /\ waiting \o ChildLines(n) \in Seq(Nat)
  <2>1. n \in Nat
    BY <1>9, QaConstants
  <2>2. ChildLines(n) \in Seq(Nat)
    BY <1>2, <2>1 DEF ChildLines
  <2> QED BY <1>2, <2>2
<1>10. CASE CutFanOut
  <2>1. PICK n \in 1 .. Branches :
          /\ AddChildren(n) /\ rows' = RowsWith(n)
          /\ LET lines == waiting \o ChildLines(n)
             IN  \/ waiting' \in {lines, SubSeq(lines, 1, Len(lines) - 1)} /\ UNCHANGED cut
                 \/ waiting' \in {lines, Spoilt(lines)} /\ cut' \in {"line", "garbled"}
    BY <1>10 DEF CutFanOut
  <2> DEFINE lines == waiting \o ChildLines(n)
  <2>2. n \in 0 .. Branches /\ At("repo")
    BY <1>10, <2>1, QaConstants DEF CutFanOut
  <2>3. lines \in Seq(Nat) /\ Len(lines) > 0
    <3>1. n \in Nat /\ n > 0
      BY <2>1, QaConstants
    <3>2. Len(ChildLines(n)) = n
      BY <3>1 DEF ChildLines
    <3> QED BY <1>2, <1>9, <2>1, <2>2, <3>1, <3>2
  <2> HIDE DEF lines
  <2>4. Spoiled(lines, lines) /\ Spoiled(Spoilt(lines), lines) /\ Spoiled(SubSeq(lines, 1, Len(lines) - 1), lines)
    <3>1. Len(lines) - 1 \in 0 .. Len(lines)
      BY <2>3
    <3> QED BY <2>3, <3>1, Unspoiled, LastSpoilt, Beginning
  <2>5. Spoiled(waiting', lines) /\ cut' \in {"no", "line", "garbled"}
    BY <1>2, <2>1, <2>4 DEF lines
  <2> QED BY <1>1, <1>10, <2>1, <2>2, <2>5 DEF CutFanOut, lines
<1>11. CASE CutStatus
  <2>1. CASE UNCHANGED <<jobs, waiting, cut>> /\ rows' = Lost(rows)
    BY <1>1, <1>2, <1>3, <1>11, <2>1 DEF CutStatus
  <2>2. CASE TakeLine /\ rows' = Lost(rows) /\ UNCHANGED jobs
    BY <1>1, <1>5, <1>11, <2>2 DEF CutStatus, TakeLine
  <2>3. ASSUME At("repo"), NEW n \in 1 .. Branches, Children(n), rows' = Lost(RowsWith(n)), UNCHANGED cut
        PROVE  /\ cut' \in {"no", "line", "garbled"} /\ AddChildren(n) /\ n \in 0 .. Branches
               /\ Spoiled(waiting', waiting \o ChildLines(n))
    <3>1. n \in 0 .. Branches /\ AddChildren(n) /\ waiting' = waiting \o ChildLines(n)
      BY <2>3, QaConstants DEF Children
    <3> QED BY <1>2, <1>9, <2>3, <3>1, Unspoiled
  <2> QED BY <1>1, <1>11, <2>1, <2>2, <2>3 DEF CutStatus
<1> QED BY <1>4, <1>6, <1>7, <1>8, <1>10, <1>11 DEF QaCrash

-----------------------------------------------------------------------------
(* Lines.                                                                   *)

(* Jobs stay what they are.                                                 *)
LEMMA JobsKept ==
  ASSUME QaTypeOK, [QaNext]_qa
  PROVE  Ids \subseteq Ids' /\ \A j \in Ids : jobs'[j] = jobs[j]
<1>1. CASE jobs' = jobs
  BY <1>1 DEF Ids
<1>2. ASSUME NEW job \in Requests, AddJob(job) PROVE Ids \subseteq Ids' /\ \A j \in Ids : jobs'[j] = jobs[j]
  BY <1>2, JobAdded
<1>3. ASSUME At("repo"), NEW n \in 0 .. Branches, AddChildren(n)
      PROVE  Ids \subseteq Ids' /\ \A j \in Ids : jobs'[j] = jobs[j]
  BY <1>3, ChildrenAdded DEF At, QaTypeOK
<1>4. CASE FanOut
  <2>1. At("repo") /\ \E n \in 0 .. Branches : AddChildren(n)
    BY <1>4, QaConstants DEF FanOut, Children
  <2> QED BY <1>3, <2>1
<1>5. CASE QaCrash
  <2>1. \/ jobs' = jobs
        \/ \E job \in Requests : AddJob(job)
        \/ At("repo") /\ \E n \in 0 .. Branches : AddChildren(n)
    BY <1>5, CrashSteps
  <2> QED BY <1>1, <1>2, <1>3, <2>1
<1>6. ASSUME NEW job \in Requests, Enqueue(job) PROVE AddJob(job)
  BY <1>6 DEF Enqueue
<1>7. CASE \/ Recover \/ Claim \/ LoopDies \/ Raise \/ Review \/ Scan \/ Comment \/ SettleReview \/ Notify
           \/ JobTimeout \/ UNCHANGED qa
  BY <1>1, <1>7 DEF Recover, Claim, LoopDies, Raise, Review, Scan, Comment, SettleReview, Notify, JobTimeout,
                    store, qa
<1> QED BY <1>2, <1>4, <1>5, <1>6, <1>7 DEF QaNext, QaSystem, QaEnvironment

(* New lines: each once, of jobs that were not waiting and now are.         *)
NewLines(new) ==
  /\ new \in Seq(Ids') /\ IsInjective(new) /\ current' \in {0, current}
  /\ \A i \in DOMAIN new : rows[new[i]] \notin Waits /\ rows'[new[i]] \in Waits

Ahead(new, q) ==
  q = new \o waiting /\ \A i \in DOMAIN new : First(jobs'[new[i]]) \/ new[i] \in reclaimed'
AtEnd(new, q) == q = waiting \o new /\ \A i \in DOMAIN new : ~First(jobs'[new[i]])
Taken(q)      == waiting # <<>> /\ q = Tail(waiting) /\ current' \in {0, Head(waiting)}

(* The first line is taken, or lines are put before or behind the others;   *)
(* and the file may be cut.                                                 *)
LinesChange ==
  \E q \in Seq(Nat) :
    /\ Spoiled(waiting', q)
    /\ Taken(q) \/ \E new \in Seq(Nat) : NewLines(new) /\ (Ahead(new, q) \/ AtEnd(new, q))

LEMMA NoNewLines ==
  ASSUME QaTypeOK, Spoiled(waiting', waiting), current' \in {0, current}
  PROVE  LinesChange
<1>1. waiting \in Seq(Nat)
  BY Numbers
<1>2. <<>> \in Seq(Nat) /\ <<>> \in Seq(Ids') /\ waiting \o <<>> = waiting /\ DOMAIN <<>> = {}
  BY <1>1
<1>3. NewLines(<<>>) /\ AtEnd(<<>>, waiting)
  BY <1>2 DEF NewLines, AtEnd, IsInjective
<1> QED BY <1>1, <1>2, <1>3 DEF LinesChange

LEMMA JobsLine ==
  ASSUME QaTypeOK, Working, NEW job \in Requests, AddJob(job), current' \in {0, current},
         Spoiled(waiting', NewQueue(job))
  PROVE  LinesChange
<1> DEFINE j == Len(jobs) + 1
           new == <<j>>
<1>1. waiting \in Seq(Nat) /\ j \in Nat /\ Ids = 1 .. Len(jobs) /\ Len(jobs) \in Nat
  BY Numbers
<1>2. jobs'[j] = job /\ j \in Ids' /\ j \in Jobs /\ j \notin Ids
  BY <1>1, JobAdded
<1>3. rows'[j] \in Waits /\ rows[j] \notin Waits
  BY <1>1, <1>2, JobAdded DEF RowsWith, Working, Waits
<1>4. new \in Seq(Nat) /\ new \in Seq(Ids') /\ DOMAIN new = {1} /\ new[1] = j
  BY <1>1, <1>2
<1>5. NewQueue(job) = (IF First(job) THEN new \o waiting ELSE waiting \o new)
  BY DEF NewQueue
<1>6. NewQueue(job) \in Seq(Nat)
  BY <1>1, <1>4, <1>5
<1> HIDE DEF j, new
<1>7. NewLines(new) /\ (Ahead(new, NewQueue(job)) \/ AtEnd(new, NewQueue(job)))
  BY <1>2, <1>3, <1>4, <1>5 DEF NewLines, Ahead, AtEnd, IsInjective
<1> QED BY <1>4, <1>6, <1>7 DEF LinesChange

LEMMA OrphansBack ==
  ASSUME QaTypeOK, NEW lines \in SetToSeqs(Orphans), jobs' = jobs, rows' = RowsReclaimed,
         reclaimed' = reclaimed \cup Orphans, current' \in {0, current},
         Spoiled(waiting', lines \o waiting)
  PROVE  LinesChange
<1>1. waiting \in Seq(Nat) /\ Ids \subseteq Nat /\ Ids \subseteq Jobs /\ Ids' = Ids
  BY Numbers DEF Ids
<1>2. lines \in Seq(Orphans) /\ IsInjective(lines) /\ Orphans \subseteq Nat /\ Orphans \subseteq Ids'
  BY <1>1, OrphanLines DEF Orphans
<1>3. lines \in Seq(Nat) /\ lines \in Seq(Ids')
  BY <1>2, SeqMonotone
<1>4. \A i \in DOMAIN lines : lines[i] \in Orphans
  BY <1>2
<1>5. ASSUME NEW k \in Orphans PROVE rows[k] \notin Waits /\ rows'[k] \in Waits /\ k \in reclaimed'
  BY <1>1, <1>5 DEF Orphans, RowsReclaimed, Waits
<1>6. lines \o waiting \in Seq(Nat)
  BY <1>1, <1>3
<1>7. NewLines(lines) /\ Ahead(lines, lines \o waiting)
  BY <1>2, <1>3, <1>4, <1>5 DEF NewLines, Ahead
<1> QED BY <1>3, <1>6, <1>7 DEF LinesChange

LEMMA BranchLines ==
  ASSUME QaTypeOK, Working, At("repo"), NEW n \in 0 .. Branches, AddChildren(n),
         current' \in {0, current}, Spoiled(waiting', waiting \o ChildLines(n)),
         \A j \in Jobs : j # current => rows'[j] \in {RowsWith(n)[j], Lost(RowsWith(n))[j]}
  PROVE  LinesChange
<1> DEFINE new  == ChildLines(n)
<1>0. current \in Ids /\ n \in Nat
  BY ChildrenAdded DEF At, QaTypeOK
<1>1. waiting \in Seq(Nat) /\ Ids = 1 .. Len(jobs) /\ Len(jobs) \in Nat
  BY Numbers
<1>2. new \in Seq(Nat) /\ DOMAIN new = 1 .. n /\ \A i \in 1 .. n : new[i] = Len(jobs) + i
  BY <1>0, <1>1 DEF ChildLines
<1>3. ASSUME NEW i \in 1 .. n
      PROVE  /\ new[i] \in Ids' /\ rows[new[i]] \notin Waits /\ rows'[new[i]] \in Waits
             /\ ~First(jobs'[new[i]])
  <2>0. Ids' = 1 .. Len(jobs) + n /\ Ids' \subseteq Jobs /\ ~First(jobs'[Len(jobs) + i])
    BY <1>0, ChildrenAdded
  <2>1. Len(jobs) + i \in Ids' /\ Len(jobs) + i \in Jobs /\ Len(jobs) + i \notin Ids
    BY <1>0, <1>1, <2>0
  <2>2. rows[Len(jobs) + i] = "none" /\ RowsWith(n)[Len(jobs) + i] = "queued"
    BY <1>0, <1>1, <2>1 DEF Working, RowsWith
  <2>3. Lost(RowsWith(n))[Len(jobs) + i] = "unlisted"
    BY <2>1, <2>2 DEF Lost, Waits
  <2>4. rows'[Len(jobs) + i] \in Waits
    BY <1>0, <2>1, <2>2, <2>3 DEF Waits
  <2> QED BY <1>2, <2>0, <2>1, <2>2, <2>4 DEF Waits
<1>4. IsInjective(new)
  BY <1>1, <1>2 DEF IsInjective
<1>5. new \in Seq(Ids') /\ waiting \o new \in Seq(Nat)
  BY <1>0, <1>1, <1>2, <1>3
<1> HIDE DEF new
<1>6. NewLines(new) /\ AtEnd(new, waiting \o new)
  BY <1>2, <1>3, <1>4, <1>5 DEF NewLines, AtEnd
<1> QED BY <1>2, <1>5, <1>6 DEF LinesChange, new

LEMMA QueueSteps ==
  ASSUME QaTypeOK, Working, [QaNext]_qa
  PROVE  LinesChange
<1>1. waiting \in Seq(Nat) /\ Spoiled(waiting, waiting)
  BY Numbers, Unspoiled
<1>2. ASSUME waiting # <<>>, Spoiled(waiting', Tail(waiting)), current' \in {0, Head(waiting)}
      PROVE  LinesChange
  <2>1. Tail(waiting) \in Seq(Nat)
    BY <1>1, <1>2
  <2> QED BY <1>2, <2>1 DEF LinesChange, Taken
<1>3. ASSUME NEW job \in Requests, Enqueue(job) PROVE LinesChange
  <2>1. AddJob(job) /\ current' = current /\ waiting' = LineFor(First(job), Len(jobs) + 1)
    BY <1>3 DEF Enqueue, worker
  <2>2. Spoiled(waiting', waiting) \/ Spoiled(waiting', NewQueue(job))
    BY <2>1, LineSpoils
  <2> QED BY <2>1, <2>2, NoNewLines, JobsLine
<1>4. CASE Recover
  <2>1. PICK lines \in SetToSeqs(Orphans) :
          waiting' = IF cut = "garbled" THEN waiting ELSE lines \o waiting
    BY <1>4 DEF Recover
  <2>2. lines \in Seq(Orphans) /\ Orphans \subseteq Nat
    BY OrphanLines, Numbers DEF Orphans
  <2>3. lines \in Seq(Nat)
    BY <2>2, SeqMonotone
  <2>4. lines \o waiting \in Seq(Nat)
    BY <1>1, <2>3
  <2>5. Spoiled(waiting', waiting) \/ Spoiled(waiting', lines \o waiting)
    BY <1>1, <2>1, <2>4, Unspoiled
  <2>6. current' = current /\ jobs' = jobs /\ rows' = RowsReclaimed /\ reclaimed' = reclaimed \cup Orphans
    BY <1>4 DEF Recover
  <2> QED BY <2>5, <2>6, NoNewLines, OrphansBack
<1>5. CASE Claim
  <2>1. waiting # <<>> /\ waiting' = Tail(waiting) /\ current' = Head(waiting)
    BY <1>5 DEF Claim, TakeLine, MayClaim, Readable
  <2>2. Tail(waiting) \in Seq(Nat)
    BY <1>1, <2>1
  <2> QED BY <1>2, <2>1, <2>2, Unspoiled
<1>6. CASE FanOut
  <2>1. PICK n \in {0, Branches} : Children(n) /\ rows' = [RowsWith(n) EXCEPT ![current] = "completed"]
    BY <1>6 DEF FanOut
  <2>2. n \in 0 .. Branches /\ At("repo") /\ current' = current /\ AddChildren(n)
          /\ waiting' = waiting \o ChildLines(n)
    BY <1>6, <2>1, QaConstants DEF FanOut, Children
  <2>3. \A j \in Jobs : j # current => rows'[j] = RowsWith(n)[j]
    BY <2>1 DEF RowsWith
  <2>4. ChildLines(n) \in Seq(Nat)
    <3>1. Len(jobs) \in Nat /\ n \in Nat
      BY <2>2, Numbers, QaConstants
    <3> QED BY <3>1 DEF ChildLines
  <2>5. waiting \o ChildLines(n) \in Seq(Nat)
    BY <1>1, <2>4
  <2> QED BY <2>2, <2>3, <2>5, Unspoiled, BranchLines
<1>7. CASE \/ LoopDies \/ Raise \/ Review \/ Scan \/ Comment \/ SettleReview \/ Notify \/ JobTimeout
           \/ UNCHANGED qa
  <2>1. waiting' = waiting /\ current' \in {0, current}
    BY <1>7 DEF LoopDies, Raise, Review, Scan, Comment, SettleReview, Notify, JobTimeout, store, worker, qa
  <2> QED BY <1>1, <2>1, NoNewLines
<1>8. CASE QaCrash
  <2>1. current' = 0
    BY <1>8, CrashSteps
  <2>2. CASE Spoiled(waiting', waiting) \/ (waiting # <<>> /\ Spoiled(waiting', Tail(waiting)))
    BY <1>2, <2>1, <2>2, NoNewLines
  <2>3. ASSUME NEW job \in Requests, AddJob(job), Spoiled(waiting', NewQueue(job)) PROVE LinesChange
    BY <2>1, <2>3, JobsLine
  <2>4. ASSUME NEW lines \in SetToSeqs(Orphans), jobs' = jobs, rows' = RowsReclaimed,
               reclaimed' = reclaimed \cup Orphans, Spoiled(waiting', lines \o waiting)
        PROVE  LinesChange
    BY <2>1, <2>4, OrphansBack
  <2>5. ASSUME At("repo"), NEW n \in 0 .. Branches, AddChildren(n),
               Spoiled(waiting', waiting \o ChildLines(n)), rows' \in {RowsWith(n), Lost(RowsWith(n))}
        PROVE  LinesChange
    <3>1. \A j \in Jobs : j # current => rows'[j] \in {RowsWith(n)[j], Lost(RowsWith(n))[j]}
      BY <2>5
    <3> QED BY <2>1, <2>5, <3>1, BranchLines
  <2> QED BY <1>8, <2>2, <2>3, <2>4, <2>5, CrashSteps
<1> QED
  BY <1>3, <1>4, <1>5, <1>6, <1>7, <1>8 DEF QaNext, QaSystem, QaEnvironment

-----------------------------------------------------------------------------
(* Types.                                                                   *)

Statuses == NoRow \cup {"queued", "running"} \cup Settled

(* Lines are of jobs, or no JSON.                                           *)
LEMMA LinesTyped ==
  ASSUME QaTypeOK, [QaNext]_qa, LinesChange
  PROVE  waiting' \in Seq(Ids' \cup {0})
<1>1. PICK q \in Seq(Nat) :
        /\ Spoiled(waiting', q)
        /\ Taken(q) \/ \E new \in Seq(Nat) : NewLines(new) /\ (Ahead(new, q) \/ AtEnd(new, q))
  BY DEF LinesChange
<1>2. waiting \in Seq(Nat) /\ \A i \in DOMAIN waiting : waiting[i] \in Ids' \cup {0}
  BY Numbers, JobsKept
<1>3. \A i \in DOMAIN q : q[i] \in Ids' \cup {0}
  <2>1. CASE Taken(q)
    <3>1. \A i \in DOMAIN q : i + 1 \in DOMAIN waiting /\ q[i] = waiting[i + 1]
      BY <1>2, <2>1 DEF Taken
    <3> QED BY <1>2, <3>1
  <2>2. ASSUME NEW new \in Seq(Nat), NewLines(new), Ahead(new, q) \/ AtEnd(new, q)
        PROVE  \A i \in DOMAIN q : q[i] \in Ids' \cup {0}
    <3>1. \A i \in DOMAIN new : new[i] \in Ids' \cup {0}
      BY <2>2 DEF NewLines
    <3>2. CASE q = new \o waiting
      <4>1. \A i \in DOMAIN q : IF i <= Len(new) THEN i \in DOMAIN new /\ q[i] = new[i]
                                ELSE i - Len(new) \in DOMAIN waiting /\ q[i] = waiting[i - Len(new)]
        BY <1>2, <2>2, <3>2, Joined
      <4> QED BY <1>2, <3>1, <4>1
    <3>3. CASE q = waiting \o new
      <4>1. \A i \in DOMAIN q : IF i <= Len(waiting) THEN i \in DOMAIN waiting /\ q[i] = waiting[i]
                                ELSE i - Len(waiting) \in DOMAIN new /\ q[i] = new[i - Len(waiting)]
        BY <1>2, <2>2, <3>3, Joined
      <4> QED BY <1>2, <3>1, <4>1
    <3> QED BY <2>2, <3>2, <3>3 DEF Ahead, AtEnd
  <2> QED BY <1>1, <2>1, <2>2
<1>4. waiting' \in Seq(Nat) /\ \A i \in DOMAIN waiting' : i \in DOMAIN q /\ waiting'[i] \in {q[i], 0}
  BY <1>1, SpoiledLines
<1>5. \A i \in DOMAIN waiting' : waiting'[i] \in Ids' \cup {0}
  BY <1>3, <1>4
<1> QED BY <1>4, <1>5, SeqNarrowed

LEMMA TypeStep == QaTypeOK /\ Working /\ [QaNext]_qa => QaTypeOK'
<1> SUFFICES ASSUME QaTypeOK, Working, [QaNext]_qa PROVE QaTypeOK'
  OBVIOUS
<1>0. waiting' \in Seq(Ids' \cup {0})
  BY QueueSteps, LinesTyped
<1>1. Ids = 1 .. Len(jobs) /\ Len(jobs) \in Nat
  BY DEF Ids, QaTypeOK
<1>2. ASSUME NEW n \in Nat PROVE RowsWith(n) \in [Jobs -> Statuses]
  BY DEF RowsWith, QaTypeOK, Statuses
<1>3. RowsReclaimed \in [Jobs -> Statuses]
  BY DEF RowsReclaimed, QaTypeOK, Statuses
<1>4. \A j, st : st \in Settled /\ Update(j, st) => rows' \in [Jobs -> Statuses]
  BY DEF Update, QaTypeOK, Statuses
<1>5. ASSUME current \in Ids, NEW what \in Settled, Tell(what) PROVE heard' \in [Jobs -> Seq(Settled)]
  <2>1. heard[current] \in Seq(Settled) => Append(heard[current], what) \in Seq(Settled)
    OBVIOUS
  <2> QED BY <1>5, <2>1 DEF Tell, QaTypeOK
<1>6. ASSUME NEW job \in Requests, Enqueue(job) PROVE QaTypeOK'
  <2>0. AddJob(job)
    BY <1>6 DEF Enqueue
  <2>1. /\ jobs' \in Seq(JobType) /\ Len(jobs') <= MaxJobs /\ Ids \subseteq Ids'
        /\ rows' = RowsWith(1)
    BY <2>0, JobAdded
  <2> QED BY <1>0, <1>2, <1>6, <2>1 DEF Enqueue, QaTypeOK, worker, said, Statuses
<1>7. CASE Recover
  <2>1. Orphans \subseteq Ids
    BY DEF Orphans
  <2> QED BY <1>0, <1>3, <1>7, <2>1 DEF Recover, QaTypeOK, said, Statuses, Ids
<1>8. CASE Claim
  <2>1. Head(waiting) \in Ids
    <3>1. waiting \in Seq(Ids \cup {0}) /\ waiting # <<>> /\ Head(waiting) # 0
      BY <1>8 DEF Claim, TakeLine, MayClaim, Readable, QaTypeOK
    <3> QED BY <3>1
  <2>2. rows' \in [Jobs -> Statuses]
    BY <1>8 DEF Claim, Update, QaTypeOK, Statuses
  <2>3. jobs[Head(waiting)] \in JobType
    BY <2>1 DEF QaTypeOK, Ids
  <2>4. step' \in {"scan", "review", "repo"}
    BY <1>8, <2>3 DEF Claim, JobType
  <2>5. /\ jobs' = jobs /\ reclaimed' = reclaimed /\ up' = up /\ heard' = heard
        /\ comments' = comments /\ qaCrashes' = qaCrashes /\ current' = Head(waiting) /\ cut' = "no"
    BY <1>8 DEF Claim, TakeLine, said
  <2> QED BY <1>0, <2>1, <2>2, <2>4, <2>5 DEF QaTypeOK, Statuses, Ids
<1>9. CASE Raise
  BY <1>0, <1>4, <1>9 DEF Raise, Settle, Settled, QaTypeOK, Statuses, Ids
<1>10. CASE FanOut
  <2>1. PICK n \in {0, Branches} :
          /\ Children(n)
          /\ rows' = [RowsWith(n) EXCEPT ![current] = "completed"]
    BY <1>10 DEF FanOut
  <2>2. n \in 0 .. Branches /\ n \in Nat /\ current \in Ids /\ AddChildren(n)
    BY <1>10, <2>1, QaConstants DEF FanOut, At, QaTypeOK, Children
  <2>3. jobs' \in Seq(JobType) /\ Len(jobs') <= MaxJobs /\ Ids \subseteq Ids'
    BY <2>1, <2>2, ChildrenAdded
  <2>4. rows' \in [Jobs -> Statuses]
    BY <1>2, <2>1, <2>2 DEF Statuses, Settled
  <2> QED BY <1>0, <1>10, <2>2, <2>3, <2>4 DEF FanOut, QaTypeOK, said, Statuses
<1>11. CASE Review \/ LoopDies
  BY <1>11 DEF Review, LoopDies, store, said, QaTypeOK, Ids
<1>12. CASE Scan
  BY <1>0, <1>4, <1>12 DEF Scan, Settle, Settled, QaTypeOK, Statuses, Ids
<1>13. CASE Comment
  <2>1. comments' \in [Jobs -> Nat]
    <3>1. PICK posted \in {0, 1} : comments' = [comments EXCEPT ![current] = @ + posted]
      BY <1>13 DEF Comment
    <3>2. current \in Jobs => comments[current] + posted \in Nat
      BY DEF QaTypeOK
    <3> QED BY <3>1, <3>2 DEF QaTypeOK
  <2> QED BY <1>0, <1>13, <2>1 DEF Comment, store, QaTypeOK, Ids
<1>14. CASE SettleReview
  BY <1>0, <1>4, <1>14 DEF SettleReview, Settle, Settled, QaTypeOK, Statuses, Ids
<1>15. CASE Notify
  <2>1. current \in Ids /\ rows[current] \in Settled
    BY <1>15 DEF Notify, At, Working, QaTypeOK
  <2>2. heard' \in [Jobs -> Seq(Settled)]
    BY <1>5, <1>15, <2>1 DEF Notify, QaTypeOK
  <2> QED BY <1>0, <1>15, <2>2 DEF Notify, store, QaTypeOK, Ids
<1>16. CASE JobTimeout
  <2>1. current \in Ids /\ (step = "notify" => rows[current] \in Settled)
    BY <1>16 DEF JobTimeout, Working, QaTypeOK
  <2>2. heard' \in [Jobs -> Seq(Settled)]
    BY <1>5, <1>16, <2>1 DEF JobTimeout, QaTypeOK
  <2>3. rows' \in [Jobs -> Statuses]
    BY <1>4, <1>16 DEF JobTimeout, TimedOut, Settled
  <2>4. comments' \in [Jobs -> Nat]
    <3>1. PICK posted \in {0, 1} :
            comments' = [comments EXCEPT ![current] = IF step = "comment" THEN @ + posted ELSE @]
      BY <1>16 DEF JobTimeout
    <3>2. current \in Jobs => comments[current] + posted \in Nat
      BY DEF QaTypeOK
    <3> QED BY <3>1, <3>2 DEF QaTypeOK
  <2> QED BY <1>0, <1>16, <2>2, <2>3, <2>4 DEF JobTimeout, QaTypeOK, Ids, Statuses
<1>17. CASE QaCrash
  <2>0. /\ up' \in BOOLEAN /\ current' = 0 /\ step' = "none" /\ qaCrashes' \in 0 .. MaxQaCrashes
        /\ heard' \in [Jobs -> Seq(Settled)] /\ comments' \in [Jobs -> Nat]
        /\ cut' \in {"no", "line", "garbled"}
    <3>1. /\ up' = FALSE /\ current' = 0 /\ step' = "none" /\ qaCrashes' = qaCrashes + 1
          /\ qaCrashes < MaxQaCrashes /\ heard' = heard /\ comments' = comments
          /\ cut' \in {"no", "line", "garbled"}
      BY <1>17, CrashSteps
    <3>2. qaCrashes \in 0 .. MaxQaCrashes /\ MaxQaCrashes \in Nat
      BY QaConstants DEF QaTypeOK
    <3>3. heard \in [Jobs -> Seq(Settled)] /\ comments \in [Jobs -> Nat]
      BY DEF QaTypeOK
    <3>4. qaCrashes' \in 0 .. MaxQaCrashes
      BY <3>1, <3>2
    <3>5. up' \in BOOLEAN
      BY <3>1
    <3> QED BY <3>1, <3>3, <3>4, <3>5
  <2>1. ASSUME NEW r \in [Jobs -> Statuses] PROVE Lost(r) \in [Jobs -> Statuses]
    BY DEF Lost, Statuses, NoRow
  <2>2. CASE jobs' = jobs /\ reclaimed' = reclaimed /\ rows' \in {rows, Lost(rows)}
    <3>1. rows' \in [Jobs -> Statuses]
      BY <2>1, <2>2 DEF QaTypeOK, Statuses
    <3> QED BY <1>0, <2>0, <2>2, <3>1 DEF QaTypeOK, Ids, Statuses
  <2>3. ASSUME NEW job \in Requests, AddJob(job), reclaimed' = reclaimed PROVE QaTypeOK'
    <3>1. /\ jobs' \in Seq(JobType) /\ Len(jobs') <= MaxJobs /\ Ids \subseteq Ids'
          /\ rows' = RowsWith(1)
      BY <2>3, JobAdded
    <3> QED BY <1>0, <1>2, <2>0, <2>3, <3>1 DEF QaTypeOK, Statuses
  <2>4. CASE jobs' = jobs /\ rows' = RowsReclaimed /\ reclaimed' = reclaimed \cup Orphans
    BY <1>0, <1>3, <2>0, <2>4 DEF QaTypeOK, Statuses, Ids, Orphans
  <2>5. ASSUME At("repo"), NEW n \in 0 .. Branches, AddChildren(n), reclaimed' = reclaimed,
               rows' \in {RowsWith(n), Lost(RowsWith(n))}
        PROVE  QaTypeOK'
    <3>1. n \in Nat /\ current \in Ids
      BY <2>5, QaConstants DEF At, QaTypeOK
    <3>2. jobs' \in Seq(JobType) /\ Len(jobs') <= MaxJobs /\ Ids \subseteq Ids'
      BY <2>5, <3>1, ChildrenAdded
    <3>3. rows' \in [Jobs -> Statuses]
      BY <1>2, <2>1, <2>5, <3>1
    <3> QED BY <1>0, <2>0, <2>5, <3>2, <3>3 DEF QaTypeOK, Statuses
  <2> QED BY <1>17, <2>2, <2>3, <2>4, <2>5, CrashSteps
<1>18. CASE UNCHANGED qa
  BY <1>18 DEF qa, store, worker, said, QaTypeOK, Ids
<1> QED
  BY <1>6, <1>7, <1>8, <1>9, <1>10, <1>11, <1>12, <1>13, <1>14, <1>15, <1>16, <1>17, <1>18
     DEF QaNext, QaSystem, QaEnvironment

-----------------------------------------------------------------------------
(* Where a job's row stands.                                                *)

(* How a row changes: it is queued when its job is made, running when it is *)
(* claimed, and settled by the worker; a recovery queues what was running,  *)
(* and a crash loses it.                                                    *)
RowChange(j) ==
  \/ rows'[j] = rows[j]
  \/ j \notin Ids /\ rows'[j] \in Waits /\ j \in Ids' /\ (rows'[j] = "queued" \/ QaCrash)
  \/ rows[j] \in Waits /\ rows'[j] = "running" /\ j = current' /\ Claim
  \/ j = current /\ rows'[j] \in Settled /\ ~QaCrash
  \/ ~up /\ rows[j] = "running" /\ rows'[j] = "queued"
  \/ QaCrash /\ rows[j] = "queued" /\ rows'[j] = "unlisted"
  \/ QaCrash /\ rows[j] \in {"running"} \cup Settled /\ rows'[j] = "forgotten"

LEMMA RowSteps ==
  ASSUME QaTypeOK, Working, Lines, [QaNext]_qa, NEW j \in Jobs
  PROVE  RowChange(j)
<1>1. Ids = 1 .. Len(jobs) /\ Len(jobs) \in Nat
  BY DEF Ids, QaTypeOK
<1>2. ASSUME NEW job \in Requests, AddJob(job)
      PROVE  rows'[j] = rows[j] \/ (j \notin Ids /\ rows'[j] = "queued" /\ j \in Ids')
  BY <1>1, <1>2, JobAdded DEF RowsWith, QaTypeOK
<1>3. ASSUME At("repo"), NEW n \in 0 .. Branches, AddChildren(n)
      PROVE  \/ RowsWith(n)[j] = rows[j]
             \/ j \notin Ids /\ rows[j] = "none" /\ RowsWith(n)[j] = "queued" /\ j \in Ids'
  <2>1. Ids' = 1 .. Len(jobs) + n /\ n \in Nat
    BY <1>3, ChildrenAdded DEF At, QaTypeOK
  <2> QED BY <1>1, <2>1 DEF RowsWith, Working
<1>4. RowsReclaimed[j] = rows[j] \/ (rows[j] = "running" /\ RowsReclaimed[j] = "queued")
  BY DEF RowsReclaimed, Orphans
<1>5. ASSUME NEW job \in Requests, Enqueue(job) PROVE RowChange(j)
  BY <1>2, <1>5 DEF Enqueue, RowChange, Waits
<1>6. CASE Recover
  BY <1>4, <1>6 DEF Recover, RowChange
<1>7. CASE Claim
  <2>1. waiting # <<>> /\ Head(waiting) # 0 /\ current' = Head(waiting) /\ 1 \in DOMAIN waiting
          /\ Head(waiting) = waiting[1]
    BY <1>7, Numbers DEF Claim, TakeLine, MayClaim, Readable
  <2>2. rows[Head(waiting)] \in Waits
    BY <2>1 DEF Lines
  <2> QED BY <1>7, <2>1, <2>2 DEF Claim, Update, QaTypeOK, RowChange
<1>8. ASSUME NEW st \in Settled, Update(current, st), ~QaCrash PROVE RowChange(j)
  BY <1>8 DEF Update, QaTypeOK, RowChange
<1>9. CASE Raise \/ Scan \/ SettleReview \/ JobTimeout
  <2>1. rows' = rows \/ \E st \in Settled : Update(current, st)
    BY <1>9 DEF Raise, Scan, SettleReview, JobTimeout, TimedOut, Settle, Settled
  <2>2. ~QaCrash
    <3>1. qaCrashes' = qaCrashes /\ qaCrashes \in Nat
      BY <1>9, QaConstants DEF Raise, Scan, SettleReview, JobTimeout, QaTypeOK
    <3> QED BY <3>1, CrashCounts
  <2> QED BY <1>8, <2>1, <2>2 DEF RowChange
<1>10. CASE FanOut
  <2>1. PICK n \in {0, Branches} : Children(n) /\ rows' = [RowsWith(n) EXCEPT ![current] = "completed"]
    BY <1>10 DEF FanOut
  <2>2. n \in 0 .. Branches /\ At("repo") /\ AddChildren(n)
    BY <1>10, <2>1, QaConstants DEF FanOut, Children
  <2>3. RowsWith(n) = [k \in Jobs |-> RowsWith(n)[k]]
    BY DEF RowsWith
  <2>4. ~QaCrash
    <3>1. qaCrashes' = qaCrashes /\ qaCrashes \in Nat
      BY <1>10, QaConstants DEF FanOut, QaTypeOK
    <3> QED BY <3>1, CrashCounts
  <2>5. CASE j = current
    <3>1. rows'[j] = "completed"
      BY <2>1, <2>3, <2>5
    <3> QED BY <2>4, <2>5, <3>1 DEF Settled, RowChange
  <2>6. CASE j # current
    <3>1. rows'[j] = RowsWith(n)[j]
      BY <2>1, <2>3, <2>6
    <3> QED BY <1>3, <2>2, <3>1 DEF RowChange, Waits
  <2> QED BY <2>5, <2>6
<1>11. CASE LoopDies \/ Review \/ Comment \/ Notify \/ UNCHANGED qa
  BY <1>11 DEF LoopDies, Review, Comment, Notify, store, qa, RowChange
<1>12. CASE QaCrash
  <2>0. rows[j] \in Statuses
    BY DEF QaTypeOK, Statuses
  <2>1. ASSUME NEW r, r[j] \in Statuses
        PROVE  \/ Lost(r)[j] = r[j]
               \/ r[j] = "queued" /\ Lost(r)[j] = "unlisted"
               \/ r[j] \in {"running"} \cup Settled /\ Lost(r)[j] = "forgotten"
    BY <2>1 DEF Lost, Statuses, NoRow, Waits
  <2>2. CASE rows' \in {rows, Lost(rows)}
    BY <1>12, <2>0, <2>1, <2>2 DEF RowChange
  <2>3. CASE \E job \in Requests : AddJob(job)
    BY <1>2, <2>3 DEF RowChange, Waits
  <2>4. CASE ~up /\ rows' = RowsReclaimed
    BY <1>4, <2>4 DEF RowChange
  <2>5. ASSUME At("repo"), NEW n \in 0 .. Branches, AddChildren(n),
               rows' \in {RowsWith(n), Lost(RowsWith(n))}
        PROVE  RowChange(j)
    <3>1. \/ RowsWith(n)[j] = rows[j]
          \/ j \notin Ids /\ rows[j] = "none" /\ RowsWith(n)[j] = "queued" /\ j \in Ids'
      BY <1>3, <2>5
    <3>2. RowsWith(n)[j] \in Statuses
      BY <2>0, <3>1 DEF Statuses
    <3>3. \/ rows'[j] = RowsWith(n)[j]
          \/ RowsWith(n)[j] = "queued" /\ rows'[j] = "unlisted"
          \/ RowsWith(n)[j] \in {"running"} \cup Settled /\ rows'[j] = "forgotten"
      BY <2>1, <2>5, <3>2
    <3> QED BY <1>12, <3>1, <3>3 DEF RowChange, Waits, Settled
  <2> QED BY <1>12, <2>2, <2>3, <2>4, <2>5, CrashSteps
<1> QED
  BY <1>5, <1>6, <1>7, <1>9, <1>10, <1>11, <1>12 DEF QaNext, QaSystem, QaEnvironment

(* What a chat is told, and when.                                           *)
LEMMA ToldSteps ==
  ASSUME QaTypeOK, Working, [QaNext]_qa
  PROVE  \/ heard' = heard
         \/ step = "notify" /\ current' = 0 /\ Tell(rows[current])
<1>1. CASE Notify
  BY <1>1 DEF Notify, At
<1>2. CASE JobTimeout
  BY <1>2 DEF JobTimeout
<1>3. ASSUME NEW job \in Requests, Enqueue(job) PROVE heard' = heard
  BY <1>3 DEF Enqueue, said
<1>4. CASE \/ Recover \/ Claim \/ LoopDies \/ Raise \/ FanOut \/ Review \/ Scan \/ Comment \/ SettleReview
           \/ QaCrash \/ UNCHANGED qa
  BY <1>4 DEF Recover, Claim, LoopDies, Raise, FanOut, Review, Scan, Comment, SettleReview, Settle, QaCrash,
              said, qa
<1> QED BY <1>1, <1>2, <1>3, <1>4 DEF QaNext, QaSystem, QaEnvironment

LEMMA WorkingStep == QaTypeOK /\ Working /\ Lines /\ [QaNext]_qa => Working'
<1> SUFFICES ASSUME QaTypeOK, Working, Lines, [QaNext]_qa PROVE Working'
  OBVIOUS
<1> DEFINE Hands == /\ current = 0 <=> step \in {"none", "dead"}
                    /\ ~up => current = 0
                    /\ current # 0 => IF step = "notify" THEN rows[current] \in Settled
                                   ELSE rows[current] = "running"
                    /\ current # 0 => cut = "no"
<1>0. Hands /\ current \in Ids \cup {0} /\ Ids \subseteq Jobs /\ 0 \notin Jobs /\ Ids = 1 .. Len(jobs)
  BY Numbers DEF Working, QaTypeOK
<1>1. Hands'
  <2> USE <1>0
  <2>1. ASSUME NEW job \in Requests, Enqueue(job) PROVE Hands'
    <3>1. rows' = RowsWith(1) /\ UNCHANGED worker
      BY <2>1 DEF Enqueue, AddJob
    <3>2. current # 0 => rows'[current] = rows[current]
      BY <3>1 DEF RowsWith, QaTypeOK, Ids
    <3>3. cut = "no" => cut' = "no"
      BY <2>1 DEF Enqueue
    <3> QED BY <3>1, <3>2, <3>3 DEF worker
  <2>2. CASE Recover
    BY <2>2 DEF Recover
  <2>3. CASE Claim
    <3>1. Head(waiting) \in Ids
      <4>1. waiting \in Seq(Ids \cup {0}) /\ waiting # <<>> /\ Head(waiting) # 0
        BY <2>3 DEF Claim, TakeLine, MayClaim, Readable, QaTypeOK
      <4> QED BY <4>1
    <3>2. jobs[Head(waiting)] \in JobType
      BY <3>1 DEF QaTypeOK, Ids
    <3>3. jobs[Head(waiting)].type \in {"branch", "review", "repo"}
      BY <3>2 DEF JobType
    <3>4. current' = Head(waiting) /\ cut' = "no" /\ up' = up /\ up /\ rows'[Head(waiting)] = "running"
      BY <2>3, <3>1 DEF Claim, TakeLine, MayClaim, Update, QaTypeOK
    <3>5. step' \in {"scan", "review", "repo"}
      BY <2>3, <3>3 DEF Claim
    <3> QED BY <3>1, <3>4, <3>5
  <2>4. CASE Raise
    BY <2>4 DEF Raise, Settle, Update, Settled, QaTypeOK
  <2>5. CASE FanOut
    <3>1. current' = current /\ current # 0 /\ step' = "notify" /\ up' = up /\ rows'[current] = "completed"
            /\ cut' = cut
      BY <2>5 DEF FanOut, At, RowsWith
    <3> QED BY <3>1 DEF Settled
  <2>6. CASE Review
    BY <2>6 DEF Review, At, store
  <2>7. CASE Scan
    BY <2>7 DEF Scan, At, Settle, Update, Settled, QaTypeOK
  <2>8. CASE Comment
    BY <2>8 DEF Comment, At, store
  <2>9. CASE SettleReview
    BY <2>9 DEF SettleReview, At, Settle, Update, Settled, QaTypeOK
  <2>10. CASE Notify \/ JobTimeout \/ QaCrash
    BY <2>10 DEF Notify, JobTimeout, QaCrash
  <2>11. CASE LoopDies
    BY <2>11 DEF LoopDies
  <2>12. CASE UNCHANGED qa
    BY <2>12 DEF qa, store, worker
  <2> QED BY <2>1, <2>2, <2>3, <2>4, <2>5, <2>6, <2>7, <2>8, <2>9, <2>10, <2>11, <2>12
             DEF QaNext, QaSystem, QaEnvironment
<1>2. ASSUME NEW j \in Jobs, j \notin Ids' PROVE rows'[j] = "none" /\ heard'[j] = <<>>
  <2>1. j \notin Ids /\ rows[j] = "none" /\ heard[j] = <<>> /\ j # current
    BY <1>0, <1>2, JobsKept DEF Working
  <2>2. rows'[j] = rows[j]
    BY <1>2, <2>1, RowSteps DEF RowChange, Waits, Settled
  <2>3. heard'[j] = heard[j]
    BY <2>1, ToldSteps DEF Tell, QaTypeOK
  <2> QED BY <2>1, <2>2, <2>3
<1> QED BY <1>1, <1>2 DEF Working

-----------------------------------------------------------------------------
(* The queue and the rows.                                                  *)

(* A job that waits, waits, unless the worker takes it in hand.             *)
LEMMA StillWaiting ==
  ASSUME QaTypeOK, Working, Lines, [QaNext]_qa, NEW i \in DOMAIN waiting, waiting[i] # 0,
         waiting[i] # current' \/ current' = current
  PROVE  rows'[waiting[i]] \in Waits
<1>1. waiting[i] \in Ids /\ waiting[i] \in Jobs /\ rows[waiting[i]] \in Waits
  BY Numbers DEF Lines
<1>2. waiting[i] # current
  BY <1>1, Numbers DEF Working, Settled, Waits
<1>3. RowChange(waiting[i])
  BY <1>1, RowSteps
<1> QED BY <1>1, <1>2, <1>3 DEF Settled, Waits, RowChange

(* Each line of a queue stands for a job that waits, and for no other's.    *)
Sound(q, r) ==
  /\ \A i \in DOMAIN q : q[i] # 0 => r[q[i]] \in Waits
  /\ \A i, k \in DOMAIN q : q[i] = q[k] => i = k \/ q[i] = 0

LEMMA StillSound ==
  ASSUME NEW r, NEW q \in Seq(Nat), NEW p, Sound(q, p), Spoiled(r, q)
  PROVE  Sound(r, p)
BY SpoiledLines DEF Sound

LEMMA SoundJoined ==
  ASSUME NEW p \in Seq(Nat), NEW q \in Seq(Nat), NEW r, Sound(p, r), Sound(q, r),
         \A i \in DOMAIN p, k \in DOMAIN q : p[i] # q[k] \/ p[i] = 0
  PROVE  Sound(p \o q, r)
<1> DEFINE both == p \o q
<1>1. Len(p) \in Nat /\ both \in Seq(Nat) /\ DOMAIN both \subseteq Nat
  OBVIOUS
<1>2. \A i \in DOMAIN both : IF i <= Len(p) THEN i \in DOMAIN p /\ both[i] = p[i]
                             ELSE i - Len(p) \in DOMAIN q /\ both[i] = q[i - Len(p)]
  BY Joined
<1> HIDE DEF both
<1>3. \A i \in DOMAIN both : both[i] # 0 => r[both[i]] \in Waits
  BY <1>2 DEF Sound
<1>4. ASSUME NEW i \in DOMAIN both, NEW k \in DOMAIN both, both[i] = both[k], both[i] # 0, i # k
      PROVE  FALSE
  <2>1. i \in Nat /\ k \in Nat
    BY <1>1, <1>4
  <2>2. CASE i <= Len(p) /\ k <= Len(p)
    BY <1>2, <1>4, <2>2 DEF Sound
  <2>3. CASE i <= Len(p) /\ ~(k <= Len(p))
    BY <1>2, <1>4, <2>3
  <2>4. CASE ~(i <= Len(p)) /\ k <= Len(p)
    BY <1>2, <1>4, <2>4
  <2>5. CASE ~(i <= Len(p)) /\ ~(k <= Len(p))
    <3>1. i - Len(p) = k - Len(p)
      BY <1>2, <1>4, <2>5 DEF Sound
    <3> QED BY <1>1, <1>4, <2>1, <3>1
  <2> QED BY <2>2, <2>3, <2>4, <2>5
<1> QED BY <1>3, <1>4 DEF Sound, both

LEMMA NoneJoined ==
  ASSUME NEW p \in Seq(Nat), NEW q \in Seq(Nat),
         \A i \in DOMAIN p : p[i] # 0, \A i \in DOMAIN q : q[i] # 0
  PROVE  \A i \in DOMAIN (p \o q) : (p \o q)[i] # 0
<1>1. \A i \in DOMAIN (p \o q) : IF i <= Len(p) THEN i \in DOMAIN p /\ (p \o q)[i] = p[i]
                                 ELSE i - Len(p) \in DOMAIN q /\ (p \o q)[i] = q[i - Len(p)]
  BY Joined
<1> QED BY <1>1

LEMMA LinesStep == QaTypeOK /\ Working /\ Lines /\ [QaNext]_qa => Lines'
<1> SUFFICES ASSUME QaTypeOK, Working, Lines, [QaNext]_qa PROVE Lines'
  OBVIOUS
<1>0. /\ waiting \in Seq(Nat) /\ Sound(waiting, rows)
      /\ \A i \in DOMAIN waiting : waiting[i] \in Ids \cup {0}
  BY Numbers DEF Lines, Sound
<1>1. PICK q \in Seq(Nat) :
        /\ Spoiled(waiting', q)
        /\ Taken(q) \/ \E new \in Seq(Nat) : NewLines(new) /\ (Ahead(new, q) \/ AtEnd(new, q))
  BY QueueSteps DEF LinesChange
<1>2. Sound(q, rows')
  <2>1. CASE Taken(q)
    <3>1. \A i \in DOMAIN q : i \in Nat /\ i + 1 \in DOMAIN waiting /\ i + 1 # 1 /\ q[i] = waiting[i + 1]
      BY <1>0, <2>1 DEF Taken
    <3>2. 1 \in DOMAIN waiting /\ Head(waiting) = waiting[1]
      BY <1>0, <2>1 DEF Taken
    <3>3. ASSUME NEW i \in DOMAIN q, q[i] # 0 PROVE rows'[q[i]] \in Waits
      <4>1. i + 1 \in DOMAIN waiting /\ i + 1 # 1 /\ q[i] = waiting[i + 1]
        BY <3>1, <3>3
      <4>2. waiting[i + 1] # Head(waiting)
        BY <1>0, <3>2, <3>3, <4>1 DEF Sound
      <4>3. waiting[i + 1] # current'
        BY <2>1, <3>3, <4>1, <4>2 DEF Taken
      <4> QED BY <3>3, <4>1, <4>3, StillWaiting
    <3>4. \A i, k \in DOMAIN q : q[i] = q[k] => i = k \/ q[i] = 0
      BY <1>0, <3>1 DEF Sound
    <3> QED BY <3>3, <3>4 DEF Sound
  <2>2. ASSUME NEW new \in Seq(Nat), NewLines(new), Ahead(new, q) \/ AtEnd(new, q)
        PROVE  Sound(q, rows')
    <3>1. \A i \in DOMAIN waiting : waiting[i] # 0 => rows'[waiting[i]] \in Waits
      <4> SUFFICES ASSUME NEW i \in DOMAIN waiting, waiting[i] # 0 PROVE rows'[waiting[i]] \in Waits
        OBVIOUS
      <4> QED BY <2>2, StillWaiting DEF NewLines
    <3>2. \A i \in DOMAIN new, k \in DOMAIN waiting : new[i] # waiting[k] \/ new[i] = 0
      BY <1>0, <2>2 DEF NewLines, Sound
    <3>3. Sound(new, rows') /\ Sound(waiting, rows')
      BY <1>0, <2>2, <3>1 DEF NewLines, IsInjective, Sound
    <3>4. CASE q = new \o waiting
      BY <1>0, <2>2, <3>2, <3>3, <3>4, SoundJoined
    <3>5. CASE q = waiting \o new
      <4>1. \A i \in DOMAIN waiting, k \in DOMAIN new : waiting[i] # new[k] \/ waiting[i] = 0
        BY <3>2
      <4> QED BY <1>0, <2>2, <3>3, <3>5, <4>1, SoundJoined
    <3> QED BY <2>2, <3>4, <3>5 DEF Ahead, AtEnd
  <2> QED BY <1>1, <2>1, <2>2
<1>3. Sound(waiting', rows')
  BY <1>1, <1>2, StillSound
<1> QED BY <1>3 DEF Lines, Sound

(* Without a crash no file is cut and no row is lost.                       *)
LEMMA WholeStep == QaTypeOK /\ Working /\ Lines /\ Whole /\ [QaNext]_qa => Whole'
<1> SUFFICES ASSUME QaTypeOK, Working, Lines, Whole, [QaNext]_qa, qaCrashes' = 0
             PROVE  /\ cut' = "no" /\ \A i \in DOMAIN waiting' : waiting'[i] # 0
                    /\ \A j \in Jobs : rows'[j] \notin {"unlisted", "forgotten"}
  BY DEF Whole
<1>0. /\ waiting \in Seq(Nat) /\ qaCrashes \in Nat /\ Len(jobs) \in Nat /\ 0 \notin Ids
  BY Numbers, QaConstants DEF QaTypeOK
<1>1. ~QaCrash
  BY <1>0, CrashCounts
<1>2. qaCrashes = 0
  BY <1>0, <1>1 DEF QaNext, QaSystem, QaEnvironment, Recover, Claim, LoopDies, Raise, FanOut, Review, Scan,
     Comment, SettleReview, Notify, JobTimeout, Enqueue, qa
<1>3. /\ cut = "no" /\ \A i \in DOMAIN waiting : waiting[i] # 0
      /\ \A j \in Jobs : rows[j] \notin {"unlisted", "forgotten"}
  BY <1>2 DEF Whole
<1>4. \A j \in Jobs : rows'[j] \notin {"unlisted", "forgotten"}
  BY <1>1, <1>3, RowSteps DEF RowChange, Settled
<1>5. ASSUME NEW job \in Requests, Enqueue(job)
      PROVE  cut' = "no" /\ \A i \in DOMAIN waiting' : waiting'[i] # 0
  <2> DEFINE j == Len(jobs) + 1
  <2>1. j \in Nat /\ j # 0
    BY <1>0
  <2>2. cut' = "no" /\ (waiting' = <<j>> \o waiting \/ waiting' = Append(waiting, j))
    BY <1>3, <1>5 DEF Enqueue, LineFor, Appended
  <2> HIDE DEF j
  <2>3. \A i \in DOMAIN (<<j>> \o waiting) : (<<j>> \o waiting)[i] # 0
    <3>1. <<j>> \in Seq(Nat) /\ \A i \in DOMAIN <<j>> : <<j>>[i] # 0
      BY <2>1
    <3> QED BY <1>0, <1>3, <3>1, NoneJoined
  <2>4. \A i \in DOMAIN Append(waiting, j) : Append(waiting, j)[i] # 0
    <3>1. \A i \in DOMAIN Append(waiting, j) :
            Append(waiting, j)[i] = IF i <= Len(waiting) THEN waiting[i] ELSE j
      BY <1>0, <2>1
    <3>2. \A i \in DOMAIN Append(waiting, j) : i <= Len(waiting) => i \in DOMAIN waiting
      BY <1>0, <2>1
    <3> QED BY <1>3, <2>1, <3>1, <3>2
  <2> QED BY <1>4, <2>2, <2>3, <2>4
<1>6. CASE Recover
  <2>1. PICK lines \in SetToSeqs(Orphans) : waiting' = lines \o waiting
    BY <1>3, <1>6 DEF Recover
  <2>2. lines \in Seq(Orphans) /\ 0 \notin Orphans /\ Orphans \subseteq Nat
    BY OrphanLines, Numbers DEF Orphans
  <2>3. lines \in Seq(Nat) /\ \A i \in DOMAIN lines : lines[i] # 0
    <3>1. \A i \in DOMAIN lines : lines[i] \in Orphans
      BY <2>2
    <3> QED BY <2>2, <3>1, SeqMonotone
  <2>4. \A i \in DOMAIN (lines \o waiting) : (lines \o waiting)[i] # 0
    BY <1>0, <1>3, <2>3, NoneJoined
  <2>5. cut' = "no"
    BY <1>3, <1>6 DEF Recover
  <2> QED BY <1>4, <2>1, <2>4, <2>5
<1>7. CASE Claim
  <2>1. waiting # <<>> /\ waiting' = Tail(waiting) /\ cut' = "no"
    BY <1>7 DEF Claim, TakeLine, MayClaim, Readable
  <2>2. \A i \in DOMAIN Tail(waiting) : i + 1 \in DOMAIN waiting /\ Tail(waiting)[i] = waiting[i + 1]
    BY <1>0, <2>1
  <2> QED BY <1>3, <1>4, <2>1, <2>2
<1>8. CASE FanOut
  <2>1. PICK n \in {0, Branches} : waiting' = waiting \o ChildLines(n) /\ cut' = cut
    BY <1>8 DEF FanOut, Children
  <2>2. n \in Nat
    BY QaConstants
  <2>3. ChildLines(n) \in Seq(Nat) /\ \A i \in DOMAIN ChildLines(n) : ChildLines(n)[i] # 0
    BY <1>0, <2>2 DEF ChildLines
  <2>4. \A i \in DOMAIN (waiting \o ChildLines(n)) : (waiting \o ChildLines(n))[i] # 0
    BY <1>0, <1>3, <2>3, NoneJoined
  <2> QED BY <1>3, <1>4, <2>1, <2>4
<1>9. CASE \/ LoopDies \/ Raise \/ Review \/ Scan \/ Comment \/ SettleReview \/ Notify \/ JobTimeout
           \/ UNCHANGED qa
  <2>1. waiting' = waiting /\ cut' = cut
    BY <1>9 DEF LoopDies, Raise, Review, Scan, Comment, SettleReview, Notify, JobTimeout, store, qa
  <2> QED BY <1>3, <1>4, <2>1
<1> QED
  BY <1>1, <1>4, <1>5, <1>6, <1>7, <1>8, <1>9 DEF QaNext, QaSystem, QaEnvironment

LEMMA InHandStep ==
  QaTypeOK /\ Working /\ Working' /\ Lines /\ InHand /\ [QaNext]_qa => InHand'
<1> SUFFICES ASSUME QaTypeOK, Working, Working', Lines, InHand, [QaNext]_qa,
                    up', NEW j \in Ids', rows'[j] = "running"
             PROVE  j = current'
  BY DEF InHand
<1>0. j \in Jobs /\ Ids \subseteq Jobs /\ 0 \notin Jobs
  <2>1. QaTypeOK'
    BY TypeStep
  <2>2. Ids' = 1 .. Len(jobs') /\ Len(jobs') \in Nat /\ Len(jobs') <= MaxJobs /\ MaxJobs \in Nat
    BY <2>1, QaConstants DEF Ids, QaTypeOK
  <2> QED BY <2>2, Numbers DEF Jobs
<1>1. CASE j = current'
  BY <1>1
<1>2. CASE rows'[j] = rows[j]
  <2>1. j \in Ids /\ rows[j] = "running"
    BY <1>0, <1>2 DEF Working
  <2>2. CASE ~up
    <3>1. rows' = RowsReclaimed
      BY <2>2 DEF QaNext, QaSystem, QaEnvironment, Recover, Claim, TakeLine, MayClaim, LoopDies, Raise, FanOut,
         Review, Scan, Comment, SettleReview, Notify, JobTimeout, Enqueue, QaCrash, At, Working, worker, qa
    <3> QED BY <1>0, <2>1, <3>1 DEF RowsReclaimed, Orphans
  <2>3. CASE up
    <3>1. j = current
      BY <2>1, <2>3 DEF InHand
    <3>2. current # 0 /\ step \notin {"notify", "none", "dead"}
      BY <1>0, <2>1, <3>1 DEF Working, Settled
    <3>3. ~Notify /\ ~JobTimeout /\ ~QaCrash /\ ~Claim /\ ~LoopDies
      <4>1. ~JobTimeout
        BY <1>0, <3>1 DEF JobTimeout, TimedOut, Update, QaTypeOK
      <4> QED BY <3>2, <4>1 DEF Notify, At, QaCrash, Claim, TakeLine, MayClaim, LoopDies
    <3>4. current' = current
      BY <3>3 DEF QaNext, QaSystem, QaEnvironment, Recover, Raise, FanOut, Review, Scan,
         Comment, SettleReview, Enqueue, worker, qa
    <3> QED BY <3>1, <3>4
  <2> QED BY <2>2, <2>3
<1> QED BY <1>0, <1>1, <1>2, RowSteps DEF RowChange, Settled, Waits

(* Reviews that somebody waits for.                                         *)
InOrder(q) ==
  \A i, k \in DOMAIN q :
    i < k /\ q[i] # 0 /\ q[k] # 0 /\ First(jobs'[q[k]]) => First(jobs'[q[i]]) \/ q[i] \in reclaimed'

LEMMA PriorityStep == QaTypeOK /\ Working /\ PriorityFirst /\ [QaNext]_qa => PriorityFirst'
<1> SUFFICES ASSUME QaTypeOK, Working, PriorityFirst, [QaNext]_qa PROVE InOrder(waiting')
  BY DEF PriorityFirst, Priority, InOrder
<1>0. waiting \in Seq(Nat) /\ \A i \in DOMAIN waiting : waiting[i] \in Ids \cup {0}
  BY Numbers
<1>1. \A i \in DOMAIN waiting : waiting[i] # 0 => jobs'[waiting[i]] = jobs[waiting[i]]
  BY <1>0, JobsKept
<1>2. reclaimed \subseteq reclaimed'
  <2>1. QaCrash => reclaimed \subseteq reclaimed'
    BY CrashSteps
  <2> QED BY <2>1 DEF QaNext, QaSystem, QaEnvironment, Recover, Claim, LoopDies, Raise, FanOut, Review, Scan,
         Comment, SettleReview, Notify, JobTimeout, Enqueue, store, qa
<1>3. InOrder(waiting)
  BY <1>1, <1>2 DEF PriorityFirst, Priority, InOrder
<1>4. PICK q \in Seq(Nat) :
        /\ Spoiled(waiting', q)
        /\ Taken(q) \/ \E new \in Seq(Nat) : NewLines(new) /\ (Ahead(new, q) \/ AtEnd(new, q))
  BY QueueSteps DEF LinesChange
<1>5. InOrder(q)
  <2>1. CASE Taken(q)
    <3>1. \A i \in DOMAIN q : i \in Nat /\ i + 1 \in DOMAIN waiting /\ q[i] = waiting[i + 1]
      BY <1>0, <2>1 DEF Taken
    <3>2. ASSUME NEW i \in DOMAIN q, NEW k \in DOMAIN q, i < k, q[i] # 0, q[k] # 0, First(jobs'[q[k]])
          PROVE  First(jobs'[q[i]]) \/ q[i] \in reclaimed'
      <4>1. /\ i + 1 \in DOMAIN waiting /\ q[i] = waiting[i + 1] /\ i \in Nat
            /\ k + 1 \in DOMAIN waiting /\ q[k] = waiting[k + 1] /\ k \in Nat
        BY <3>1
      <4>2. i + 1 < k + 1
        BY <3>2, <4>1
      <4> QED BY <1>3, <3>2, <4>1, <4>2 DEF InOrder
    <3> QED BY <3>2 DEF InOrder
  <2>2. ASSUME NEW new \in Seq(Nat), Ahead(new, q) \/ AtEnd(new, q), NEW i \in DOMAIN q, NEW k \in DOMAIN q,
               i < k, q[i] # 0, q[k] # 0, First(jobs'[q[k]])
        PROVE  First(jobs'[q[i]]) \/ q[i] \in reclaimed'
    <3>1. CASE Ahead(new, q)
      <4>1. q = new \o waiting /\ Len(new) \in Nat /\ i \in Nat /\ k \in Nat
        BY <1>0, <2>2, <3>1 DEF Ahead
      <4>2. CASE i <= Len(new)
        <5>1. i \in DOMAIN new /\ q[i] = new[i]
          BY <1>0, <2>2, <4>1, <4>2, Joined
        <5> QED BY <3>1, <5>1 DEF Ahead
      <4>3. CASE i > Len(new)
        <5>1. /\ i - Len(new) \in DOMAIN waiting /\ q[i] = waiting[i - Len(new)]
              /\ k - Len(new) \in DOMAIN waiting /\ q[k] = waiting[k - Len(new)]
              /\ i - Len(new) < k - Len(new)
          BY <1>0, <2>2, <4>1, <4>3, Joined
        <5> QED BY <1>3, <2>2, <5>1 DEF InOrder
      <4> QED BY <4>1, <4>2, <4>3
    <3>2. CASE AtEnd(new, q)
      <4>1. q = waiting \o new /\ Len(waiting) \in Nat /\ i \in Nat /\ k \in Nat
        BY <1>0, <2>2, <3>2 DEF AtEnd
      <4>2. k <= Len(waiting)
        <5> SUFFICES ASSUME k > Len(waiting) PROVE FALSE
          BY <4>1
        <5>1. k - Len(waiting) \in DOMAIN new /\ q[k] = new[k - Len(waiting)]
          BY <1>0, <2>2, <4>1, Joined
        <5> QED BY <2>2, <3>2, <5>1 DEF AtEnd
      <4>3. /\ i \in DOMAIN waiting /\ q[i] = waiting[i]
            /\ k \in DOMAIN waiting /\ q[k] = waiting[k]
        BY <1>0, <2>2, <4>1, <4>2, Joined
      <4> QED BY <1>3, <2>2, <4>3 DEF InOrder
    <3> QED BY <2>2, <3>1, <3>2
  <2> QED BY <1>4, <2>1, <2>2 DEF InOrder
<1>6. \A i \in DOMAIN waiting' : i \in DOMAIN q /\ waiting'[i] \in {q[i], 0}
  BY <1>4, SpoiledLines
<1> QED BY <1>5, <1>6 DEF InOrder

-----------------------------------------------------------------------------
(* What is said, and outcomes.                                              *)

(* What has ended is not taken up again, and only a crash loses its row; so *)
(* is what was in hand when its row was lost.                               *)
LEMMA OutcomeStep ==
  ASSUME QaTypeOK, Working, Lines, [QaNext]_qa,
         NEW j \in Jobs, rows[j] \in Settled \cup {"forgotten"}
  PROVE  /\ rows'[j] \in Settled \/ rows'[j] = rows[j] \/ (QaCrash /\ rows'[j] = "forgotten")
         /\ rows[j] = "forgotten" => rows'[j] = "forgotten"
         /\ j = current' => j = current
<1>0. current \in Ids \cup {0} /\ Ids \subseteq Jobs /\ 0 \notin Jobs
  BY Numbers DEF QaTypeOK
<1>1. j \in Ids
  BY DEF Working, Settled
<1>2. rows[j] \notin Waits /\ rows[j] # "running"
  BY DEF Settled, Waits
<1>3. rows[j] = "forgotten" => j # current
  BY <1>0 DEF Working, Settled
<1>4. RowChange(j)
  BY RowSteps
<1>5. ASSUME j = current', current' # current PROVE FALSE
  <2>1. current' # 0
    BY <1>0, <1>5
  <2>2. Claim
    BY <1>5, <2>1 DEF QaNext, QaSystem, QaEnvironment, Recover, LoopDies, Raise, FanOut, Review, Scan, Comment,
       SettleReview, Notify, JobTimeout, Enqueue, QaCrash, worker, qa
  <2>3. waiting # <<>> /\ Head(waiting) # 0 /\ current' = Head(waiting) /\ 1 \in DOMAIN waiting
          /\ Head(waiting) = waiting[1]
    BY <2>2, Numbers DEF Claim, TakeLine, MayClaim, Readable
  <2> QED BY <1>2, <1>5, <2>3 DEF Lines
<1> QED BY <1>1, <1>2, <1>3, <1>4, <1>5 DEF RowChange, Settled

LEMMA ToldStep ==
  QaTypeOK /\ Working /\ Lines /\ Told /\ [QaNext]_qa => Told'
<1> SUFFICES ASSUME QaTypeOK, Working, Lines, Told, [QaNext]_qa,
                    NEW j \in Jobs, heard'[j] # <<>>
             PROVE  Len(heard'[j]) = 1 /\ rows'[j] \in Settled \cup {"forgotten"} /\ j # current'
  BY DEF Told
<1>1. CASE heard'[j] = heard[j]
  BY <1>1, OutcomeStep DEF Told
<1>2. CASE heard'[j] # heard[j]
  <2>1. step = "notify" /\ current' = 0 /\ Tell(rows[current])
    BY <1>2, ToldSteps
  <2>2. j = current /\ heard'[j] = Append(heard[j], rows[current])
    BY <1>2, <2>1 DEF Tell, QaTypeOK
  <2>3. heard[j] = <<>>
    BY <2>2 DEF Told
  <2>4. rows[j] \in Settled /\ j # 0
    BY <2>1, <2>2 DEF Working, Jobs
  <2>5. Len(heard'[j]) = 1
    BY <2>2, <2>3
  <2> QED BY <2>1, <2>4, <2>5, OutcomeStep
<1> QED BY <1>1, <1>2

(* A comment is posted by the worker at its await, and counts from then on. *)
LEMMA CommentSteps ==
  ASSUME QaTypeOK, Working, [QaNext]_qa, NEW j \in Jobs
  PROVE  /\ qaCrashes' = qaCrashes \/ qaCrashes' = qaCrashes + 1
         /\ \/ comments'[j] = comments[j]
            \/ /\ j = current /\ step = "comment" /\ qaCrashes' = qaCrashes
               /\ comments'[j] \in {comments[j], comments[j] + 1}
               /\ (current' = j /\ step' = "settle") \/ rows'[j] \in Settled
<1>1. CASE Comment
  BY <1>1 DEF Comment, At, store, QaTypeOK
<1>2. CASE JobTimeout
  BY <1>2 DEF JobTimeout, TimedOut, Update, Settled, QaTypeOK
<1>3. ASSUME NEW job \in Requests, Enqueue(job) PROVE comments' = comments /\ qaCrashes' = qaCrashes
  BY <1>3 DEF Enqueue, said
<1>4. CASE \/ Recover \/ Claim \/ LoopDies \/ Raise \/ FanOut \/ Review \/ Scan \/ SettleReview \/ Notify
           \/ UNCHANGED qa
  BY <1>4 DEF Recover, Claim, LoopDies, Raise, FanOut, Review, Scan, SettleReview, Notify, said, qa
<1>5. CASE QaCrash
  BY <1>5 DEF QaCrash, said
<1> QED BY <1>1, <1>2, <1>3, <1>4, <1>5 DEF QaNext, QaSystem, QaEnvironment

LEMMA PostedStep ==
  QaTypeOK /\ Working /\ Lines /\ Posted /\ [QaNext]_qa => Posted'
<1> SUFFICES ASSUME QaTypeOK, Working, Lines, Posted, [QaNext]_qa,
                    NEW j \in Jobs
             PROVE  /\ comments'[j] <= 1 + qaCrashes'
                    /\ \/ comments'[j] <= qaCrashes' \/ rows'[j] \in Settled
                       \/ j = current' /\ step' = "settle"
  BY DEF Posted
<1>0. /\ comments[j] \in Nat /\ qaCrashes \in Nat /\ comments[j] <= 1 + qaCrashes
      /\ comments[j] <= qaCrashes \/ rows[j] \in Settled \/ (j = current /\ step = "settle")
  BY QaConstants DEF Posted, QaTypeOK
<1>1. CASE qaCrashes' = qaCrashes + 1
  <2>1. comments'[j] = comments[j]
    BY <1>0, <1>1, CommentSteps
  <2> QED BY <1>0, <1>1, <2>1
<1>2. CASE qaCrashes' = qaCrashes
  <2>0. ~QaCrash
    BY <1>0, <1>2, CrashCounts
  <2>1. CASE comments'[j] = comments[j]
    <3>1. CASE comments[j] <= qaCrashes
      BY <1>0, <1>2, <2>1, <3>1
    <3>2. CASE rows[j] \in Settled
      BY <1>0, <1>2, <2>0, <2>1, <3>2, OutcomeStep
    <3>3. CASE j = current /\ step = "settle"
      <4>1. j # 0
        BY DEF Jobs
      <4>2. CASE SettleReview \/ JobTimeout
        <5>1. rows'[j] \in Settled
          BY <3>3, <4>2 DEF SettleReview, JobTimeout, TimedOut, Settle, Update, Settled, QaTypeOK
        <5> QED BY <1>0, <1>2, <2>1, <5>1
      <4>3. CASE ~SettleReview /\ ~JobTimeout
        <5>1. current' = current /\ step' = step
          BY <2>0, <3>3, <4>1, <4>3 DEF QaNext, QaSystem, QaEnvironment, Recover, Claim, TakeLine, MayClaim,
             LoopDies, Raise, FanOut, Review, Scan, Comment, Notify, Enqueue, At, Working, worker, qa
        <5> QED BY <1>0, <1>2, <2>1, <3>3, <5>1
      <4> QED BY <4>2, <4>3
    <3> QED BY <1>0, <3>1, <3>2, <3>3
  <2>2. CASE comments'[j] # comments[j]
    <3>1. /\ j = current /\ step = "comment" /\ comments'[j] = comments[j] + 1
          /\ (current' = j /\ step' = "settle") \/ rows'[j] \in Settled
      BY <2>2, CommentSteps
    <3>2. rows[j] \notin Settled
      BY <3>1 DEF Working, Settled, Jobs
    <3> QED BY <1>0, <1>2, <3>1, <3>2
  <2> QED BY <2>1, <2>2
<1> QED BY <1>1, <1>2, CommentSteps

-----------------------------------------------------------------------------
(* The theorems.                                                            *)

LEMMA InitInv == QaInit => IInv
<1> SUFFICES ASSUME QaInit PROVE IInv
  OBVIOUS
<1>1. jobs = <<>> /\ waiting = <<>> /\ Ids = {} /\ DOMAIN waiting = {}
  BY DEF QaInit, Ids
<1>2. QaTypeOK
  <2>1. <<>> \in Seq(JobType) /\ Len(<<>>) = 0 /\ <<>> \in Seq(Ids \cup {0}) /\ <<>> \in Seq(Settled)
    OBVIOUS
  <2> QED BY <1>1, <2>1, QaConstants DEF QaInit, QaTypeOK, NoRow
<1>3. Working /\ Told
  BY DEF QaInit, Working, Told
<1>4. Lines /\ Whole /\ InHand /\ PriorityFirst
  BY <1>1 DEF QaInit, Lines, Whole, InHand, PriorityFirst
<1>5. Posted
  BY DEF QaInit, Posted
<1> QED BY <1>2, <1>3, <1>4, <1>5 DEF IInv

(* The inductive invariant: a job's row, its line, the worker's hand and    *)
(* what was said of it.                                                     *)
THEOREM QaInvariance == QaSpec => []IInv
<1>1. QaInit => IInv
  BY InitInv
<1>2. IInv /\ [QaNext]_qa => IInv'
  <2>1. IInv /\ [QaNext]_qa => Working'
    BY WorkingStep DEF IInv
  <2> QED BY <2>1, TypeStep, LinesStep, WholeStep, InHandStep, PriorityStep, ToldStep, PostedStep DEF IInv
<1> QED BY <1>1, <1>2, PTL DEF QaSpec

(* The store, the worker and what was said have their types.                *)
THEOREM QaTypeCorrect == QaSpec => []QaTypeOK
<1>1. IInv => QaTypeOK
  BY DEF IInv
<1> QED BY <1>1, QaInvariance, PTL

(* A line stands for a job that waits, a job has one line at most, and no   *)
(* row is left running (claim_next_job, recover_stale_running_jobs),        *)
(* wherever a crash cut the two files; until a crash every line is a job's  *)
(* and its row says queued.                                                 *)
THEOREM QueueRowsHold == QaSpec => []QueueRows
<1>1. IInv => QueueRows
  <2> SUFFICES ASSUME IInv PROVE QueueRows
    OBVIOUS
  <2>1. QaTypeOK /\ Working /\ Lines /\ Whole /\ InHand
    BY DEF IInv
  <2>2. qaCrashes \in Nat /\ Ids \subseteq Jobs /\ \A i \in DOMAIN waiting : waiting[i] \in Ids \cup {0}
    BY <2>1, Numbers, QaConstants DEF QaTypeOK
  <2>3. ASSUME NEW i \in DOMAIN waiting
        PROVE  IF waiting[i] = 0 THEN qaCrashes > 0
               ELSE rows[waiting[i]] = "queued" \/ (rows[waiting[i]] = "unlisted" /\ qaCrashes > 0)
    <3>1. waiting[i] # 0 => waiting[i] \in Jobs /\ rows[waiting[i]] \in Waits
      BY <2>1, <2>2, <2>3 DEF Lines
    <3>2. qaCrashes = 0 => waiting[i] # 0 /\ rows[waiting[i]] # "unlisted"
      BY <2>1, <2>3, <3>1 DEF Whole
    <3>3. qaCrashes = 0 \/ qaCrashes > 0
      BY <2>2
    <3> QED BY <3>1, <3>2, <3>3 DEF Waits
  <2>4. current # 0 => rows[current] \in {"running"} \cup Settled
    BY <2>1 DEF Working
  <2>5. \A i, k \in DOMAIN waiting : waiting[i] = waiting[k] => i = k \/ waiting[i] = 0
    BY <2>1 DEF Lines
  <2> QED BY <2>1, <2>3, <2>4, <2>5 DEF QueueRows, InHand
<1> QED BY <1>1, QaInvariance, PTL

(* Reviews asked for by users are before all but what a boot put back       *)
(* (enqueue_scan).                                                          *)
THEOREM PriorityFirstHolds == QaSpec => []PriorityFirst
<1>1. IInv => PriorityFirst
  BY DEF IInv
<1> QED BY <1>1, QaInvariance, PTL

(* A chat is told once, and a pull request gets a comment for each run of   *)
(* its review at most (_maybe_notify, post_review_summary).                 *)
THEOREM SaidOnceHolds == QaSpec => []SaidOnce
<1>1. IInv => SaidOnce
  <2> SUFFICES ASSUME IInv, NEW j \in Ids PROVE Len(heard[j]) <= 1 /\ comments[j] <= 1 + qaCrashes
    BY DEF SaidOnce
  <2>1. j \in Jobs
    BY Numbers DEF IInv
  <2>2. comments[j] <= 1 + qaCrashes
    BY <2>1 DEF IInv, Posted
  <2>3. heard[j] = <<>> \/ Len(heard[j]) = 1
    BY <2>1 DEF IInv, Told
  <2>4. \A n \in Nat : n \in {0, 1} => n <= 1
    OBVIOUS
  <2>5. Len(heard[j]) <= 1
    <3>1. Len(<<>>) = 0
      OBVIOUS
    <3>2. Len(heard[j]) \in Nat /\ Len(heard[j]) \in {0, 1}
      BY <2>3, <3>1
    <3> QED BY <2>4, <3>2, Zenon
  <2> QED BY <2>2, <2>5
<1> QED BY <1>1, QaInvariance, PTL

(* An outcome is final, through crashes, timeouts and recoveries; a crash   *)
(* may lose the record of it, but not run the job again.                    *)
THEOREM QaOutcomeFinalHolds == QaSpec => OutcomeFinal
<1>1. IInv /\ [QaNext]_qa =>
        [\A j \in Ids :
           /\ rows[j] \in Settled =>
                rows'[j] \in Settled \/ (rows'[j] = "forgotten" /\ qaCrashes' > qaCrashes)
           /\ rows[j] = "forgotten" => rows'[j] = "forgotten" /\ current' # j]_qa
  <2> SUFFICES ASSUME IInv, [QaNext]_qa, NEW j \in Ids
               PROVE  /\ rows[j] \in Settled =>
                           rows'[j] \in Settled \/ (rows'[j] = "forgotten" /\ qaCrashes' > qaCrashes)
                      /\ rows[j] = "forgotten" => rows'[j] = "forgotten" /\ current' # j
    OBVIOUS
  <2>0. j \in Jobs /\ j # 0 /\ qaCrashes \in Nat
    BY Numbers, QaConstants DEF IInv, QaTypeOK
  <2>1. ASSUME rows[j] \in Settled
        PROVE  rows'[j] \in Settled \/ (rows'[j] = "forgotten" /\ qaCrashes' > qaCrashes)
    <3>1. rows'[j] \in Settled \/ (QaCrash /\ rows'[j] = "forgotten")
      BY <2>0, <2>1, OutcomeStep DEF IInv
    <3>2. QaCrash => qaCrashes' > qaCrashes
      BY <2>0, CrashCounts
    <3> QED BY <3>1, <3>2
  <2>2. ASSUME rows[j] = "forgotten" PROVE rows'[j] = "forgotten" /\ current' # j
    <3>1. rows'[j] = "forgotten" /\ (j = current' => j = current)
      BY <2>0, <2>2, OutcomeStep DEF IInv
    <3>2. j # current
      BY <2>0, <2>2 DEF IInv, Working, Settled
    <3> QED BY <3>1, <3>2
  <2> QED BY <2>1, <2>2
<1> QED BY <1>1, QaInvariance, PTL DEF QaSpec, OutcomeFinal
=============================================================================
