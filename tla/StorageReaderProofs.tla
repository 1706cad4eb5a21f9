------------------------- MODULE StorageReaderProofs -------------------------
(***************************************************************************)
(* Type correctness of StorageReader; that no slot is recycled while a      *)
(* worker may still write into it; and what a ticket's owner and the arena  *)
(* rely on: the countdown of a batch is exact, a published batch is         *)
(* complete, no sleeper is left without a waker, a source reported ready is *)
(* there, and every slot in use has an owner.  For every number of workers, *)
(* slots, batches and jobs.                                                 *)
(*                                                                          *)
(* Then finish_arrival against the reader (ArrivalTile), for every union    *)
(* and number of waves: the decode thread uses the reader as the reader may *)
(* be used, and hands every expert over once, early ones with all their     *)
(* bytes.                                                                   *)
(***************************************************************************)
EXTENDS ArrivalTile, FiniteSetTheorems, TLAPS

-----------------------------------------------------------------------------
(* The inductive invariant.                                                  *)

\* A worker that holds a clone holds one of a batch, and it claims and runs
\* jobs only while it has quantum left.
WorkerInv ==
  \A w \in Workers :
    /\ worker[w].pc \in Holding => worker[w].batch \in Batches
    /\ worker[w].pc \in Running \cup {"claim"} => worker[w].left >= 1

\* Until a submission publishes its batch, the pool has no clone of it.
FreshInv ==
  \A b \in Batches : ticket[b].pc \in {"acquire", "alloc"} => ~PoolHolds(b)

\* A lease is of a slot that is marked in use ...
LeaseInv ==
  \A b \in Batches : Leasing(b) => batch[b].lease \in Slots /\ inUse[batch[b].lease]

\* ... and no two batches lease the same one.
DistinctInv ==
  \A b, c \in Batches : b # c /\ Leasing(b) /\ Leasing(c) => batch[b].lease # batch[c].lease

TInv == TypeOK /\ WorkerInv
SlotInv == FreshInv /\ LeaseInv /\ DistinctInv
IInv == TInv /\ SlotInv

-----------------------------------------------------------------------------
(* Queues.                                                                   *)

\* Pushing a batch on a queue of batches gives a queue of batches.
LEMMA WithinAppend ==
  ASSUME NEW S, NEW q \in Seq(S), NEW x \in S, NEW b, Within(b, Append(q, x))
  PROVE  Within(b, q) \/ b = x
  BY DEF Within

\* Popping keeps the rest of a queue within what it was in.
LEMMA WithinTail ==
  ASSUME NEW S, NEW q \in Seq(S), q # <<>>, NEW b, Within(b, Tail(q))
  PROVE  Within(b, q)
  BY DEF Within

\* The entry popped is one of those the queue was within.
LEMMA WithinHead ==
  ASSUME NEW S, NEW q \in Seq(S), q # <<>>
  PROVE  Head(q) \in S /\ Within(Head(q), q)
  BY DEF Within

\* Pushing the clones of a submission keeps a queue of batches one.
LEMMA WithinCopies ==
  ASSUME NEW S, NEW q \in Seq(S), NEW x \in S, NEW n \in Nat, NEW b,
         Within(b, q \o [i \in 1 .. n |-> x])
  PROVE  Within(b, q) \/ b = x
<1> DEFINE c == [i \in 1 .. n |-> x]
<1>1. c \in Seq(S) /\ Len(c) = n
  OBVIOUS
<1>2. PICK i \in 1 .. Len(q \o c) : (q \o c)[i] = b
  BY DEF Within
<1>3. CASE i <= Len(q)
  BY <1>1, <1>2, <1>3 DEF Within
<1>4. CASE i > Len(q)
  <2>1. i - Len(q) \in 1 .. n /\ (q \o c)[i] = c[i - Len(q)]
    BY <1>1, <1>2, <1>4
  <2> QED BY <1>2, <2>1
<1> QED BY <1>1, <1>2, <1>3, <1>4

\* The clones Publish pushes are as many entries of the batch's own name.
LEMMA CopiesType ==
  ASSUME TypeOK, NEW b \in Batches
  PROVE  /\ Participating(batch[b].njobs) \in Nat
         /\ Copies(b) \in Seq(Batches)
<1>1. Cardinality(Workers) \in Nat
  BY ReaderAssumption, FS_CardinalityType
<1>2. Participating(batch[b].njobs) \in Nat
  BY <1>1 DEF TypeOK, BatchRecord, Participating
<1> QED BY <1>2 DEF Copies

-----------------------------------------------------------------------------
(* Types.                                                                    *)

\* The records a batch, a worker and a ticket are reset to.
LEMMA RecordTypes ==
  NoBatch \in BatchRecord /\ Parked \in WorkerRecord /\ Absent \in TicketRecord
<1>1. NoBatch \in BatchRecord
  BY DEF NoBatch, NewBatch, BatchRecord, Priorities
<1>2. Parked \in WorkerRecord
  BY ReaderAssumption DEF Parked, WorkerRecord, WorkerPlaces, Holding, Running
<1>3. Absent \in TicketRecord
  BY DEF Absent, TicketRecord, OwnerPlaces, Owning, Goals
<1> QED BY <1>1, <1>2, <1>3

\* A batch, a ticket and a worker one of whose fields is changed are still such.
LEMMA BatchFields ==
  ASSUME NEW r \in BatchRecord
  PROVE  /\ [r EXCEPT !.cancelled = TRUE] \in BatchRecord
         /\ [r EXCEPT !.failed = TRUE] \in BatchRecord
         /\ \A n \in Nat : [r EXCEPT !.next = n] \in BatchRecord
         /\ \A n \in Int : [r EXCEPT !.remaining = n] \in BatchRecord
         /\ \A j \in Nat : [r EXCEPT !.landed = @ \cup {j}] \in BatchRecord
         /\ \A j \in Nat : [r EXCEPT !.noted = @ \cup {j}] \in BatchRecord
<1>1. [r EXCEPT !.cancelled = TRUE] \in BatchRecord /\ [r EXCEPT !.failed = TRUE] \in BatchRecord
  BY DEF BatchRecord
<1>2. ASSUME NEW n \in Nat PROVE [r EXCEPT !.next = n] \in BatchRecord
  BY DEF BatchRecord
<1>3. ASSUME NEW n \in Int PROVE [r EXCEPT !.remaining = n] \in BatchRecord
  BY DEF BatchRecord
<1>4. ASSUME NEW j \in Nat PROVE [r EXCEPT !.landed = @ \cup {j}] \in BatchRecord
  BY DEF BatchRecord
<1>5. ASSUME NEW j \in Nat PROVE [r EXCEPT !.noted = @ \cup {j}] \in BatchRecord
  BY DEF BatchRecord
<1> QED BY <1>1, <1>2, <1>3, <1>4, <1>5

LEMMA TicketFields ==
  ASSUME NEW r \in TicketRecord, NEW p \in OwnerPlaces
  PROVE  /\ [r EXCEPT !.pc = p] \in TicketRecord
         /\ \A n \in Nat : [r EXCEPT !.pc = p, !.seen = n] \in TicketRecord
<1>1. [r EXCEPT !.pc = p] \in TicketRecord
  BY DEF TicketRecord
<1>2. ASSUME NEW n \in Nat PROVE [r EXCEPT !.pc = p, !.seen = n] \in TicketRecord
  BY DEF TicketRecord
<1> QED BY <1>1, <1>2

\* The reader starts in a state of the right types.
LEMMA InitTypes == Init => TInv
<1> SUFFICES ASSUME Init PROVE TInv
  OBVIOUS
<1>1. demandQ \in Seq(Batches) /\ prefetchQ \in Seq(Batches)
  BY DEF Init
<1>2. /\ batch \in [Batches -> BatchRecord]
      /\ worker \in [Workers -> WorkerRecord]
      /\ ticket \in [Batches -> TicketRecord]
  BY RecordTypes DEF Init
<1>3. WorkerInv
  BY DEF Init, WorkerInv, Parked, Holding, Running
<1> QED BY <1>1, <1>2, <1>3 DEF Init, TInv, TypeOK

\* Every step of a ticket's owner and of the submit calls keeps the types.
LEMMA OwnerTypes ==
  ASSUME TInv, NEW b \in Batches, Calls(b) \/ Progress(b)
  PROVE  TInv'
<1>q. demandQ \in Seq(Batches) /\ prefetchQ \in Seq(Batches)
  BY DEF TInv, TypeOK
<1>s. streak \in Nat /\ closed \in BOOLEAN
  BY DEF TInv, TypeOK
<1>i. inUse \in [Slots -> BOOLEAN]
  BY DEF TInv, TypeOK
<1>b. batch \in [Batches -> BatchRecord]
  BY DEF TInv, TypeOK
<1>w. worker \in [Workers -> WorkerRecord]
  BY DEF TInv, TypeOK
<1>t. ticket \in [Batches -> TicketRecord]
  BY DEF TInv, TypeOK
<1>v. WorkerInv
  BY DEF TInv
<1>1. ASSUME NEW p \in Priorities, NEW n \in JobCounts, Submit(b, p, n)
      PROVE  TInv'
  <2>1. ticket' \in [Batches -> TicketRecord]
    BY <1>1, <1>t DEF Submit, Absent, Goals, TicketRecord, OwnerPlaces, Owning
  <2>2. batch' \in [Batches -> BatchRecord]
    BY <1>1, <1>b, ReaderAssumption DEF Submit, NewBatch, BatchRecord
  <2> QED BY <1>1, <1>q, <1>s, <1>i, <1>b, <1>w, <1>t, <1>v, <2>1, <2>2 DEF Submit, poolVars,
       TInv, TypeOK, WorkerInv
<1>2. ASSUME NEW p \in Priorities, NEW n \in JobCounts, TrySubmit(b, p, n)
      PROVE  TInv'
  <2>1. ticket' \in [Batches -> TicketRecord]
    BY <1>2, <1>t DEF TrySubmit, Absent, Goals, TicketRecord, OwnerPlaces, Owning
  <2>2. batch' \in [Batches -> BatchRecord]
    BY <1>2, <1>b, ReaderAssumption DEF TrySubmit, NewBatch, BatchRecord, FreeSlots
  <2>3. inUse' \in [Slots -> BOOLEAN]
    BY <1>2, <1>i DEF TrySubmit
  <2> QED BY <1>2, <1>q, <1>s, <1>i, <1>b, <1>w, <1>t, <1>v, <2>1, <2>2, <2>3 DEF TrySubmit,
       poolVars, TInv, TypeOK, WorkerInv
<1>3. ASSUME NEW g \in Goals, BeginWait(b, g)
      PROVE  TInv'
  <2>1. ticket' \in [Batches -> TicketRecord]
    BY <1>3, <1>t DEF BeginWait, TicketRecord, OwnerPlaces, Owning
  <2> QED BY <1>3, <1>q, <1>s, <1>i, <1>b, <1>w, <1>t, <1>v, <2>1 DEF BeginWait, poolVars,
       TInv, TypeOK, WorkerInv
<1>4. ASSUME NEW g \in Goals, BeginCancel(b, g)
      PROVE  TInv'
  <2>1. ticket' \in [Batches -> TicketRecord]
    <3>1. batch[b].next \in Nat
      BY <1>b DEF BatchRecord
    <3>2. [ticket[b] EXCEPT !.pc = "cas", !.goal = g, !.seen = batch[b].next] \in TicketRecord
      BY <1>t, <1>4, <3>1 DEF TicketRecord, OwnerPlaces, Owning
    <3> QED BY <1>t, <1>4, <3>2 DEF BeginCancel
  <2>2. batch' \in [Batches -> BatchRecord]
    <3>1. [batch[b] EXCEPT !.cancelled = TRUE] \in BatchRecord
      BY <1>b, BatchFields
    <3> QED BY <1>4, <1>b, <3>1 DEF BeginCancel
  <2> QED BY <1>4, <1>q, <1>s, <1>i, <1>b, <1>w, <1>t, <1>v, <2>1, <2>2 DEF BeginCancel,
       poolVars, TInv, TypeOK, WorkerInv
<1>5. CASE DropOwner(b)
  <2>1. ticket' \in [Batches -> TicketRecord]
    BY <1>5, <1>t DEF DropOwner, Absent, Goals, TicketRecord, OwnerPlaces, Owning
  <2>2. batch' \in [Batches -> BatchRecord]
    BY <1>5, <1>b, RecordTypes DEF DropOwner, Release
  <2>3. inUse' \in [Slots -> BOOLEAN]
    BY <1>5, <1>i DEF DropOwner, Release
  <2> QED BY <1>5, <1>q, <1>s, <1>i, <1>b, <1>w, <1>t, <1>v, <2>1, <2>2, <2>3 DEF DropOwner,
       poolVars, TInv, TypeOK, WorkerInv
<1>6. CASE Acquire(b)
  <2>1. ticket' \in [Batches -> TicketRecord]
    BY <1>6, <1>t DEF Acquire, TicketRecord, OwnerPlaces, Owning
  <2>2. batch' \in [Batches -> BatchRecord]
    BY <1>6, <1>b DEF Acquire, FreeSlots, BatchRecord
  <2>3. inUse' \in [Slots -> BOOLEAN]
    BY <1>6, <1>i DEF Acquire
  <2> QED BY <1>6, <1>q, <1>s, <1>i, <1>b, <1>w, <1>t, <1>v, <2>1, <2>2, <2>3 DEF Acquire,
       poolVars, TInv, TypeOK, WorkerInv
<1>7. CASE AllocFail(b)
  <2>1. ticket' \in [Batches -> TicketRecord]
    BY <1>7, <1>t DEF AllocFail, Absent, Goals, TicketRecord, OwnerPlaces, Owning
  <2>2. batch' \in [Batches -> BatchRecord]
    BY <1>7, <1>b DEF AllocFail, NoBatch, NewBatch, BatchRecord, Priorities
  <2>3. inUse' \in [Slots -> BOOLEAN]
    BY <1>7, <1>i DEF AllocFail
  <2> QED BY <1>7, <1>q, <1>s, <1>i, <1>b, <1>w, <1>t, <1>v, <2>1, <2>2, <2>3 DEF AllocFail,
       poolVars, TInv, TypeOK, WorkerInv
<1>8. CASE Publish(b)
  <2>1. ticket' \in [Batches -> TicketRecord]
    BY <1>8, <1>t DEF Publish, TicketRecord, OwnerPlaces, Owning
  <2>2. demandQ' \in Seq(Batches) /\ prefetchQ' \in Seq(Batches)
    <3>1. Copies(b) \in Seq(Batches)
      BY CopiesType DEF TInv
    <3>2. \/ demandQ' = demandQ \o Copies(b) /\ prefetchQ' = prefetchQ
          \/ prefetchQ' = prefetchQ \o Copies(b) /\ demandQ' = demandQ
      BY <1>8 DEF Publish
    <3>3. demandQ \o Copies(b) \in Seq(Batches) /\ prefetchQ \o Copies(b) \in Seq(Batches)
      BY <1>q, <3>1
    <3> QED BY <1>q, <3>2, <3>3
  <2> QED BY <1>8, <1>q, <1>s, <1>i, <1>b, <1>w, <1>t, <1>v, <2>1, <2>2 DEF Publish, poolVars,
       TInv, TypeOK, WorkerInv
<1>9. CASE Sleep(b) \/ ReadyReturn(b)
  <2>1. ticket' \in [Batches -> TicketRecord]
    BY <1>9, <1>t DEF Sleep, ReadyReturn, TicketRecord, OwnerPlaces, Owning
  <2> QED BY <1>9, <1>q, <1>s, <1>i, <1>b, <1>w, <1>t, <1>v, <2>1 DEF Sleep, ReadyReturn,
       poolVars, TInv, TypeOK, WorkerInv
<1>10. CASE WaitOk(b) \/ WaitEnd(b)
  <2>1. ticket' \in [Batches -> TicketRecord]
    BY <1>10, <1>t DEF WaitOk, WaitEnd, TicketRecord, OwnerPlaces, Owning
  <2>2. batch' \in [Batches -> BatchRecord]
    <3>1. [batch[b] EXCEPT !.cancelled = TRUE] \in BatchRecord
      BY <1>b, BatchFields
    <3>2. batch' = [batch EXCEPT ![b].cancelled = TRUE]
      BY <1>10 DEF WaitOk, WaitEnd
    <3> QED BY <1>b, <3>1, <3>2
  <2> QED BY <1>10, <1>q, <1>s, <1>i, <1>b, <1>w, <1>t, <1>v, <2>1, <2>2 DEF WaitOk, WaitEnd,
       poolVars, TInv, TypeOK, WorkerInv
<1>11. CASE CancelCas(b)
  <2>1. ticket' \in [Batches -> TicketRecord]
    BY <1>11, <1>t, <1>b DEF CancelCas, BatchRecord, TicketRecord, OwnerPlaces, Owning
  <2>2. batch' \in [Batches -> BatchRecord]
    <3>1. batch[b].njobs \in Nat
      BY <1>b DEF BatchRecord
    <3>2. [batch[b] EXCEPT !.next = batch[b].njobs] \in BatchRecord
      BY <1>b, <3>1, BatchFields
    <3> QED BY <1>11, <1>b, <3>2 DEF CancelCas
  <2> QED BY <1>11, <1>q, <1>s, <1>i, <1>b, <1>w, <1>t, <1>v, <2>1, <2>2 DEF CancelCas,
       poolVars, TInv, TypeOK, WorkerInv
<1>12. CASE CancelNone(b)
  <2>1. ticket' \in [Batches -> TicketRecord]
    <3>1. AfterCancel(ticket[b].goal) \in OwnerPlaces
      BY DEF AfterCancel, OwnerPlaces, Owning
    <3>2. [ticket[b] EXCEPT !.pc = AfterCancel(ticket[b].goal), !.seen = 0] \in TicketRecord
      BY <1>t, <3>1 DEF TicketRecord
    <3> QED BY <1>t, <1>12, <3>2 DEF CancelNone
  <2> QED BY <1>12, <1>q, <1>s, <1>i, <1>b, <1>w, <1>t, <1>v, <2>1 DEF CancelNone, poolVars,
       TInv, TypeOK, WorkerInv
<1>13. CASE CancelSub(b)
  <2>1. ticket' \in [Batches -> TicketRecord]
    <3>1. AfterCancel(ticket[b].goal) \in OwnerPlaces
      BY DEF AfterCancel, OwnerPlaces, Owning
    <3>2. [ticket[b] EXCEPT !.pc = AfterCancel(ticket[b].goal), !.seen = 0] \in TicketRecord
      BY <1>t, <3>1 DEF TicketRecord
    <3> QED BY <1>t, <1>13, <3>2 DEF CancelSub
  <2>2. batch' \in [Batches -> BatchRecord]
    <3>1. batch[b].remaining - (batch[b].njobs - ticket[b].seen) \in Int
      BY <1>b, <1>t DEF BatchRecord, TicketRecord
    <3>2. [batch[b] EXCEPT !.remaining = @ - (batch[b].njobs - ticket[b].seen)] \in BatchRecord
      BY <1>b, <3>1, BatchFields
    <3> QED BY <1>b, <1>13, <3>2 DEF CancelSub
  <2> QED BY <1>13, <1>q, <1>s, <1>i, <1>b, <1>w, <1>t, <1>v, <2>1, <2>2 DEF CancelSub,
       poolVars, TInv, TypeOK, WorkerInv
<1>14. ASSUME NEW m \in 1 .. Sources(b), WaitReadySources(b, m)
      PROVE  TInv'
  <2>1. ticket' \in [Batches -> TicketRecord]
    <3>1. Sources(b) \in Int
      BY <1>b, ReaderAssumption DEF Sources, BatchRecord
    <3>2. m \in Nat
      BY <3>1
    <3>3. [ticket[b] EXCEPT !.pc = "check", !.goal = "ready", !.seen = m] \in TicketRecord
      BY <1>t, <3>2 DEF TicketRecord, OwnerPlaces, Owning, Goals
    <3> QED BY <1>t, <1>14, <3>3 DEF WaitReadySources
  <2> QED BY <1>14, <1>q, <1>s, <1>i, <1>b, <1>w, <1>t, <1>v, <2>1 DEF WaitReadySources,
       poolVars, TInv, TypeOK, WorkerInv
<1> QED BY <1>1, <1>2, <1>3, <1>4, <1>5, <1>6, <1>7, <1>8, <1>9, <1>10, <1>11, <1>12, <1>13,
       <1>14 DEF Calls, Progress

\* Every step of worker_main and run_quantum keeps the types.
LEMMA WorkerTypes ==
  ASSUME TInv, NEW w \in Workers, Work(w)
  PROVE  TInv'
<1>q. demandQ \in Seq(Batches) /\ prefetchQ \in Seq(Batches)
  BY DEF TInv, TypeOK
<1>s. streak \in Nat /\ closed \in BOOLEAN
  BY DEF TInv, TypeOK
<1>i. inUse \in [Slots -> BOOLEAN]
  BY DEF TInv, TypeOK
<1>b. batch \in [Batches -> BatchRecord]
  BY DEF TInv, TypeOK
<1>w. worker \in [Workers -> WorkerRecord]
  BY DEF TInv, TypeOK
<1>t. ticket \in [Batches -> TicketRecord]
  BY DEF TInv, TypeOK
<1>v. WorkerInv
  BY DEF TInv
<1>1. CASE Pop(w)
  <2>1. worker' \in [Workers -> WorkerRecord]
    <3>1. ASSUME NEW c \in Batches
          PROVE  Start(c) \in WorkerRecord
      BY ReaderAssumption DEF Start, WorkerRecord, WorkerPlaces, Holding, Running
    <3>2. \E c \in Batches : worker' = [worker EXCEPT ![w] = Start(c)]
      BY <1>1, <1>q, WithinHead DEF Pop, TakesDemand
    <3> QED BY <1>w, <3>1, <3>2
  <2>2. demandQ' \in Seq(Batches) /\ prefetchQ' \in Seq(Batches)
    <3>1. ASSUME NEW q \in Seq(Batches), q # <<>>
          PROVE  Tail(q) \in Seq(Batches)
      BY <3>1
    <3> QED BY <1>1, <1>q, <3>1 DEF Pop, TakesDemand
  <2>3. streak' \in Nat
    BY <1>1, <1>s, ReaderAssumption DEF Pop, NextStreak
  <2>4. WorkerInv'
    <3>1. PICK c \in Batches : worker' = [worker EXCEPT ![w] = Start(c)]
      BY <1>1, <1>q, WithinHead DEF Pop, TakesDemand
    <3> QED BY <1>v, <1>w, <3>1, ReaderAssumption DEF WorkerInv, Start
  <2> QED BY <1>1, <1>q, <1>s, <1>i, <1>b, <1>w, <1>t, <1>v, <2>1, <2>2, <2>3, <2>4 DEF Pop,
       poolVars, TInv, TypeOK, WorkerInv
<1>2. CASE Exit(w)
  <2>1. worker' \in [Workers -> WorkerRecord]
    BY <1>2, <1>w DEF Exit, WorkerRecord, WorkerPlaces, Holding, Running
  <2>2. WorkerInv'
    BY <1>2, <1>v, <1>w DEF Exit, WorkerInv, WorkerRecord, WorkerPlaces, Holding, Running
  <2> QED BY <1>2, <1>q, <1>s, <1>i, <1>b, <1>w, <1>t, <1>v, <2>1, <2>2 DEF Exit, poolVars,
       TInv, TypeOK, WorkerInv
<1>3. CASE Claim(w)
  <2>1. worker' \in [Workers -> WorkerRecord]
    <3> DEFINE i == batch[worker[w].batch].next
    <3>1. i \in Nat
      BY <1>3, <1>b, <1>v DEF Claim, WorkerInv, Holding, BatchRecord
    <3> HIDE DEF i
    <3>2. /\ [worker[w] EXCEPT !.pc = "run", !.job = i] \in WorkerRecord
          /\ [worker[w] EXCEPT !.pc = "drop"] \in WorkerRecord
      BY <1>w, <3>1 DEF WorkerRecord, WorkerPlaces, Holding, Running
    <3> QED BY <1>w, <1>3, <3>2 DEF Claim, i
  <2>2. batch' \in [Batches -> BatchRecord]
    <3> DEFINE c == worker[w].batch
    <3>1. c \in Batches
      BY <1>3, <1>v DEF Claim, WorkerInv, Holding
    <3>2. batch[c].next + 1 \in Nat
      BY <1>b, <3>1 DEF BatchRecord
    <3>3. [batch[c] EXCEPT !.next = batch[c].next + 1] \in BatchRecord
      BY <1>b, <3>1, <3>2, BatchFields
    <3>4. batch' = [batch EXCEPT ![c].next = batch[c].next + 1]
      BY <1>3 DEF Claim
    <3> QED BY <1>b, <3>1, <3>3, <3>4
  <2>3. WorkerInv'
    BY <1>3, <1>v, <1>w DEF Claim, WorkerInv, WorkerRecord, WorkerPlaces, Holding, Running
  <2> QED BY <1>3, <1>q, <1>s, <1>i, <1>b, <1>w, <1>t, <1>v, <2>1, <2>2, <2>3 DEF Claim,
       poolVars, TInv, TypeOK, WorkerInv
<1>4. CASE JobOk(w) \/ JobFail(w)
  <2>1. worker' \in [Workers -> WorkerRecord]
    BY <1>4, <1>w DEF JobOk, JobFail, WorkerRecord, WorkerPlaces, Holding, Running
  <2>2. batch' \in [Batches -> BatchRecord]
    <3> DEFINE c == worker[w].batch
    <3>1. c \in Batches /\ worker[w].job \in Nat
      BY <1>4, <1>w, <1>v DEF JobOk, JobFail, WorkerInv, Holding, Running, WorkerRecord
    <3>2. /\ [batch[c] EXCEPT !.landed = @ \cup {worker[w].job}] \in BatchRecord
          /\ [batch[c] EXCEPT !.failed = TRUE] \in BatchRecord
      BY <1>b, <3>1, BatchFields
    <3> QED BY <1>4, <1>b, <3>1, <3>2 DEF JobOk, JobFail
  <2>3. WorkerInv'
    BY <1>4, <1>v, <1>w DEF JobOk, JobFail, WorkerInv, WorkerRecord, WorkerPlaces, Holding,
       Running
  <2> QED BY <1>4, <1>q, <1>s, <1>i, <1>b, <1>w, <1>t, <1>v, <2>1, <2>2, <2>3 DEF JobOk,
       JobFail, poolVars, TInv, TypeOK, WorkerInv
<1>5. CASE Note(w)
  <2>1. worker' \in [Workers -> WorkerRecord]
    BY <1>5, <1>w DEF Note, WorkerRecord, WorkerPlaces, Holding, Running
  <2>2. batch' \in [Batches -> BatchRecord]
    <3> DEFINE c == worker[w].batch
    <3>1. c \in Batches /\ worker[w].job \in Nat
      BY <1>5, <1>w, <1>v DEF Note, WorkerInv, Holding, Running, WorkerRecord
    <3>2. [batch[c] EXCEPT !.noted = @ \cup {worker[w].job}] \in BatchRecord
      BY <1>b, <3>1, BatchFields
    <3>3. batch' = [batch EXCEPT ![c].noted = @ \cup {worker[w].job}]
      BY <1>5 DEF Note
    <3> QED BY <1>b, <3>1, <3>2, <3>3
  <2>3. ticket' \in [Batches -> TicketRecord]
    <3> DEFINE c == worker[w].batch
               p == IF ticket[c].pc = "asleep" THEN "check" ELSE ticket[c].pc
    <3>1. c \in Batches
      BY <1>5, <1>v DEF Note, WorkerInv, Holding, Running
    <3>2. p \in OwnerPlaces
      BY <1>t, <3>1 DEF TicketRecord, OwnerPlaces, Owning
    <3>3. [ticket[c] EXCEPT !.pc = p] \in TicketRecord
      BY <1>t, <3>1, <3>2, TicketFields
    <3>4. ticket' = [ticket EXCEPT ![c].pc = p] \/ ticket' = ticket
      BY <1>5 DEF Note, Wake
    <3> QED BY <1>t, <3>1, <3>3, <3>4
  <2>4. WorkerInv'
    BY <1>5, <1>v, <1>w DEF Note, WorkerInv, WorkerRecord, WorkerPlaces, Holding, Running
  <2> QED BY <1>5, <1>q, <1>s, <1>i, <1>b, <1>w, <1>t, <1>v, <2>1, <2>2, <2>3, <2>4 DEF Note,
       poolVars, TInv, TypeOK, WorkerInv
<1>6. CASE CountDown(w)
  <2>1. worker' \in [Workers -> WorkerRecord]
    BY <1>6, <1>w, <1>v, ReaderAssumption DEF CountDown, WorkerInv, WorkerRecord, WorkerPlaces,
       Holding, Running
  <2>2. batch' \in [Batches -> BatchRecord]
    <3> DEFINE c == worker[w].batch
    <3>1. c \in Batches
      BY <1>6, <1>v DEF CountDown, WorkerInv, Holding, Running
    <3>2. batch[c].remaining - 1 \in Int
      BY <1>b, <3>1 DEF BatchRecord
    <3>3. [batch[c] EXCEPT !.remaining = @ - 1] \in BatchRecord
      BY <1>b, <3>1, <3>2, BatchFields
    <3>4. batch' = [batch EXCEPT ![c].remaining = @ - 1]
      BY <1>6 DEF CountDown
    <3> QED BY <1>b, <3>1, <3>3, <3>4
  <2>3. WorkerInv'
    BY <1>6, <1>v, <1>w DEF CountDown, WorkerInv, WorkerRecord, WorkerPlaces, Holding, Running
  <2> QED BY <1>6, <1>q, <1>s, <1>i, <1>b, <1>w, <1>t, <1>v, <2>1, <2>2, <2>3 DEF CountDown,
       poolVars, TInv, TypeOK, WorkerInv
<1>7. CASE QuantumEnd(w)
  <2>1. worker' \in [Workers -> WorkerRecord]
    BY <1>7, <1>w DEF QuantumEnd, WorkerRecord, WorkerPlaces, Holding, Running
  <2>2. WorkerInv'
    BY <1>7, <1>v, <1>w DEF QuantumEnd, WorkerInv, WorkerRecord, WorkerPlaces, Holding, Running
  <2> QED BY <1>7, <1>q, <1>s, <1>i, <1>b, <1>w, <1>t, <1>v, <2>1, <2>2 DEF QuantumEnd,
       poolVars, TInv, TypeOK, WorkerInv
<1>8. CASE Requeue(w)
  <2>1. worker' \in [Workers -> WorkerRecord]
    BY <1>8, <1>w, ReaderAssumption DEF Requeue, Parked, WorkerRecord, WorkerPlaces, Holding,
       Running
  <2>2. demandQ' \in Seq(Batches) /\ prefetchQ' \in Seq(Batches)
    <3>1. worker[w].batch \in Batches
      BY <1>8, <1>v DEF Requeue, WorkerInv, Holding
    <3>2. \/ demandQ' = Append(demandQ, worker[w].batch) /\ prefetchQ' = prefetchQ
          \/ prefetchQ' = Append(prefetchQ, worker[w].batch) /\ demandQ' = demandQ
      BY <1>8 DEF Requeue
    <3>3. /\ Append(demandQ, worker[w].batch) \in Seq(Batches)
          /\ Append(prefetchQ, worker[w].batch) \in Seq(Batches)
      BY <1>q, <3>1
    <3> QED BY <1>q, <3>2, <3>3
  <2>3. WorkerInv'
    BY <1>8, <1>v, <1>w DEF Requeue, WorkerInv, Parked, WorkerRecord, WorkerPlaces, Holding,
       Running
  <2> QED BY <1>8, <1>q, <1>s, <1>i, <1>b, <1>w, <1>t, <1>v, <2>1, <2>2, <2>3 DEF Requeue,
       poolVars, TInv, TypeOK, WorkerInv
<1>9. CASE DropIdle(w)
  <2>1. worker' \in [Workers -> WorkerRecord]
    BY <1>9, <1>w, ReaderAssumption DEF DropIdle, Parked, WorkerRecord, WorkerPlaces, Holding,
       Running
  <2>2. batch' \in [Batches -> BatchRecord]
    BY <1>9, <1>b, RecordTypes DEF DropIdle, Release
  <2>3. inUse' \in [Slots -> BOOLEAN]
    BY <1>9, <1>i DEF DropIdle, Release
  <2>4. WorkerInv'
    BY <1>9, <1>v, <1>w DEF DropIdle, WorkerInv, Parked, WorkerRecord, WorkerPlaces, Holding,
       Running
  <2> QED BY <1>9, <1>q, <1>s, <1>i, <1>b, <1>w, <1>t, <1>v, <2>1, <2>2, <2>3, <2>4 DEF
       DropIdle, poolVars, TInv, TypeOK, WorkerInv
<1>10. CASE DropFinished(w)
  <2>1. worker' \in [Workers -> WorkerRecord]
    <3>1. "notify" \in WorkerPlaces /\ 0 \in 0 .. Quantum
      BY ReaderAssumption DEF WorkerPlaces
    <3>2. [worker[w] EXCEPT !.pc = "notify", !.left = 0] \in WorkerRecord
      BY <1>w, <3>1 DEF WorkerRecord
    <3> QED BY <1>w, <1>10, <3>2 DEF DropFinished
  <2>2. batch' \in [Batches -> BatchRecord]
    BY <1>10, <1>b, RecordTypes DEF DropFinished, Release
  <2>3. inUse' \in [Slots -> BOOLEAN]
    BY <1>10, <1>i DEF DropFinished, Release
  <2>4. WorkerInv'
    BY <1>10, <1>v, <1>w DEF DropFinished, WorkerInv, WorkerRecord, WorkerPlaces, Holding,
       Running
  <2> QED BY <1>10, <1>q, <1>s, <1>i, <1>b, <1>w, <1>t, <1>v, <2>1, <2>2, <2>3, <2>4 DEF
       DropFinished, poolVars, TInv, TypeOK, WorkerInv
<1>11. CASE Notify(w)
  <2>1. worker' \in [Workers -> WorkerRecord]
    BY <1>11, <1>w, ReaderAssumption DEF Notify, Parked, WorkerRecord, WorkerPlaces, Holding,
       Running
  <2>2. ticket' \in [Batches -> TicketRecord]
    BY <1>11, <1>t, ZenonT(60) DEF Notify, Wake, TicketRecord, OwnerPlaces, Owning
  <2>3. WorkerInv'
    BY <1>11, <1>v, <1>w DEF Notify, WorkerInv, Parked, WorkerRecord, WorkerPlaces, Holding,
       Running
  <2> QED BY <1>11, <1>q, <1>s, <1>i, <1>b, <1>w, <1>t, <1>v, <2>1, <2>2, <2>3 DEF Notify,
       poolVars, TInv, TypeOK, WorkerInv
<1> QED BY <1>1, <1>2, <1>3, <1>4, <1>5, <1>6, <1>7, <1>8, <1>9, <1>10, <1>11 DEF Work

\* Hence every step of the reader, the drop of the Reader included, does.
LEMMA StepTypes ==
  ASSUME TInv, [Next]_vars
  PROVE  TInv'
<1>1. CASE Close
  BY <1>1 DEF Close, TInv, TypeOK, WorkerInv
<1>2. CASE UNCHANGED vars
  BY <1>2 DEF vars, poolVars, TInv, TypeOK, WorkerInv
<1> QED BY <1>1, <1>2, OwnerTypes, WorkerTypes DEF Next

\* Type correctness of the reader: in particular every queue entry is a batch
\* and the quantum counter of a worker never goes below zero.
THEOREM TypeCorrect == Spec => []TypeOK
<1>1. Init => TInv
  BY InitTypes
<1>2. TInv /\ [Next]_vars => TInv'
  BY StepTypes
<1>3. TInv => TypeOK
  BY DEF TInv
<1> QED BY <1>1, <1>2, <1>3, PTL DEF Spec

-----------------------------------------------------------------------------
(* Slots.  Three lemmas say how a step may change who leases what: not at   *)
(* all, by taking a free slot for b, or by giving b's slot back.            *)

\* A step that changes no slot, no lease and adds no reference keeps SlotInv.
LEMMA SlotsKept ==
  ASSUME SlotInv, inUse' = inUse,
         \A c \in Batches : Leasing(c)' => Leasing(c) /\ batch'[c].lease = batch[c].lease,
         \A c \in Batches : ticket'[c].pc \in {"acquire", "alloc"} => ~PoolHolds(c)'
  PROVE  SlotInv'
  BY DEF SlotInv, FreshInv, LeaseInv, DistinctInv

\* A step that leases a free slot to a batch nobody refers to keeps SlotInv.
LEMMA SlotTaken ==
  ASSUME TypeOK, SlotInv, NEW b \in Batches, NEW s \in FreeSlots,
         inUse' = [inUse EXCEPT ![s] = TRUE], batch'[b].lease = s,
         \A c \in Batches \ {b} : Leasing(c)' => Leasing(c) /\ batch'[c].lease = batch[c].lease,
         \A c \in Batches : ticket'[c].pc \in {"acquire", "alloc"} => ~PoolHolds(c)'
  PROVE  SlotInv'
<1>1. inUse \in [Slots -> BOOLEAN] /\ s \in Slots /\ ~inUse[s]
  BY DEF TypeOK, FreeSlots
<1>2. \A c \in Batches \ {b} : Leasing(c)' => batch'[c].lease # s
  BY <1>1 DEF SlotInv, LeaseInv
<1> QED BY <1>1, <1>2 DEF SlotInv, FreshInv, LeaseInv, DistinctInv

\* A step that frees the slot of a batch whose last reference goes keeps SlotInv.
LEMMA SlotFreed ==
  ASSUME TypeOK, SlotInv, NEW b \in Batches, Leasing(b), ~Leasing(b)',
         inUse' = [inUse EXCEPT ![batch[b].lease] = FALSE],
         \A c \in Batches \ {b} : Leasing(c)' => Leasing(c) /\ batch'[c].lease = batch[c].lease,
         \A c \in Batches : ticket'[c].pc \in {"acquire", "alloc"} => ~PoolHolds(c)'
  PROVE  SlotInv'
<1>1. inUse \in [Slots -> BOOLEAN]
  BY DEF TypeOK
<1>2. \A c \in Batches \ {b} : Leasing(c)' => batch'[c].lease # batch[b].lease
  BY DEF SlotInv, DistinctInv
<1> QED BY <1>1, <1>2 DEF SlotInv, FreshInv, LeaseInv, DistinctInv

\* A step that leaves queues and workers alone leaves the pool's clones alone.
LEMMA PoolKept ==
  ASSUME UNCHANGED <<demandQ, prefetchQ, worker>>, NEW c
  PROVE  PoolHolds(c)' <=> PoolHolds(c)
  BY DEF PoolHolds, Queued, Within, HeldBy

\* Release(b), after a step that took nothing but a reference of b.
LEMMA ReleaseKeeps ==
  ASSUME TypeOK, SlotInv, NEW b \in Batches, Release(b), Referenced(b),
         \A c \in Batches : ticket'[c].pc = ticket[c].pc \/ ticket'[c].pc = "idle",
         ticket[b].pc # "alloc",
         \A c \in Batches : PoolHolds(c)' => PoolHolds(c)
  PROVE  SlotInv'
<1>1. \A c \in Batches : Leasing(c)' => Leasing(c)
  BY DEF Leasing, Referenced, Owning
<1>2. \A c \in Batches : ticket'[c].pc \in {"acquire", "alloc"} => ~PoolHolds(c)'
  BY DEF SlotInv, FreshInv
<1>3. CASE Referenced(b)'
  <2>1. inUse' = inUse /\ batch' = batch
    BY <1>3 DEF Release
  <2> QED BY <1>1, <1>2, <2>1, SlotsKept
<1>4. CASE ~Referenced(b)'
  <2>1. /\ inUse' = [inUse EXCEPT ![batch[b].lease] = FALSE]
        /\ batch' = [batch EXCEPT ![b] = NoBatch]
    BY <1>4 DEF Release
  <2>2. \A c \in Batches \ {b} : batch'[c] = batch[c]
    BY <2>1 DEF TypeOK
  <2>3. Leasing(b) /\ ~Leasing(b)'
    BY <1>4 DEF Leasing
  <2> QED BY <1>1, <1>2, <2>1, <2>2, <2>3, SlotFreed
<1> QED BY <1>3, <1>4

\* The owner moves between Owning places.
LEMMA OwnerMoves ==
  ASSUME SlotInv, NEW b \in Batches, UNCHANGED <<inUse, demandQ, prefetchQ, worker>>,
         ticket[b].pc \in Owning, ticket'[b].pc \in Owning,
         \A c \in Batches \ {b} : ticket'[c].pc = ticket[c].pc,
         \A c \in Batches : batch'[c].lease = batch[c].lease
  PROVE  SlotInv'
<1>1. \A c \in Batches : PoolHolds(c)' <=> PoolHolds(c)
  BY PoolKept
<1>2. \A c \in Batches : Leasing(c)' => Leasing(c)
  BY <1>1 DEF Leasing, Referenced
<1>3. \A c \in Batches : ticket'[c].pc \in {"acquire", "alloc"} => ~PoolHolds(c)'
  BY <1>1 DEF SlotInv, FreshInv, Owning
<1> QED BY <1>2, <1>3, SlotsKept

\* Every step of an owner keeps the accounting of the slots.
LEMMA OwnerSlots ==
  ASSUME TInv, SlotInv, NEW b \in Batches, Calls(b) \/ Progress(b)
  PROVE  SlotInv'
<1>t. TypeOK
  BY DEF TInv
<1>f. ticket \in [Batches -> TicketRecord] /\ batch \in [Batches -> BatchRecord]
  BY DEF TInv, TypeOK
<1>1. ASSUME NEW p \in Priorities, NEW n \in JobCounts, Submit(b, p, n)
      PROVE  SlotInv'
  <2>1. \A c \in Batches : PoolHolds(c)' <=> PoolHolds(c)
    BY <1>1, PoolKept DEF Submit, poolVars
  <2>2. ticket'[b].pc = "acquire" /\ ~PoolHolds(b)
    BY <1>1, <1>f DEF Submit, Unused, Referenced, Absent
  <2>3. \A c \in Batches \ {b} : ticket'[c] = ticket[c] /\ batch'[c] = batch[c]
    BY <1>1, <1>f DEF Submit
  <2>4. \A c \in Batches : Leasing(c)' => Leasing(c) /\ batch'[c].lease = batch[c].lease
    BY <2>1, <2>2, <2>3 DEF Leasing, Referenced, Owning
  <2>5. \A c \in Batches : ticket'[c].pc \in {"acquire", "alloc"} => ~PoolHolds(c)'
    BY <2>1, <2>2, <2>3 DEF SlotInv, FreshInv
  <2>6. inUse' = inUse
    BY <1>1 DEF Submit
  <2> QED BY <2>4, <2>5, <2>6, SlotsKept
<1>2. ASSUME NEW p \in Priorities, NEW n \in JobCounts, TrySubmit(b, p, n)
      PROVE  SlotInv'
  <2>1. \A c \in Batches : PoolHolds(c)' <=> PoolHolds(c)
    BY <1>2, PoolKept DEF TrySubmit, poolVars
  <2>2. ticket'[b].pc = "alloc" /\ ~PoolHolds(b)
    BY <1>2, <1>f DEF TrySubmit, Unused, Referenced, Absent
  <2>3. PICK s \in FreeSlots : /\ inUse' = [inUse EXCEPT ![s] = TRUE]
                               /\ batch' = [batch EXCEPT ![b] = NewBatch(p, n, s)]
    BY <1>2 DEF TrySubmit
  <2>4. batch'[b].lease = s
    BY <2>3, <1>f DEF NewBatch
  <2>5. \A c \in Batches \ {b} : ticket'[c] = ticket[c] /\ batch'[c] = batch[c]
    BY <1>2, <1>f, <2>3 DEF TrySubmit
  <2>6. \A c \in Batches \ {b} : Leasing(c)' => Leasing(c) /\ batch'[c].lease = batch[c].lease
    BY <2>1, <2>5 DEF Leasing, Referenced
  <2>7. \A c \in Batches : ticket'[c].pc \in {"acquire", "alloc"} => ~PoolHolds(c)'
    BY <2>1, <2>2, <2>5 DEF SlotInv, FreshInv
  <2> QED BY <1>t, <2>3, <2>4, <2>6, <2>7, SlotTaken
<1>3. CASE Acquire(b)
  <2>1. \A c \in Batches : PoolHolds(c)' <=> PoolHolds(c)
    BY <1>3, PoolKept DEF Acquire, poolVars
  <2>2. ~PoolHolds(b)
    BY <1>3 DEF Acquire, SlotInv, FreshInv
  <2>3. PICK s \in FreeSlots : /\ inUse' = [inUse EXCEPT ![s] = TRUE]
                               /\ batch' = [batch EXCEPT ![b].lease = s]
    BY <1>3 DEF Acquire
  <2>4. batch'[b].lease = s
    BY <2>3, <1>f DEF BatchRecord
  <2>5. \A c \in Batches \ {b} : ticket'[c] = ticket[c] /\ batch'[c] = batch[c]
    BY <1>3, <1>f, <2>3 DEF Acquire
  <2>6. \A c \in Batches \ {b} : Leasing(c)' => Leasing(c) /\ batch'[c].lease = batch[c].lease
    BY <2>1, <2>5 DEF Leasing, Referenced
  <2>7. \A c \in Batches : ticket'[c].pc \in {"acquire", "alloc"} => ~PoolHolds(c)'
    BY <2>1, <2>2, <2>5 DEF SlotInv, FreshInv
  <2> QED BY <1>t, <2>3, <2>4, <2>6, <2>7, SlotTaken
<1>4. CASE AllocFail(b)
  <2>1. \A c \in Batches : PoolHolds(c)' <=> PoolHolds(c)
    BY <1>4, PoolKept DEF AllocFail, poolVars
  <2>2. /\ Leasing(b) /\ ~PoolHolds(b)
        /\ inUse' = [inUse EXCEPT ![batch[b].lease] = FALSE]
    BY <1>4 DEF AllocFail, Leasing, SlotInv, FreshInv
  <2>3. ticket'[b].pc = "idle"
    BY <1>4, <1>f DEF AllocFail, Absent
  <2>4. ~Leasing(b)'
    BY <2>1, <2>2, <2>3 DEF Leasing, Referenced, Owning
  <2>5. \A c \in Batches \ {b} : ticket'[c] = ticket[c] /\ batch'[c] = batch[c]
    BY <1>4, <1>f DEF AllocFail
  <2>6. \A c \in Batches \ {b} : Leasing(c)' => Leasing(c) /\ batch'[c].lease = batch[c].lease
    BY <2>1, <2>5 DEF Leasing, Referenced
  <2>7. \A c \in Batches : ticket'[c].pc \in {"acquire", "alloc"} => ~PoolHolds(c)'
    BY <2>1, <2>3, <2>5 DEF SlotInv, FreshInv
  <2> QED BY <1>t, <2>2, <2>4, <2>6, <2>7, SlotFreed
<1>5. CASE Publish(b)
  <2>1. \A c \in Batches : PoolHolds(c)' => PoolHolds(c) \/ c = b
    <3>1. /\ Participating(batch[b].njobs) \in Nat
          /\ demandQ \in Seq(Batches) /\ prefetchQ \in Seq(Batches)
      BY <1>t, CopiesType DEF TypeOK
    <3>2. \/ demandQ' = demandQ \o Copies(b) /\ prefetchQ' = prefetchQ
          \/ prefetchQ' = prefetchQ \o Copies(b) /\ demandQ' = demandQ
      BY <1>5 DEF Publish
    <3>3. ASSUME NEW q \in Seq(Batches), NEW c \in Batches, Within(c, q \o Copies(b))
          PROVE  Within(c, q) \/ c = b
      BY <3>1, <3>3, WithinCopies DEF Copies
    <3>4. \A c \in Batches : Queued(c)' => Queued(c) \/ c = b
      BY <3>1, <3>2, <3>3 DEF Queued
    <3> QED BY <1>5, <3>4 DEF Publish, PoolHolds, HeldBy
  <2>2. ticket[b].pc = "alloc" /\ ticket'[b].pc = "held"
    BY <1>5, <1>f DEF Publish, TicketRecord
  <2>3. \A c \in Batches \ {b} : ticket'[c] = ticket[c]
    BY <1>5, <1>f DEF Publish
  <2>4. inUse' = inUse /\ batch' = batch
    BY <1>5 DEF Publish
  <2>5. \A c \in Batches : Leasing(c)' => Leasing(c) /\ batch'[c].lease = batch[c].lease
    BY <2>1, <2>2, <2>3, <2>4 DEF Leasing, Referenced
  <2>6. \A c \in Batches : ticket'[c].pc \in {"acquire", "alloc"} => ~PoolHolds(c)'
    BY <2>1, <2>2, <2>3 DEF SlotInv, FreshInv
  <2> QED BY <2>4, <2>5, <2>6, SlotsKept
<1>6. CASE DropOwner(b)
  <2>1. \A c \in Batches : PoolHolds(c)' <=> PoolHolds(c)
    BY <1>6, PoolKept DEF DropOwner, poolVars
  <2>2. Release(b) /\ Referenced(b) /\ ticket[b].pc # "alloc"
    BY <1>6 DEF DropOwner, Referenced, Owning
  <2>3. \A c \in Batches : ticket'[c].pc = ticket[c].pc \/ ticket'[c].pc = "idle"
    BY <1>6, <1>f DEF DropOwner, Absent
  <2> QED BY <1>t, <2>1, <2>2, <2>3, ReleaseKeeps
<1>7. CASE Sleep(b) \/ ReadyReturn(b)
  BY <1>7, <1>f, OwnerMoves DEF Sleep, ReadyReturn, poolVars, TicketRecord, Owning
<1>8. CASE CancelNone(b)
  <2>1. AfterCancel(ticket[b].goal) \in Owning
    BY DEF AfterCancel, Owning
  <2>2. ticket[b].pc \in Owning /\ ticket'[b].pc \in Owning
    BY <1>8, <1>f, <2>1 DEF CancelNone, TicketRecord, Owning
  <2> QED BY <1>8, <1>f, <2>2, OwnerMoves DEF CancelNone, poolVars
<1>9. ASSUME NEW g \in Goals, BeginWait(b, g)
      PROVE  SlotInv'
  <2>1. ticket[b].pc \in Owning /\ ticket'[b].pc \in Owning
    BY <1>9, <1>f DEF BeginWait, TicketRecord, Owning
  <2> QED BY <1>9, <1>f, <2>1, OwnerMoves DEF BeginWait, poolVars
<1>10. ASSUME NEW g \in Goals, BeginCancel(b, g)
      PROVE  SlotInv'
  <2>1. ticket[b].pc \in Owning /\ ticket'[b].pc \in Owning
    BY <1>10, <1>f DEF BeginCancel, TicketRecord, Owning
  <2>2. \A c \in Batches : batch'[c].lease = batch[c].lease
    BY <1>10, <1>f DEF BeginCancel, BatchRecord
  <2> QED BY <1>10, <1>f, <2>1, <2>2, OwnerMoves DEF BeginCancel, poolVars
<1>11. CASE WaitOk(b) \/ WaitEnd(b)
  <2>1. ticket[b].pc \in Owning /\ ticket'[b].pc \in Owning
    BY <1>11, <1>f DEF WaitOk, WaitEnd, TicketRecord, Owning
  <2>2. \A c \in Batches : batch'[c].lease = batch[c].lease
    BY <1>11, <1>f DEF WaitOk, WaitEnd, BatchRecord
  <2> QED BY <1>11, <1>f, <2>1, <2>2, OwnerMoves DEF WaitOk, WaitEnd, poolVars
<1>12. CASE CancelCas(b)
  <2>1. ticket[b].pc \in Owning /\ ticket'[b].pc \in Owning
    BY <1>12, <1>f DEF CancelCas, TicketRecord, Owning
  <2>2. \A c \in Batches : batch'[c].lease = batch[c].lease
    BY <1>12, <1>f DEF CancelCas, BatchRecord
  <2> QED BY <1>12, <1>f, <2>1, <2>2, OwnerMoves DEF CancelCas, poolVars
<1>13. CASE CancelSub(b)
  <2>1. AfterCancel(ticket[b].goal) \in Owning
    BY DEF AfterCancel, Owning
  <2>2. ticket[b].pc \in Owning /\ ticket'[b].pc \in Owning
    BY <1>13, <1>f, <2>1 DEF CancelSub, TicketRecord, Owning
  <2>3. \A c \in Batches : batch'[c].lease = batch[c].lease
    BY <1>13, <1>f DEF CancelSub, BatchRecord
  <2> QED BY <1>13, <1>f, <2>2, <2>3, OwnerMoves DEF CancelSub, poolVars
<1>14. ASSUME NEW m \in 1 .. Sources(b), WaitReadySources(b, m)
      PROVE  SlotInv'
  <2>1. ticket[b].pc \in Owning /\ ticket'[b].pc \in Owning
    BY <1>14, <1>f DEF WaitReadySources, TicketRecord, Owning
  <2> QED BY <1>14, <1>f, <2>1, OwnerMoves DEF WaitReadySources, poolVars
<1> QED BY <1>1, <1>2, <1>3, <1>4, <1>5, <1>6, <1>7, <1>8, <1>9, <1>10, <1>11, <1>12, <1>13,
           <1>14 DEF Calls, Progress

\* A worker's step adds no clone of any batch.
LEMMA WorkerPool ==
  ASSUME TInv, NEW w \in Workers, Work(w), NEW c \in Batches, PoolHolds(c)'
  PROVE  PoolHolds(c)
<1>f. /\ worker \in [Workers -> WorkerRecord]
      /\ demandQ \in Seq(Batches) /\ prefetchQ \in Seq(Batches)
  BY DEF TInv, TypeOK
<1>1. CASE Pop(w)
  <2>1. Queued(c)' => Queued(c)
    BY <1>1, <1>f, WithinTail DEF Pop, TakesDemand, Queued
  <2>2. PICK h \in Batches : Queued(h) /\ worker' = [worker EXCEPT ![w] = Start(h)]
    BY <1>1, <1>f, WithinHead DEF Pop, TakesDemand, Queued
  <2>3. ASSUME NEW v \in Workers, HeldBy(v, c)'
        PROVE  HeldBy(v, c) \/ c = h
    BY <1>f, <2>2, <2>3 DEF HeldBy, Start
  <2> QED BY <2>1, <2>2, <2>3 DEF PoolHolds
<1>2. CASE Requeue(w)
  <2>1. \/ demandQ' = Append(demandQ, worker[w].batch) /\ prefetchQ' = prefetchQ
        \/ prefetchQ' = Append(prefetchQ, worker[w].batch) /\ demandQ' = demandQ
    BY <1>2 DEF Requeue
  <2>2. HeldBy(w, worker[w].batch) /\ worker[w].batch \in Batches
    BY <1>2 DEF Requeue, HeldBy, Holding, TInv, WorkerInv
  <2>3. ASSUME NEW q \in Seq(Batches), Within(c, Append(q, worker[w].batch))
        PROVE  Within(c, q) \/ c = worker[w].batch
    BY <2>2, <2>3, WithinAppend
  <2>4. Queued(c)' => Queued(c) \/ c = worker[w].batch
    BY <1>f, <2>1, <2>3 DEF Queued
  <2>5. ASSUME NEW v \in Workers, HeldBy(v, c)'
        PROVE  HeldBy(v, c)
    BY <1>2, <1>f, <2>5 DEF Requeue, HeldBy, Parked, Holding, Running
  <2> QED BY <2>2, <2>4, <2>5 DEF PoolHolds
<1>3. CASE ~Pop(w) /\ ~Requeue(w)
  <2>1. UNCHANGED <<demandQ, prefetchQ>>
    BY <1>3 DEF Work, Exit, Claim, JobOk, JobFail, Note, CountDown, QuantumEnd, DropIdle,
                DropFinished, Notify, poolVars
  <2>2. Queued(c)' => Queued(c)
    BY <2>1 DEF Queued, Within
  <2>3. ASSUME NEW v \in Workers, HeldBy(v, c)'
        PROVE  HeldBy(v, c)
    <3>1. CASE v # w
      BY <1>3, <1>f, <2>3, <3>1 DEF HeldBy, Work, Exit, Claim, JobOk, JobFail, Note, CountDown,
         QuantumEnd, DropIdle, DropFinished, Notify
    <3>2. CASE v = w /\ (Exit(w) \/ DropIdle(w) \/ DropFinished(w) \/ Notify(w))
      BY <1>f, <2>3, <3>2 DEF HeldBy, Exit, DropIdle, DropFinished, Notify, Parked,
         Holding, Running, WorkerRecord
    <3>3. CASE v = w /\ (Claim(w) \/ JobOk(w) \/ JobFail(w) \/ Note(w) \/ QuantumEnd(w))
      BY <1>f, <2>3, <3>3 DEF HeldBy, Claim, JobOk, JobFail, Note, QuantumEnd, Holding, Running,
         WorkerRecord
    <3>4. CASE v = w /\ CountDown(w)
      BY <1>f, <2>3, <3>4 DEF HeldBy, CountDown, Holding, Running
    <3> QED BY <1>3, <3>1, <3>2, <3>3, <3>4 DEF Work
  <2> QED BY <2>2, <2>3 DEF PoolHolds
<1> QED BY <1>1, <1>2, <1>3

\* Every step of a worker keeps the accounting of the slots.
LEMMA WorkerSlots ==
  ASSUME TInv, SlotInv, NEW w \in Workers, Work(w)
  PROVE  SlotInv'
<1>f. /\ worker \in [Workers -> WorkerRecord] /\ batch \in [Batches -> BatchRecord]
      /\ ticket \in [Batches -> TicketRecord] /\ TypeOK
  BY DEF TInv, TypeOK
<1>p. \A c \in Batches : PoolHolds(c)' => PoolHolds(c)
  BY WorkerPool
<1>1. ASSUME DropIdle(w) \/ DropFinished(w)
      PROVE  SlotInv'
  <2>1. PICK b \in Batches : b = worker[w].batch /\ Release(b)
    BY <1>1 DEF DropIdle, DropFinished
  <2>2. PoolHolds(b)
    BY <1>1, <2>1 DEF DropIdle, DropFinished, PoolHolds, HeldBy, Holding
  <2>3. Referenced(b) /\ ticket[b].pc # "alloc"
    BY <2>2 DEF Referenced, SlotInv, FreshInv
  <2>4. ticket' = ticket
    BY <1>1 DEF DropIdle, DropFinished
  <2> QED BY <1>f, <1>p, <2>1, <2>3, <2>4, ReleaseKeeps
<1>2. ASSUME ~DropIdle(w), ~DropFinished(w)
      PROVE  SlotInv'
  <2>1. inUse' = inUse
    BY <1>2 DEF Work, Pop, Exit, Claim, JobOk, JobFail, Note, CountDown, QuantumEnd, Requeue,
                Notify
  <2>2. \A c \in Batches : batch'[c].lease = batch[c].lease
    <3>1. CASE Claim(w) \/ JobOk(w) \/ JobFail(w)
      BY <1>f, <3>1 DEF Claim, JobOk, JobFail, BatchRecord
    <3>2. CASE Note(w)
      BY <1>f, <3>2 DEF Note, BatchRecord
    <3>3. CASE CountDown(w)
      <4>1. batch' = [batch EXCEPT ![worker[w].batch].remaining = @ - 1]
        BY <3>3 DEF CountDown
      <4> QED BY <1>f, <4>1 DEF BatchRecord
    <3>4. CASE Pop(w) \/ Exit(w) \/ QuantumEnd(w) \/ Requeue(w) \/ Notify(w)
      BY <3>4 DEF Pop, Exit, QuantumEnd, Requeue, Notify
    <3> QED BY <1>2, <3>1, <3>2, <3>3, <3>4 DEF Work
  <2>3. \A c \in Batches :
          \/ ticket'[c].pc = ticket[c].pc
          \/ ticket[c].pc \in Owning /\ ticket'[c].pc \in Owning
    <3>1. CASE Note(w) \/ Notify(w)
      <4>1. ticket' = ticket \/ ticket' = Wake(worker[w].batch)
        BY <3>1 DEF Note, Notify
      <4> QED BY <1>f, <4>1 DEF Wake, Owning, TicketRecord
    <3>2. CASE ~Note(w) /\ ~Notify(w)
      BY <1>2, <3>2 DEF Work, Pop, Exit, Claim, JobOk, JobFail, CountDown, QuantumEnd, Requeue
    <3> QED BY <3>1, <3>2
  <2>4. \A c \in Batches : Leasing(c)' => Leasing(c)
    BY <1>p, <2>3 DEF Leasing, Referenced, Owning
  <2>5. \A c \in Batches : ticket'[c].pc \in {"acquire", "alloc"} => ~PoolHolds(c)'
    BY <1>p, <2>3 DEF SlotInv, FreshInv, Owning
  <2> QED BY <2>1, <2>2, <2>4, <2>5, SlotsKept
<1> QED BY <1>1, <1>2

\* A Reader that has just been built leases nothing.
LEMMA InitSlots == Init => IInv
<1>1. Init => SlotInv
  BY DEF Init, SlotInv, FreshInv, LeaseInv, DistinctInv, Leasing, Referenced, PoolHolds,
         Queued, Within, HeldBy, Absent, Parked, Owning, Holding, Running
<1> QED BY <1>1, InitTypes DEF IInv

\* Every step keeps the accounting of the slots.
LEMMA StepSlots ==
  ASSUME IInv, [Next]_vars
  PROVE  IInv'
<1>1. CASE Close \/ UNCHANGED vars
  <2>1. UNCHANGED <<demandQ, prefetchQ, worker, inUse, batch, ticket>>
    BY <1>1 DEF Close, vars, poolVars
  <2>2. \A c \in Batches : PoolHolds(c)' <=> PoolHolds(c)
    BY <2>1, PoolKept
  <2>3. SlotInv'
    BY <2>1, <2>2, SlotsKept DEF IInv, SlotInv, FreshInv, Leasing, Referenced
  <2> QED BY <2>3, StepTypes DEF IInv
<1> QED BY <1>1, OwnerSlots, WorkerSlots, StepTypes DEF IInv, Next

\* The accounting of the slots holds in every reachable state.
THEOREM SlotInvariance == Spec => []IInv
<1>1. Init => IInv
  BY InitSlots
<1>2. IInv /\ [Next]_vars => IInv'
  BY StepSlots
<1> QED BY <1>1, <1>2, PTL DEF Spec

\* The storage promise of cancel_unclaimed, for every Reader: as long as a
\* worker may write a slot, or a caller reads what was published in it, no other
\* batch leases it, whatever was cancelled, abandoned, requeued or closed.
THEOREM NoSlotIsRecycledUnderAWrite == Spec => []NoRecycledWrite
<1>1. IInv => NoRecycledWrite
  <2> SUFFICES ASSUME IInv, NEW b \in Batches,
                      \/ \E w \in Workers : HeldBy(w, b) /\ worker[w].pc \in Running
                      \/ ticket[b].pc = "buffers"
               PROVE  /\ inUse[batch[b].lease]
                      /\ \A c \in Batches \ {b} : Leasing(c) => batch[c].lease # batch[b].lease
    BY DEF NoRecycledWrite
  <2>1. Leasing(b)
    BY DEF Leasing, Referenced, PoolHolds, Owning
  <2> QED BY <2>1 DEF IInv, SlotInv, LeaseInv, DistinctInv
<1> QED BY <1>1, SlotInvariance, PTL

-----------------------------------------------------------------------------
(* The inductive invariant, one batch at a time.                             *)

\* Jobs nobody claimed, and jobs a canceller claimed and has yet to subtract.
Unclaimed(b) ==
  IF batch[b].next < batch[b].njobs THEN batch[b].njobs - batch[b].next ELSE 0
Taken(b) == IF ticket[b].pc = "sub" THEN batch[b].njobs - ticket[b].seen ELSE 0

\* A submission that is not published yet has not started.
Blank(b) ==
  ticket[b].pc \in {"acquire", "alloc"} =>
    /\ batch[b].next = 0 /\ batch[b].remaining = batch[b].njobs
    /\ batch[b].noted = {} /\ batch[b].landed = {}

\* The countdown is exact.
Exact(b) ==
  Referenced(b) => batch[b].remaining = Cardinality(InFlight(b)) + Unclaimed(b) + Taken(b)

\* Only a cancelled batch has its jobs taken, and then at least one.
Cancelling(b) ==
  /\ ticket[b].pc \in {"cas", "sub"} => batch[b].cancelled
  /\ ticket[b].pc = "sub" => ticket[b].seen < batch[b].njobs

\* A worker runs a job of the batch, lets go of a batch with no job left to
\* claim, and finishes one with no job left to count.
Placed(b) ==
  \A w \in Workers : HeldBy(w, b) =>
    /\ worker[w].pc \in Running => worker[w].job < batch[b].njobs
    /\ worker[w].pc = "drop" => batch[b].next >= batch[b].njobs
    /\ worker[w].pc = "finish" => batch[b].remaining = 0

\* Every job noted has landed, and every job claimed has landed or is being
\* read, unless a read failed or the owner cancelled.
Landing(b) ==
  Referenced(b) =>
    /\ batch[b].landed \subseteq 0 .. batch[b].njobs - 1
    /\ ~batch[b].failed =>
         /\ batch[b].noted \subseteq batch[b].landed
         /\ \A w \in Workers : HeldBy(w, b) /\ worker[w].pc \in {"note", "dec"} =>
              worker[w].job \in batch[b].landed
    /\ ~batch[b].failed /\ ~batch[b].cancelled =>
         \A i \in 0 .. batch[b].njobs - 1 : i < batch[b].next =>
           \/ i \in batch[b].landed
           \/ \E w \in Workers : HeldBy(w, b) /\ worker[w].pc = "run" /\ worker[w].job = i

\* As long as a job is unclaimed the pool has a clone.
Served(b) == Referenced(b) /\ batch[b].next < batch[b].njobs => PoolHolds(b)

\* A sleeper is counted down for, or about to be notified.
Awaited(b) ==
  ticket[b].pc = "asleep" =>
    \/ batch[b].remaining # 0
    \/ \E w \in Workers : worker[w].batch = b /\ worker[w].pc \in {"finish", "notify"}

\* What wait returned stays complete.
Published(b) ==
  ticket[b].pc = "buffers" =>
    /\ batch[b].remaining = 0
    /\ batch[b].landed = 0 .. batch[b].njobs - 1
    /\ ~batch[b].failed

Sound(b) ==
  /\ Blank(b) /\ Exact(b) /\ Cancelling(b) /\ Placed(b)
  /\ Landing(b) /\ Served(b) /\ Awaited(b) /\ Published(b)

\* A slot in use is leased, and demand has one of several.
Accounted == \A s \in Slots : inUse[s] => \E b \in Batches : Leasing(b) /\ batch[b].lease = s
Reserved  ==
  \/ FreeSlots # {}
  \/ Cardinality(Slots) = 1
  \/ \E b \in Batches : Leasing(b) /\ batch[b].prio = "demand"

SoundInv == \A b \in Batches : Sound(b)
CInv == SoundInv /\ Accounted /\ Reserved

-----------------------------------------------------------------------------
(* What the countdown says.                                                  *)

\* The fields of a batch and of its ticket.
LEMMA FieldTypes ==
  ASSUME TypeOK, NEW b \in Batches
  PROVE  /\ batch[b] \in BatchRecord /\ ticket[b] \in TicketRecord
         /\ batch[b].next \in Nat /\ batch[b].njobs \in Nat /\ batch[b].remaining \in Int
         /\ batch[b].landed \subseteq Nat /\ batch[b].noted \subseteq Nat
         /\ ticket[b].seen \in Nat
  BY DEF TypeOK, BatchRecord, TicketRecord

\* The jobs in flight are finitely many.
LEMMA FlightFinite ==
  ASSUME NEW b
  PROVE  IsFiniteSet(InFlight(b)) /\ Cardinality(InFlight(b)) \in Nat
<1>1. InFlight(b) \subseteq Workers
  BY DEF InFlight
<1> QED BY <1>1, ReaderAssumption, FS_Subset, FS_CardinalityType

\* A batch is counted down to zero exactly when no job of it is in flight,
\* unclaimed or taken.
LEMMA CountedDown ==
  ASSUME TypeOK, NEW b \in Batches, Referenced(b), Exact(b), Cancelling(b)
  PROVE  /\ batch[b].remaining = 0 =>
              /\ InFlight(b) = {} /\ batch[b].next >= batch[b].njobs /\ ticket[b].pc # "sub"
         /\ batch[b].remaining # 0 =>
              \/ InFlight(b) # {} \/ batch[b].next < batch[b].njobs \/ ticket[b].pc = "sub"
<1> DEFINE k == Cardinality(InFlight(b))
           n == batch[b].next
           m == batch[b].njobs
           r == batch[b].remaining
           t == ticket[b].seen
<1>1. k \in Nat /\ (k = 0 <=> InFlight(b) = {})
  BY FlightFinite, FS_EmptySet
<1>2. n \in Nat /\ m \in Nat /\ r \in Int /\ t \in Nat
  BY FieldTypes
<1>3. r = k + (IF n < m THEN m - n ELSE 0) + (IF ticket[b].pc = "sub" THEN m - t ELSE 0)
  BY DEF Exact, Unclaimed, Taken
<1>4. ticket[b].pc = "sub" => t < m
  BY DEF Cancelling
<1> HIDE DEF k, n, m, r, t
<1>5. r = 0 => k = 0 /\ ~(n < m) /\ ticket[b].pc # "sub"
  BY <1>1, <1>2, <1>3, <1>4
<1>6. r # 0 => k # 0 \/ n < m \/ ticket[b].pc = "sub"
  BY <1>1, <1>2, <1>3
<1> QED BY <1>1, <1>2, <1>5, <1>6 DEF n, m, r

-----------------------------------------------------------------------------
(* Steps that are about another batch, and the last reference of one.        *)

\* The workers that hold a clone of b or are about to notify its owner.
About(w, b) == worker[w].pc \in Holding \cup {"notify"} /\ worker[w].batch = b

\* A step that changes nothing that is about c keeps what is known of it.
LEMMA Elsewhere ==
  ASSUME NEW c \in Batches, Sound(c), batch'[c] = batch[c], ticket'[c] = ticket[c],
         Queued(c)' <=> Queued(c),
         \A v \in Workers : About(v, c) \/ About(v, c)' => worker'[v] = worker[v]
  PROVE  Sound(c)'
<1>1. \A v \in Workers : HeldBy(v, c) \/ HeldBy(v, c)' => worker'[v] = worker[v]
  BY DEF HeldBy, About
<1>2. \A v \in Workers : HeldBy(v, c)' <=> HeldBy(v, c)
  BY <1>1 DEF HeldBy
<1>3. PoolHolds(c)' <=> PoolHolds(c)
  BY <1>2 DEF PoolHolds
<1>4. Referenced(c)' <=> Referenced(c)
  BY <1>3 DEF Referenced
<1>5. InFlight(c)' = InFlight(c)
  BY <1>1, <1>2 DEF InFlight
<1>6. Blank(c)' /\ Cancelling(c)' /\ Published(c)' /\ Served(c)'
  BY <1>3, <1>4 DEF Sound, Blank, Cancelling, Published, Served
<1>7. Exact(c)'
  BY <1>4, <1>5 DEF Sound, Exact, Unclaimed, Taken
<1>8. Placed(c)'
  BY <1>1, <1>2 DEF Sound, Placed
<1>9. Landing(c)'
  BY <1>1, <1>2, <1>4 DEF Sound, Landing
<1>10. Awaited(c)'
  BY DEF Sound, Awaited, About, Holding
<1> QED BY <1>6, <1>7, <1>8, <1>9, <1>10 DEF Sound

\* Nothing is claimed of a batch with no reference, unless it is submitted.
LEMMA Unclaimable ==
  ASSUME NEW c \in Batches, ~Referenced(c)', ticket'[c].pc \notin {"acquire", "alloc"}
  PROVE  Sound(c)'
  BY DEF Sound, Blank, Exact, Cancelling, Placed, Landing, Served, Awaited, Published,
         Referenced, PoolHolds, Owning

-----------------------------------------------------------------------------
(* Queues and clones.                                                        *)

\* Pushing one batch moves no other one in or out of a queue.
LEMMA AppendOthers ==
  ASSUME NEW S, NEW q \in Seq(S), NEW x \in S, NEW c
  PROVE  Within(c, Append(q, x)) <=> Within(c, q) \/ c = x
<1>1. Len(Append(q, x)) = Len(q) + 1 /\ Append(q, x)[Len(q) + 1] = x
  OBVIOUS
<1>2. \A i \in 1 .. Len(q) : Append(q, x)[i] = q[i] /\ i \in 1 .. Len(Append(q, x))
  OBVIOUS
<1>3. Within(c, q) \/ c = x => Within(c, Append(q, x))
  BY <1>1, <1>2 DEF Within
<1> QED BY <1>3, WithinAppend

\* Popping moves at most the batch popped out of a queue.
LEMMA TailOthers ==
  ASSUME NEW S, NEW q \in Seq(S), q # <<>>, NEW c, c # Head(q)
  PROVE  Within(c, Tail(q)) <=> Within(c, q)
<1>1. ASSUME NEW i \in 1 .. Len(q), q[i] = c
      PROVE  i - 1 \in 1 .. Len(Tail(q)) /\ Tail(q)[i - 1] = c
  <2>1. i # 1
    BY <1>1
  <2> QED BY <1>1, <2>1
<1>2. Within(c, q) => Within(c, Tail(q))
  BY <1>1 DEF Within
<1> QED BY <1>2, WithinTail

\* Pushing the clones of a submission queues it, if there is one, and moves no
\* other batch.
LEMMA CopiesOthers ==
  ASSUME NEW S, NEW q \in Seq(S), NEW x \in S, NEW n \in Nat, NEW c
  PROVE  Within(c, q \o [i \in 1 .. n |-> x]) <=> Within(c, q) \/ (c = x /\ n > 0)
<1> DEFINE p == [i \in 1 .. n |-> x]
<1>1. p \in Seq(S) /\ Len(p) = n /\ \A i \in 1 .. n : p[i] = x
  OBVIOUS
<1> HIDE DEF p
<1>2. /\ Len(q \o p) = Len(q) + n
      /\ \A i \in 1 .. Len(q) : (q \o p)[i] = q[i]
      /\ \A i \in Len(q) + 1 .. Len(q) + n : (q \o p)[i] = p[i - Len(q)]
  BY <1>1
<1>3. Within(c, q) => Within(c, q \o p)
  BY <1>2 DEF Within
<1>4. c = x /\ n > 0 => Within(c, q \o p)
  <2> SUFFICES ASSUME c = x, n > 0 PROVE Within(c, q \o p)
    OBVIOUS
  <2>1. /\ Len(q) + 1 \in Len(q) + 1 .. Len(q) + n /\ (Len(q) + 1) - Len(q) = 1
        /\ Len(q) + 1 \in 1 .. Len(q) + n /\ 1 \in 1 .. n
    OBVIOUS
  <2>2. (q \o p)[Len(q) + 1] = c
    BY <1>1, <1>2, <2>1
  <2> QED BY <1>2, <2>1, <2>2 DEF Within
<1>5. Within(c, q \o p) => Within(c, q) \/ (c = x /\ n > 0)
  <2> SUFFICES ASSUME NEW i \in 1 .. Len(q) + n, (q \o p)[i] = c
               PROVE  Within(c, q) \/ (c = x /\ n > 0)
    BY <1>2 DEF Within
  <2>1. CASE i <= Len(q)
    BY <1>2, <2>1 DEF Within
  <2>2. CASE i > Len(q)
    <3>1. i \in Len(q) + 1 .. Len(q) + n /\ i - Len(q) \in 1 .. n
      BY <2>2
    <3> QED BY <1>1, <1>2, <3>1
  <2> QED BY <2>1, <2>2
<1> QED BY <1>3, <1>4, <1>5 DEF p

\* Only Pop, Requeue, DropIdle and DropFinished move clones; a worker whose
\* place stays a Holding one keeps its clone.
LEMMA PoolStays ==
  ASSUME TInv, NEW w \in Workers, Work(w), NEW c \in Batches, PoolHolds(c),
         ~(DropIdle(w) \/ DropFinished(w)) \/ worker[w].batch # c
  PROVE  PoolHolds(c)'
<1>f. /\ worker \in [Workers -> WorkerRecord]
      /\ demandQ \in Seq(Batches) /\ prefetchQ \in Seq(Batches)
  BY DEF TInv, TypeOK
<1>1. CASE Pop(w)
  <2>1. PICK h \in Batches :
          /\ worker' = [worker EXCEPT ![w] = Start(h)]
          /\ \A d \in Batches : d # h => (Queued(d)' <=> Queued(d))
    <3>1. ASSUME NEW q \in Seq(Batches), q # <<>>
          PROVE  /\ Head(q) \in Batches
                 /\ \A d \in Batches : d # Head(q) => (Within(d, Tail(q)) <=> Within(d, q))
      BY <3>1, WithinHead, TailOthers
    <3>2. CASE TakesDemand
      <4>1. /\ worker' = [worker EXCEPT ![w] = Start(Head(demandQ))]
            /\ demandQ' = Tail(demandQ) /\ prefetchQ' = prefetchQ /\ demandQ # <<>>
        BY <1>1, <3>2 DEF Pop, TakesDemand
      <4> QED BY <1>f, <3>1, <4>1 DEF Queued
    <3>3. CASE ~TakesDemand
      <4>1. /\ worker' = [worker EXCEPT ![w] = Start(Head(prefetchQ))]
            /\ prefetchQ' = Tail(prefetchQ) /\ demandQ' = demandQ /\ prefetchQ # <<>>
        BY <1>1, <3>3 DEF Pop
      <4> QED BY <1>f, <3>1, <4>1 DEF Queued
    <3> QED BY <3>2, <3>3
  <2>2. HeldBy(w, h)'
    BY <1>f, <2>1 DEF HeldBy, Start, Holding
  <2>3. ASSUME NEW v \in Workers, HeldBy(v, c)
        PROVE  HeldBy(v, c)'
    BY <1>1, <1>f, <2>1, <2>3 DEF HeldBy, Pop, Holding, Running
  <2> QED BY <2>1, <2>2, <2>3 DEF PoolHolds
<1>2. CASE Requeue(w)
  <2>1. worker[w].batch \in Batches
    BY <1>2 DEF Requeue, Holding, TInv, WorkerInv
  <2>2. Queued(c)' <=> Queued(c) \/ c = worker[w].batch
    <3>1. \/ demandQ' = Append(demandQ, worker[w].batch) /\ prefetchQ' = prefetchQ
          \/ prefetchQ' = Append(prefetchQ, worker[w].batch) /\ demandQ' = demandQ
      BY <1>2 DEF Requeue
    <3>2. /\ Within(c, Append(demandQ, worker[w].batch))
               <=> Within(c, demandQ) \/ c = worker[w].batch
          /\ Within(c, Append(prefetchQ, worker[w].batch))
               <=> Within(c, prefetchQ) \/ c = worker[w].batch
      BY <1>f, <2>1, AppendOthers
    <3>3. \/ /\ Within(c, demandQ)' <=> Within(c, Append(demandQ, worker[w].batch))
             /\ Within(c, prefetchQ)' <=> Within(c, prefetchQ)
          \/ /\ Within(c, prefetchQ)' <=> Within(c, Append(prefetchQ, worker[w].batch))
             /\ Within(c, demandQ)' <=> Within(c, demandQ)
      BY <3>1 DEF Within
    <3> QED BY <3>2, <3>3 DEF Queued
  <2>3. ASSUME NEW v \in Workers, HeldBy(v, c), c # worker[w].batch
        PROVE  HeldBy(v, c)'
    BY <1>2, <1>f, <2>3 DEF HeldBy, Requeue
  <2> QED BY <2>2, <2>3 DEF PoolHolds
<1>3. CASE ~Pop(w) /\ ~Requeue(w)
  <2>1. UNCHANGED <<demandQ, prefetchQ>>
    BY <1>3 DEF Work, Exit, Claim, JobOk, JobFail, Note, CountDown, QuantumEnd, DropIdle,
                DropFinished, Notify, poolVars
  <2>2. Queued(c)' <=> Queued(c)
    BY <2>1 DEF Queued, Within
  <2>3. ASSUME NEW v \in Workers, HeldBy(v, c)
        PROVE  HeldBy(v, c)'
    <3>1. CASE v # w
      BY <1>3, <1>f, <2>3, <3>1 DEF HeldBy, Work, Exit, Claim, JobOk, JobFail, Note, CountDown,
         QuantumEnd, DropIdle, DropFinished, Notify
    <3>2. CASE v = w /\ (Exit(w) \/ DropIdle(w) \/ DropFinished(w) \/ Notify(w))
      BY <1>f, <2>3, <3>2 DEF HeldBy, Exit, Notify, Holding, Running, WorkerRecord
    <3>3. CASE v = w /\ (Claim(w) \/ JobOk(w) \/ JobFail(w) \/ Note(w) \/ QuantumEnd(w))
      BY <1>f, <2>3, <3>3 DEF HeldBy, Claim, JobOk, JobFail, Note, QuantumEnd, Holding, Running,
         WorkerRecord
    <3>4. CASE v = w /\ CountDown(w)
      BY <1>f, <2>3, <3>4 DEF HeldBy, CountDown, Holding, Running
    <3> QED BY <1>3, <3>1, <3>2, <3>3, <3>4 DEF Work
  <2> QED BY <2>2, <2>3 DEF PoolHolds
<1> QED BY <1>1, <1>2, <1>3

\* A worker's step at most wakes owners.
LEMMA WorkerOwners ==
  ASSUME TInv, NEW w \in Workers, Work(w), NEW c \in Batches
  PROVE  /\ ticket'[c].seen = ticket[c].seen
         /\ \/ ticket'[c].pc = ticket[c].pc
            \/ ticket[c].pc = "asleep" /\ ticket'[c].pc = "check"
<1>f. ticket \in [Batches -> TicketRecord]
  BY DEF TInv, TypeOK
<1>1. ticket' = ticket \/ ticket' = Wake(worker[w].batch)
  BY DEF Work, Pop, Exit, Claim, JobOk, JobFail, Note, CountDown, QuantumEnd, Requeue,
         DropIdle, DropFinished, Notify
<1> QED BY <1>f, <1>1 DEF Wake, TicketRecord

-----------------------------------------------------------------------------
(* A worker's steps, for the batch of its clone.                             *)

\* What every step of a worker that holds a clone of b leaves as it is.
LEMMA WorkerKeeps ==
  ASSUME TInv, SlotInv, NEW w \in Workers, Work(w), NEW b \in Batches, HeldBy(w, b), Sound(b),
         batch'[b].njobs = batch[b].njobs, batch'[b].cancelled = batch[b].cancelled
  PROVE  /\ Referenced(b) /\ Blank(b)' /\ Cancelling(b)' /\ Taken(b)' = Taken(b)
         /\ \A v \in Workers \ {w} : /\ worker'[v] = worker[v]
                                     /\ HeldBy(v, b)' <=> HeldBy(v, b)
         /\ Referenced(b)' \/ DropIdle(w) \/ DropFinished(w)
<1>1. PoolHolds(b)
  BY DEF PoolHolds
<1>2. ticket[b].pc \notin {"acquire", "alloc"}
  BY <1>1 DEF SlotInv, FreshInv
<1>3. /\ ticket'[b].seen = ticket[b].seen
      /\ \/ ticket'[b].pc = ticket[b].pc
         \/ ticket[b].pc = "asleep" /\ ticket'[b].pc = "check"
  BY WorkerOwners
<1>4. Blank(b)' /\ Cancelling(b)' /\ Taken(b)' = Taken(b)
  BY <1>2, <1>3 DEF Sound, Blank, Cancelling, Taken
<1>5. \A v \in Workers \ {w} : worker'[v] = worker[v]
  BY DEF TInv, TypeOK, Work, Pop, Exit, Claim, JobOk, JobFail, Note, CountDown, QuantumEnd,
         Requeue, DropIdle, DropFinished, Notify
<1>6. \A v \in Workers \ {w} : HeldBy(v, b)' <=> HeldBy(v, b)
  BY <1>5 DEF HeldBy
<1>7. PoolHolds(b)' \/ DropIdle(w) \/ DropFinished(w)
  BY <1>1, PoolStays
<1> QED BY <1>1, <1>4, <1>5, <1>6, <1>7 DEF Referenced

\* fetch_add on next_job: the job claimed is counted as in flight.
LEMMA ClaimSound ==
  ASSUME TInv, SlotInv, NEW w \in Workers, Claim(w), NEW b \in Batches, worker[w].batch = b,
         Sound(b)
  PROVE  Sound(b)'
<1>f. /\ worker \in [Workers -> WorkerRecord] /\ batch \in [Batches -> BatchRecord]
      /\ ticket \in [Batches -> TicketRecord] /\ TypeOK
  BY DEF TInv, TypeOK
<1> DEFINE n == batch[b].next
           m == batch[b].njobs
<1>n. n \in Nat /\ m \in Nat
  BY <1>f, FieldTypes
<1>1. HeldBy(w, b) /\ worker[w].pc = "claim"
  BY DEF Claim, HeldBy, Holding
<1>2. batch' = [batch EXCEPT ![b].next = n + 1] /\ ticket' = ticket
  BY DEF Claim
<1>3. /\ batch'[b].next = n + 1 /\ batch'[b].njobs = m
      /\ batch'[b].remaining = batch[b].remaining
      /\ batch'[b].cancelled = batch[b].cancelled /\ batch'[b].failed = batch[b].failed
      /\ batch'[b].noted = batch[b].noted /\ batch'[b].landed = batch[b].landed
  BY <1>f, <1>2 DEF BatchRecord
<1>4. /\ worker'[w].batch = b
      /\ \/ n < m /\ worker'[w].pc = "run" /\ worker'[w].job = n
         \/ ~(n < m) /\ worker'[w].pc = "drop"
  BY <1>f DEF Claim, WorkerRecord
<1> HIDE DEF n, m
<1>5. HeldBy(w, b)'
  BY <1>4 DEF HeldBy, Holding, Running
<1>6. /\ Referenced(b) /\ Blank(b)' /\ Cancelling(b)' /\ Taken(b)' = Taken(b)
      /\ \A v \in Workers \ {w} : worker'[v] = worker[v] /\ (HeldBy(v, b)' <=> HeldBy(v, b))
  BY <1>1, <1>3, WorkerKeeps DEF Work, m
<1>7. Exact(b)'
  <2>1. w \notin InFlight(b)
    BY <1>1 DEF InFlight, Running
  <2>2. batch[b].remaining = Cardinality(InFlight(b)) + Unclaimed(b) + Taken(b)
    BY <1>6 DEF Sound, Exact
  <2>3. Cardinality(InFlight(b)) \in Nat /\ IsFiniteSet(InFlight(b))
    BY FlightFinite
  <2>4. Taken(b) \in Int
    BY <1>f, FieldTypes DEF Taken
  <2>5. Unclaimed(b) = (IF n < m THEN m - n ELSE 0)
    BY DEF Unclaimed, n, m
  <2>6. Unclaimed(b)' = (IF n + 1 < m THEN m - (n + 1) ELSE 0)
    BY <1>3 DEF Unclaimed
  <2>7. CASE n < m
    <3>1. InFlight(b)' = InFlight(b) \cup {w}
      BY <1>4, <1>5, <1>6, <2>7 DEF InFlight, Running
    <3>2. Cardinality(InFlight(b)') = Cardinality(InFlight(b)) + 1
      BY <2>1, <2>3, <3>1, FS_AddElement
    <3> QED BY <1>n, <1>3, <1>6, <2>2, <2>3, <2>4, <2>5, <2>6, <2>7, <3>2 DEF Exact
  <2>8. CASE ~(n < m)
    <3>1. InFlight(b)' = InFlight(b)
      BY <1>1, <1>4, <1>5, <1>6, <2>8 DEF InFlight, Running
    <3> QED BY <1>n, <1>3, <1>6, <2>2, <2>3, <2>4, <2>5, <2>6, <2>8, <3>1 DEF Exact
  <2> QED BY <2>7, <2>8
<1>8. Placed(b)'
  <2> SUFFICES ASSUME NEW v \in Workers, HeldBy(v, b)'
               PROVE  /\ worker'[v].pc \in Running => worker'[v].job < batch'[b].njobs
                      /\ worker'[v].pc = "drop" => batch'[b].next >= batch'[b].njobs
                      /\ worker'[v].pc = "finish" => batch'[b].remaining = 0
    BY DEF Placed
  <2>1. CASE v = w
    BY <1>n, <1>3, <1>4, <2>1 DEF Running
  <2>2. CASE v # w
    <3>1. /\ worker[v].pc \in Running => worker[v].job < m
          /\ worker[v].pc = "drop" => n >= m
          /\ worker[v].pc = "finish" => batch[b].remaining = 0
      BY <1>6, <2>2 DEF Sound, Placed, n, m
    <3> QED BY <1>n, <1>3, <1>6, <2>2, <3>1
  <2> QED BY <2>1, <2>2
<1>9. Landing(b)'
  <2>1. /\ batch[b].landed \subseteq 0 .. m - 1
        /\ ~batch[b].failed =>
             /\ batch[b].noted \subseteq batch[b].landed
             /\ \A v \in Workers : HeldBy(v, b) /\ worker[v].pc \in {"note", "dec"} =>
                  worker[v].job \in batch[b].landed
    BY <1>6 DEF Sound, Landing, m
  <2>2. ASSUME ~batch[b].failed, ~batch[b].cancelled, NEW i \in 0 .. m - 1, i < n + 1
        PROVE  \/ i \in batch[b].landed
               \/ \E v \in Workers : HeldBy(v, b)' /\ worker'[v].pc = "run" /\ worker'[v].job = i
    <3>1. CASE i < n
      <4>1. \/ i \in batch[b].landed
            \/ \E v \in Workers : HeldBy(v, b) /\ worker[v].pc = "run" /\ worker[v].job = i
        BY <1>6, <2>2, <3>1 DEF Sound, Landing, n, m
      <4> QED BY <1>1, <1>6, <4>1
    <3>2. CASE i = n
      BY <1>4, <1>5, <1>n, <3>2
    <3> QED BY <1>n, <2>2, <3>1, <3>2
  <2>3. ASSUME NEW v \in Workers, HeldBy(v, b)', worker'[v].pc \in {"note", "dec"}
        PROVE  HeldBy(v, b) /\ worker[v] = worker'[v]
    BY <1>4, <1>6, <2>3
  <2> QED BY <1>3, <2>1, <2>2, <2>3 DEF Landing
<1>10. Served(b)'
  BY <1>5 DEF Served, PoolHolds
<1>11. Awaited(b)'
  BY <1>1, <1>2, <1>3, <1>6 DEF Sound, Awaited
<1>12. Published(b)'
  BY <1>2, <1>3 DEF Sound, Published, m
<1> QED BY <1>6, <1>7, <1>8, <1>9, <1>10, <1>11, <1>12 DEF Sound

\* A step that leaves the counters and the jobs in flight alone.
LEMMA SameCount ==
  ASSUME NEW b \in Batches, Referenced(b)' => Referenced(b), Exact(b),
         batch'[b].next = batch[b].next, batch'[b].njobs = batch[b].njobs,
         batch'[b].remaining = batch[b].remaining,
         Taken(b)' = Taken(b), InFlight(b)' = InFlight(b)
  PROVE  Exact(b)'
<1>1. Unclaimed(b)' = Unclaimed(b)
  BY DEF Unclaimed
<1> QED BY <1>1 DEF Exact

\* run_job and note_source_progress: a byte is reported only once it is there.
LEMMA ReadSound ==
  ASSUME TInv, SlotInv, NEW w \in Workers, JobOk(w) \/ JobFail(w) \/ Note(w),
         NEW b \in Batches, worker[w].batch = b, Sound(b)
  PROVE  Sound(b)'
<1>f. /\ worker \in [Workers -> WorkerRecord] /\ batch \in [Batches -> BatchRecord]
      /\ ticket \in [Batches -> TicketRecord] /\ TypeOK
  BY DEF TInv, TypeOK
<1> DEFINE B == batch[b]
           C == batch'[b]
           j == worker[w].job
<1>n. B.next \in Nat /\ B.njobs \in Nat /\ j \in Nat
  BY <1>f, FieldTypes DEF WorkerRecord
<1>1. HeldBy(w, b) /\ worker[w].pc \in Running
  BY DEF JobOk, JobFail, Note, HeldBy, Holding, Running
<1>2. /\ C.next = B.next /\ C.njobs = B.njobs /\ C.remaining = B.remaining
      /\ C.cancelled = B.cancelled
  BY <1>f DEF JobOk, JobFail, Note, BatchRecord
<1>3. /\ worker'[w].batch = b /\ worker'[w].job = j
      /\ \/ JobOk(w) /\ worker[w].pc = "run" /\ worker'[w].pc = "note"
         \/ JobFail(w) /\ worker[w].pc = "run" /\ worker'[w].pc = "note"
         \/ Note(w) /\ worker[w].pc = "note" /\ worker'[w].pc = "dec"
  BY <1>f DEF JobOk, JobFail, Note, WorkerRecord
<1>4. /\ JobOk(w) => C.landed = B.landed \cup {j} /\ C.noted = B.noted /\ C.failed = B.failed
      /\ JobFail(w) => C.landed = B.landed /\ C.noted = B.noted /\ C.failed
      /\ Note(w) => C.landed = B.landed /\ C.noted = B.noted \cup {j} /\ C.failed = B.failed
  BY <1>f DEF JobOk, JobFail, Note, BatchRecord
<1>5. HeldBy(w, b)'
  BY <1>3 DEF HeldBy, Holding, Running
<1>6. /\ Referenced(b) /\ Blank(b)' /\ Cancelling(b)' /\ Taken(b)' = Taken(b)
      /\ \A v \in Workers \ {w} : worker'[v] = worker[v] /\ (HeldBy(v, b)' <=> HeldBy(v, b))
  BY <1>1, <1>2, WorkerKeeps DEF Work
<1>7. \A c \in Batches : \/ ticket'[c].pc = ticket[c].pc
                         \/ ticket[c].pc = "asleep" /\ ticket'[c].pc = "check"
  BY WorkerOwners DEF Work
<1> HIDE DEF B, C, j
<1>8. Exact(b)'
  <2>1. InFlight(b)' = InFlight(b)
    BY <1>1, <1>3, <1>5, <1>6 DEF InFlight, Running
  <2> QED BY <1>2, <1>6, <2>1, SameCount DEF Sound, B, C
<1>9. Placed(b)'
  <2> SUFFICES ASSUME NEW v \in Workers, HeldBy(v, b)'
               PROVE  /\ worker'[v].pc \in Running => worker'[v].job < C.njobs
                      /\ worker'[v].pc = "drop" => C.next >= C.njobs
                      /\ worker'[v].pc = "finish" => C.remaining = 0
    BY DEF Placed, C
  <2>1. \A u \in Workers : HeldBy(u, b) =>
          /\ worker[u].pc \in Running => worker[u].job < B.njobs
          /\ worker[u].pc = "drop" => B.next >= B.njobs
          /\ worker[u].pc = "finish" => B.remaining = 0
    BY DEF Sound, Placed, B
  <2>2. CASE v = w
    BY <1>1, <1>2, <1>3, <2>1, <2>2 DEF j
  <2>3. CASE v # w
    BY <1>2, <1>6, <2>1, <2>3
  <2> QED BY <2>2, <2>3
<1>10. Landing(b)'
  <2>1. /\ B.landed \subseteq 0 .. B.njobs - 1
        /\ ~B.failed =>
             /\ B.noted \subseteq B.landed
             /\ \A v \in Workers : HeldBy(v, b) /\ worker[v].pc \in {"note", "dec"} =>
                  worker[v].job \in B.landed
        /\ ~B.failed /\ ~B.cancelled =>
             \A i \in 0 .. B.njobs - 1 : i < B.next =>
               \/ i \in B.landed
               \/ \E v \in Workers : HeldBy(v, b) /\ worker[v].pc = "run" /\ worker[v].job = i
    BY <1>6 DEF Sound, Landing, B
  <2>2. j \in 0 .. B.njobs - 1
    BY <1>1, <1>n DEF Sound, Placed, B, j
  <2>3. C.landed \subseteq 0 .. C.njobs - 1 /\ B.landed \subseteq C.landed
    BY <1>2, <1>3, <1>4, <2>1, <2>2
  <2>4. ASSUME ~C.failed
        PROVE  /\ C.noted \subseteq C.landed
               /\ \A v \in Workers : HeldBy(v, b)' /\ worker'[v].pc \in {"note", "dec"} =>
                    worker'[v].job \in C.landed
    <3>1. ~B.failed /\ ~JobFail(w)
      BY <1>3, <1>4, <2>4
    <3>2. j \in C.landed
      BY <1>1, <1>3, <1>4, <2>1, <3>1 DEF j
    <3>3. C.noted \subseteq C.landed
      BY <1>3, <1>4, <2>1, <2>3, <3>1, <3>2
    <3>4. ASSUME NEW v \in Workers, HeldBy(v, b)', worker'[v].pc \in {"note", "dec"}
          PROVE  worker'[v].job \in C.landed
      BY <1>3, <1>6, <2>1, <2>3, <3>1, <3>2, <3>4
    <3> QED BY <3>3, <3>4
  <2>5. ASSUME ~C.failed, ~C.cancelled, NEW i \in 0 .. C.njobs - 1, i < C.next
        PROVE  \/ i \in C.landed
               \/ \E v \in Workers : HeldBy(v, b)' /\ worker'[v].pc = "run" /\ worker'[v].job = i
    <3>1. ~B.failed /\ ~JobFail(w) /\ ~B.cancelled
      BY <1>2, <1>3, <1>4, <2>5
    <3>2. CASE i \in B.landed
      BY <2>3, <3>2
    <3>3. ASSUME NEW v \in Workers, HeldBy(v, b), worker[v].pc = "run", worker[v].job = i
          PROVE  \/ i \in C.landed
                 \/ HeldBy(v, b)' /\ worker'[v].pc = "run" /\ worker'[v].job = i
      <4>1. CASE v = w
        BY <1>3, <1>4, <3>1, <3>3, <4>1 DEF j
      <4>2. CASE v # w
        BY <1>6, <3>3, <4>2
      <4> QED BY <4>1, <4>2
    <3> QED BY <1>2, <2>1, <2>5, <3>1, <3>2, <3>3
  <2> QED BY <2>3, <2>4, <2>5 DEF Landing, C
<1>11. Served(b)'
  BY <1>5 DEF Served, PoolHolds
<1>12. Awaited(b)'
  BY <1>2, <1>3, <1>6, <1>7 DEF Sound, Awaited, Running, B, C
<1>13. Published(b)'
  <2>1. B.remaining # 0
    BY <1>1, <1>6, <1>f, CountedDown DEF Sound, InFlight, B
  <2> QED BY <1>7, <2>1 DEF Sound, Published, B
<1> QED BY <1>6, <1>8, <1>9, <1>10, <1>11, <1>12, <1>13 DEF Sound

\* What Landing says when no worker reaches note or dec and none leaves run.
LEMMA SameLanding ==
  ASSUME NEW b \in Batches, Referenced(b)' => Referenced(b), Landing(b),
         batch'[b].next = batch[b].next, batch'[b].njobs = batch[b].njobs,
         batch'[b].landed = batch[b].landed, batch'[b].noted = batch[b].noted,
         batch'[b].failed = batch[b].failed, batch[b].cancelled => batch'[b].cancelled,
         \A v \in Workers : HeldBy(v, b)' /\ worker'[v].pc \in {"note", "dec"} =>
           HeldBy(v, b) /\ worker'[v] = worker[v],
         \A v \in Workers : HeldBy(v, b) /\ worker[v].pc = "run" =>
           HeldBy(v, b)' /\ worker'[v] = worker[v]
  PROVE  Landing(b)'
  BY DEF Landing

\* fetch_sub on remaining: the job counted is no longer in flight, and the
\* worker that counts the last one finishes the batch.
LEMMA CountDownSound ==
  ASSUME TInv, SlotInv, NEW w \in Workers, CountDown(w), NEW b \in Batches,
         worker[w].batch = b, Sound(b)
  PROVE  Sound(b)'
<1>f. /\ worker \in [Workers -> WorkerRecord] /\ batch \in [Batches -> BatchRecord]
      /\ ticket \in [Batches -> TicketRecord] /\ TypeOK
  BY DEF TInv, TypeOK
<1> DEFINE r == batch[b].remaining
           k == Cardinality(InFlight(b))
<1>n. r \in Int /\ k \in Nat /\ IsFiniteSet(InFlight(b))
  BY <1>f, FieldTypes, FlightFinite
<1>1. HeldBy(w, b) /\ worker[w].pc = "dec" /\ w \in InFlight(b)
  BY DEF CountDown, HeldBy, Holding, Running, InFlight
<1>2. batch' = [batch EXCEPT ![b].remaining = @ - 1] /\ ticket' = ticket
  BY DEF CountDown
<1>3. /\ batch'[b].next = batch[b].next /\ batch'[b].njobs = batch[b].njobs
      /\ batch'[b].remaining = r - 1
      /\ batch'[b].cancelled = batch[b].cancelled /\ batch'[b].failed = batch[b].failed
      /\ batch'[b].noted = batch[b].noted /\ batch'[b].landed = batch[b].landed
  BY <1>f, <1>2 DEF BatchRecord
<1>4. /\ worker'[w].batch = b
      /\ worker'[w].pc = "finish" <=> r = 1
      /\ worker'[w].pc \in {"finish", "claim", "more"}
  <2> DEFINE after == IF r = 1 THEN "finish"
                      ELSE IF worker[w].left > 1 THEN "claim" ELSE "more"
  <2>1. worker' = [worker EXCEPT ![w] =
                     [pc |-> after, batch |-> b, job |-> 0, left |-> @.left - 1]]
    BY DEF CountDown
  <2>2. after \in {"finish", "claim", "more"} /\ (r = 1 => after = "finish")
    OBVIOUS
  <2>3. r # 1 => after # "finish"
    OBVIOUS
  <2> HIDE DEF after
  <2>4. worker'[w].pc = after /\ worker'[w].batch = b
    BY <1>f, <2>1
  <2> QED BY <2>2, <2>3, <2>4
<1> HIDE DEF r, k
<1>5. HeldBy(w, b)'
  BY <1>4 DEF HeldBy, Holding, Running
<1>6. /\ Referenced(b) /\ Blank(b)' /\ Cancelling(b)' /\ Taken(b)' = Taken(b)
      /\ \A v \in Workers \ {w} : worker'[v] = worker[v] /\ (HeldBy(v, b)' <=> HeldBy(v, b))
  BY <1>1, <1>3, WorkerKeeps DEF Work
<1>7. r # 0
  BY <1>1, <1>6, <1>f, CountedDown DEF Sound, r
<1>8. Exact(b)'
  <2>1. InFlight(b)' = InFlight(b) \ {w}
    BY <1>1, <1>4, <1>5, <1>6 DEF InFlight, Running
  <2>2. Cardinality(InFlight(b)') = k - 1
    <3>1. PICK S : S = InFlight(b)
      OBVIOUS
    <3>2. Cardinality(S \ {w}) = Cardinality(S) - 1
      BY <1>1, <1>n, <3>1, FS_RemoveElement
    <3> QED BY <2>1, <3>1, <3>2 DEF k
  <2>3. r = k + Unclaimed(b) + Taken(b)
    BY <1>6 DEF Sound, Exact, r, k
  <2>4. Unclaimed(b)' = Unclaimed(b)
    BY <1>3 DEF Unclaimed
  <2>5. Unclaimed(b) \in Int /\ Taken(b) \in Int
    BY <1>f, FieldTypes DEF Unclaimed, Taken
  <2>6. r - 1 = (k - 1) + Unclaimed(b) + Taken(b)
    BY <1>n, <2>3, <2>5
  <2> QED BY <1>3, <1>6, <2>2, <2>4, <2>6 DEF Exact
<1>9. Placed(b)'
  <2> SUFFICES ASSUME NEW v \in Workers, HeldBy(v, b)'
               PROVE  /\ worker'[v].pc \in Running => worker'[v].job < batch'[b].njobs
                      /\ worker'[v].pc = "drop" => batch'[b].next >= batch'[b].njobs
                      /\ worker'[v].pc = "finish" => batch'[b].remaining = 0
    BY DEF Placed
  <2>1. CASE v = w
    BY <1>n, <1>3, <1>4, <2>1 DEF Running
  <2>2. CASE v # w
    BY <1>3, <1>6, <1>7, <2>2 DEF Sound, Placed, r
  <2> QED BY <2>1, <2>2
<1>10. Landing(b)'
  BY <1>1, <1>3, <1>4, <1>6, SameLanding DEF Sound
<1>11. Served(b)'
  BY <1>5 DEF Served, PoolHolds
<1>12. Awaited(b)'
  BY <1>n, <1>3, <1>4 DEF Awaited
<1>13. Published(b)'
  BY <1>2, <1>7 DEF Sound, Published, r
<1> QED BY <1>6, <1>8, <1>9, <1>10, <1>11, <1>12, <1>13 DEF Sound

\* The end of a quantum and the requeue keep a clone with the pool.
LEMMA QuantumSound ==
  ASSUME TInv, SlotInv, NEW w \in Workers, QuantumEnd(w) \/ Requeue(w),
         NEW b \in Batches, worker[w].batch = b, Sound(b)
  PROVE  Sound(b)'
<1>f. /\ worker \in [Workers -> WorkerRecord] /\ batch \in [Batches -> BatchRecord]
      /\ ticket \in [Batches -> TicketRecord] /\ TypeOK
  BY DEF TInv, TypeOK
<1>1. HeldBy(w, b) /\ worker[w].pc \in {"more", "requeue"}
  BY DEF QuantumEnd, Requeue, HeldBy, Holding
<1>2. batch' = batch /\ ticket' = ticket
  BY DEF QuantumEnd, Requeue
<1>3. /\ worker'[w].pc \in {"requeue", "drop", "pop"}
      /\ worker'[w].pc = "drop" => ~(batch[b].next < batch[b].njobs)
  BY <1>f DEF QuantumEnd, Requeue, WorkerRecord, Parked
<1>4. /\ Referenced(b) /\ Blank(b)' /\ Cancelling(b)' /\ Taken(b)' = Taken(b)
      /\ \A v \in Workers \ {w} : worker'[v] = worker[v] /\ (HeldBy(v, b)' <=> HeldBy(v, b))
  BY <1>1, <1>2, WorkerKeeps DEF Work
<1>5. PoolHolds(b)'
  <2>1. PoolHolds(b) /\ ~DropIdle(w) /\ ~DropFinished(w)
    BY <1>1 DEF PoolHolds, DropIdle, DropFinished
  <2> QED BY <2>1, PoolStays DEF Work
<1>6. Exact(b)'
  <2>1. InFlight(b)' = InFlight(b)
    BY <1>1, <1>3, <1>4 DEF InFlight, Running
  <2> QED BY <1>2, <1>4, <2>1, SameCount DEF Sound
<1>7. Placed(b)'
  <2>1. batch[b].next \in Nat /\ batch[b].njobs \in Nat
    BY <1>f, FieldTypes
  <2>2. worker'[w].pc = "drop" => batch[b].next >= batch[b].njobs
    BY <1>3, <2>1
  <2> QED BY <1>2, <1>3, <1>4, <2>2 DEF Sound, Placed, Running
<1>8. Landing(b)'
  BY <1>1, <1>2, <1>3, <1>4, SameLanding DEF Sound
<1>9. Served(b)'
  BY <1>5 DEF Served
<1>10. Awaited(b)' /\ Published(b)'
  BY <1>1, <1>2, <1>4 DEF Sound, Awaited, Published
<1> QED BY <1>4, <1>6, <1>7, <1>8, <1>9, <1>10 DEF Sound

\* The end of a quantum with no job left: the clone goes, and with the last
\* reference the lease; a sleeper is notified after it.
LEMMA DropSound ==
  ASSUME TInv, SlotInv, NEW w \in Workers, DropIdle(w) \/ DropFinished(w),
         NEW b \in Batches, worker[w].batch = b, Sound(b)
  PROVE  Sound(b)'
<1>f. /\ worker \in [Workers -> WorkerRecord] /\ batch \in [Batches -> BatchRecord]
      /\ ticket \in [Batches -> TicketRecord] /\ TypeOK
  BY DEF TInv, TypeOK
<1>1. HeldBy(w, b) /\ worker[w].pc \in {"drop", "finish"} /\ PoolHolds(b) /\ Referenced(b)
  BY DEF DropIdle, DropFinished, HeldBy, Holding, PoolHolds, Referenced
<1>2. Release(b) /\ ticket' = ticket
  BY DEF DropIdle, DropFinished
<1>3. /\ worker'[w].pc \in {"pop", "notify"}
      /\ worker[w].pc = "finish" => worker'[w].pc = "notify" /\ worker'[w].batch = b
  BY <1>f DEF DropIdle, DropFinished, WorkerRecord, Parked
<1>4. \A v \in Workers \ {w} : worker'[v] = worker[v] /\ (HeldBy(v, b)' <=> HeldBy(v, b))
  BY <1>f DEF DropIdle, DropFinished, HeldBy
<1>5. ticket[b].pc \notin {"acquire", "alloc"}
  BY <1>1 DEF SlotInv, FreshInv
<1>6. CASE ~Referenced(b)'
  BY <1>2, <1>5, <1>6, Unclaimable
<1>7. CASE Referenced(b)'
  <2>1. batch' = batch
    BY <1>2, <1>7 DEF Release
  <2>2. ~HeldBy(w, b)'
    BY <1>3 DEF HeldBy, Holding, Running
  <2>3. batch[b].next \in Nat /\ batch[b].njobs \in Nat
    BY <1>f, FieldTypes
  <2>4. batch[b].next >= batch[b].njobs
    <3>1. CASE worker[w].pc = "drop"
      BY <1>1, <3>1 DEF Sound, Placed
    <3>2. CASE worker[w].pc = "finish"
      <4>1. batch[b].remaining = 0
        BY <1>1, <3>2 DEF Sound, Placed
      <4> QED BY <1>f, <1>1, <4>1, CountedDown DEF Sound
    <3> QED BY <1>1, <3>1, <3>2
  <2>5. Exact(b)'
    <3>1. InFlight(b)' = InFlight(b)
      BY <1>1, <1>4, <2>2 DEF InFlight, Running
    <3>2. Taken(b)' = Taken(b)
      BY <1>2, <2>1 DEF Taken
    <3> QED BY <1>1, <2>1, <3>1, <3>2, SameCount DEF Sound
  <2>6. Placed(b)'
    BY <1>4, <2>1, <2>2 DEF Sound, Placed
  <2>7. Landing(b)'
    BY <1>1, <1>4, <2>1, <2>2, SameLanding DEF Sound
  <2>8. Served(b)'
    BY <2>1, <2>3, <2>4 DEF Served
  <2>9. Awaited(b)'
    BY <1>1, <1>2, <1>3, <1>4, <2>1 DEF Sound, Awaited
  <2>10. Blank(b)' /\ Cancelling(b)' /\ Published(b)'
    BY <1>2, <2>1 DEF Sound, Blank, Cancelling, Published
  <2> QED BY <2>5, <2>6, <2>7, <2>8, <2>9, <2>10 DEF Sound
<1> QED BY <1>6, <1>7

\* A worker that pops a clone moves it from the queue into its hands.
LEMMA PopSound ==
  ASSUME TInv, SlotInv, SoundInv, NEW w \in Workers, Pop(w)
  PROVE  SoundInv'
<1>f. /\ worker \in [Workers -> WorkerRecord] /\ batch \in [Batches -> BatchRecord]
      /\ ticket \in [Batches -> TicketRecord] /\ TypeOK
      /\ demandQ \in Seq(Batches) /\ prefetchQ \in Seq(Batches)
  BY DEF TInv, TypeOK
<1>1. PICK h \in Batches :
        /\ worker' = [worker EXCEPT ![w] = Start(h)]
        /\ Queued(h)
        /\ \A d \in Batches : d # h => (Queued(d)' <=> Queued(d))
  <2>1. ASSUME NEW q \in Seq(Batches), q # <<>>
        PROVE  /\ Head(q) \in Batches /\ Within(Head(q), q)
               /\ \A d \in Batches : d # Head(q) => (Within(d, Tail(q)) <=> Within(d, q))
    BY <2>1, WithinHead, TailOthers
  <2>2. CASE TakesDemand
    <3>1. /\ worker' = [worker EXCEPT ![w] = Start(Head(demandQ))]
          /\ demandQ' = Tail(demandQ) /\ prefetchQ' = prefetchQ /\ demandQ # <<>>
      BY <2>2 DEF Pop, TakesDemand
    <3> QED BY <1>f, <2>1, <3>1 DEF Queued
  <2>3. CASE ~TakesDemand
    <3>1. /\ worker' = [worker EXCEPT ![w] = Start(Head(prefetchQ))]
          /\ prefetchQ' = Tail(prefetchQ) /\ demandQ' = demandQ /\ prefetchQ # <<>>
      BY <2>3 DEF Pop
    <3> QED BY <1>f, <2>1, <3>1 DEF Queued
  <2> QED BY <2>2, <2>3
<1>2. batch' = batch /\ ticket' = ticket /\ worker[w].pc = "pop"
  BY DEF Pop
<1>3. /\ worker'[w].pc = "claim" /\ worker'[w].batch = h
      /\ \A v \in Workers \ {w} : worker'[v] = worker[v]
  BY <1>f, <1>1 DEF Start
<1>4. ASSUME NEW c \in Batches, c # h
      PROVE  Sound(c)'
  <2>1. \A v \in Workers : About(v, c) \/ About(v, c)' => worker'[v] = worker[v]
    BY <1>2, <1>3, <1>4 DEF About, Holding, Running
  <2> QED BY <1>1, <1>2, <1>4, <2>1, Elsewhere DEF SoundInv
<1>5. Sound(h)'
  <2>1. Sound(h) /\ Referenced(h)
    BY <1>1 DEF SoundInv, Referenced, PoolHolds
  <2>2. /\ ~HeldBy(w, h) /\ HeldBy(w, h)'
        /\ \A v \in Workers \ {w} : HeldBy(v, h)' <=> HeldBy(v, h)
    BY <1>2, <1>3 DEF HeldBy, Holding, Running
  <2>3. Exact(h)'
    <3>1. InFlight(h)' = InFlight(h)
      BY <1>3, <2>2 DEF InFlight, Running
    <3>2. Taken(h)' = Taken(h)
      BY <1>2 DEF Taken
    <3> QED BY <1>2, <2>1, <3>1, <3>2, SameCount DEF Sound
  <2>4. Placed(h)'
    BY <1>2, <1>3, <2>1, <2>2 DEF Sound, Placed, Running
  <2>5. Landing(h)'
    BY <1>2, <1>3, <2>1, <2>2, SameLanding DEF Sound
  <2>6. Served(h)'
    BY <2>2 DEF Served, PoolHolds
  <2>7. Awaited(h)'
    BY <1>2, <1>3, <2>1 DEF Sound, Awaited
  <2>8. Blank(h)' /\ Cancelling(h)' /\ Published(h)'
    BY <1>2, <2>1 DEF Sound, Blank, Cancelling, Published
  <2> QED BY <2>3, <2>4, <2>5, <2>6, <2>7, <2>8 DEF Sound
<1> QED BY <1>4, <1>5 DEF SoundInv

\* The notify wakes whoever sleeps on the batch.
LEMMA NotifySound ==
  ASSUME TInv, SlotInv, SoundInv, NEW w \in Workers, Notify(w)
  PROVE  SoundInv'
<1>f. /\ worker \in [Workers -> WorkerRecord] /\ ticket \in [Batches -> TicketRecord]
  BY DEF TInv, TypeOK
<1>1. /\ batch' = batch /\ worker[w].pc = "notify" /\ demandQ' = demandQ /\ prefetchQ' = prefetchQ
      /\ worker'[w].pc = "pop" /\ \A v \in Workers \ {w} : worker'[v] = worker[v]
  BY <1>f DEF Notify, poolVars, Parked
<1>2. \A c \in Batches : Queued(c)' <=> Queued(c)
  BY <1>1 DEF Queued, Within
<1>3. \A c \in Batches :
        /\ c # worker[w].batch => ticket'[c] = ticket[c]
        /\ c = worker[w].batch => ticket'[c].pc = IF ticket[c].pc = "asleep" THEN "check"
                                                  ELSE ticket[c].pc
        /\ ticket'[c].seen = ticket[c].seen
  BY <1>f DEF Notify, Wake, TicketRecord
<1>4. ASSUME NEW c \in Batches, c # worker[w].batch
      PROVE  Sound(c)'
  <2>1. \A v \in Workers : About(v, c) \/ About(v, c)' => worker'[v] = worker[v]
    BY <1>1, <1>4 DEF About, Holding, Running
  <2> QED BY <1>1, <1>2, <1>3, <1>4, <2>1, Elsewhere DEF SoundInv
<1>5. ASSUME NEW c \in Batches, c = worker[w].batch
      PROVE  Sound(c)'
  <2>1. \A v \in Workers : /\ HeldBy(v, c)' <=> HeldBy(v, c)
                           /\ HeldBy(v, c) => worker'[v] = worker[v]
    BY <1>1 DEF HeldBy, Holding, Running
  <2>2. (PoolHolds(c)' <=> PoolHolds(c)) /\ InFlight(c)' = InFlight(c)
    BY <1>2, <2>1 DEF PoolHolds, InFlight
  <2>3. Referenced(c)' <=> Referenced(c)
    BY <1>3, <1>5, <2>2 DEF Referenced, Owning
  <2>4. Sound(c)
    BY DEF SoundInv
  <2>5. Exact(c)'
    <3>1. Taken(c)' = Taken(c)
      BY <1>1, <1>3, <1>5 DEF Taken
    <3> QED BY <1>1, <2>2, <2>3, <2>4, <3>1, SameCount DEF Sound
  <2>6. Placed(c)'
    BY <1>1, <2>1, <2>4 DEF Sound, Placed
  <2>7. Landing(c)'
    BY <1>1, <2>1, <2>3, <2>4, SameLanding DEF Sound
  <2>8. Served(c)'
    BY <1>1, <2>2, <2>3, <2>4 DEF Sound, Served
  <2>9. Awaited(c)'
    BY <1>3, <1>5 DEF Awaited
  <2>10. Blank(c)' /\ Cancelling(c)' /\ Published(c)'
    BY <1>1, <1>3, <1>5, <2>4 DEF Sound, Blank, Cancelling, Published
  <2> QED BY <2>5, <2>6, <2>7, <2>8, <2>9, <2>10 DEF Sound
<1> QED BY <1>4, <1>5 DEF SoundInv

\* Every step of a worker keeps what is known of every batch.
LEMMA WorkerSound ==
  ASSUME TInv, SlotInv, SoundInv, NEW w \in Workers, Work(w)
  PROVE  SoundInv'
<1>f. /\ worker \in [Workers -> WorkerRecord] /\ batch \in [Batches -> BatchRecord]
      /\ ticket \in [Batches -> TicketRecord]
      /\ demandQ \in Seq(Batches) /\ prefetchQ \in Seq(Batches)
  BY DEF TInv, TypeOK
<1>1. CASE Pop(w) \/ Notify(w)
  BY <1>1, PopSound, NotifySound
<1>2. CASE Exit(w)
  <2> SUFFICES ASSUME NEW c \in Batches PROVE Sound(c)'
    BY DEF SoundInv
  <2>1. \A v \in Workers : About(v, c) \/ About(v, c)' => worker'[v] = worker[v]
    BY <1>2, <1>f DEF Exit, About, Holding, Running, WorkerRecord
  <2>2. Queued(c)' <=> Queued(c)
    BY <1>2 DEF Exit, poolVars, Queued, Within
  <2> QED BY <1>2, <2>1, <2>2, Elsewhere DEF Exit, SoundInv
<1>3. CASE ~(Pop(w) \/ Notify(w) \/ Exit(w))
  <2>1. PICK b \in Batches : b = worker[w].batch /\ worker[w].pc \in Holding
    BY <1>3 DEF Work, Claim, JobOk, JobFail, Note, CountDown, QuantumEnd, Requeue, DropIdle,
                DropFinished, Holding, Running, TInv, WorkerInv
  <2>2. Sound(b)'
    <3>1. Sound(b)
      BY <2>1 DEF SoundInv
    <3>2. CASE Claim(w) \/ CountDown(w)
      BY <2>1, <3>1, <3>2, ClaimSound, CountDownSound
    <3>3. CASE JobOk(w) \/ JobFail(w) \/ Note(w)
      BY <2>1, <3>1, <3>3, ReadSound
    <3>4. CASE QuantumEnd(w) \/ Requeue(w)
      BY <2>1, <3>1, <3>4, QuantumSound
    <3>5. CASE DropIdle(w) \/ DropFinished(w)
      BY <2>1, <3>1, <3>5, DropSound
    <3> QED BY <1>3, <3>2, <3>3, <3>4, <3>5 DEF Work
  <2>3. ASSUME NEW c \in Batches, c # b
        PROVE  Sound(c)'
    <3>1. batch'[c] = batch[c] /\ ticket'[c] = ticket[c]
      <4>1. ticket' = ticket \/ ticket' = Wake(b)
        BY <1>3, <2>1 DEF Work, Claim, JobOk, JobFail, Note, CountDown, QuantumEnd, Requeue,
                DropIdle, DropFinished
      <4>2. CASE Claim(w) \/ JobOk(w) \/ JobFail(w) \/ QuantumEnd(w) \/ Requeue(w)
        BY <1>f, <2>1, <2>3, <4>2 DEF Claim, JobOk, JobFail, QuantumEnd, Requeue
      <4>3. CASE Note(w)
        <5>1. \E now : batch' = [batch EXCEPT ![b].noted = now]
          BY <2>1, <4>3 DEF Note
        <5> QED BY <1>f, <2>3, <4>1, <5>1 DEF Wake
      <4>4. CASE CountDown(w)
        <5>1. batch' = [batch EXCEPT ![b].remaining = @ - 1]
          BY <2>1, <4>4 DEF CountDown
        <5> QED BY <1>f, <2>3, <4>1, <5>1 DEF Wake
      <4>5. CASE DropIdle(w) \/ DropFinished(w)
        BY <1>f, <2>1, <2>3, <4>5 DEF DropIdle, DropFinished, Release
      <4> QED BY <1>3, <1>f, <2>3, <4>1, <4>2, <4>3, <4>4, <4>5 DEF Work, Wake
    <3>2. Queued(c)' <=> Queued(c)
      <4>1. CASE Requeue(w)
        <5>1. \/ demandQ' = Append(demandQ, b) /\ prefetchQ' = prefetchQ
              \/ prefetchQ' = Append(prefetchQ, b) /\ demandQ' = demandQ
          BY <2>1, <4>1 DEF Requeue
        <5>2. /\ Within(c, Append(demandQ, b)) <=> Within(c, demandQ)
              /\ Within(c, Append(prefetchQ, b)) <=> Within(c, prefetchQ)
          BY <1>f, <2>1, <2>3, AppendOthers
        <5>3. \/ /\ Within(c, demandQ)' <=> Within(c, Append(demandQ, b))
                 /\ Within(c, prefetchQ)' <=> Within(c, prefetchQ)
              \/ /\ Within(c, prefetchQ)' <=> Within(c, Append(prefetchQ, b))
                 /\ Within(c, demandQ)' <=> Within(c, demandQ)
          BY <5>1 DEF Within
        <5> QED BY <5>2, <5>3 DEF Queued
      <4>2. CASE ~Requeue(w)
        <5>1. UNCHANGED <<demandQ, prefetchQ>>
          BY <1>3, <4>2 DEF Work, Claim, JobOk, JobFail, Note, CountDown, QuantumEnd, DropIdle,
                DropFinished, poolVars
        <5> QED BY <5>1 DEF Queued, Within
      <4> QED BY <4>1, <4>2
    <3>3. \A v \in Workers \ {w} : worker'[v] = worker[v]
      BY <1>3, <1>f DEF Work, Claim, JobOk, JobFail, Note, CountDown, QuantumEnd, Requeue,
                DropIdle, DropFinished
    <3>4. ~About(w, c)'
      <4>1. worker'[w].batch = b \/ worker'[w].pc = "pop"
        BY <1>3, <1>f, <2>1 DEF Work, Claim, JobOk, JobFail, Note, CountDown, QuantumEnd, Requeue,
                DropIdle, DropFinished, Parked, WorkerRecord
      <4> QED BY <2>3, <4>1 DEF About, Holding, Running
    <3>5. ~About(w, c)
      BY <2>1, <2>3 DEF About
    <3>6. \A v \in Workers : About(v, c) \/ About(v, c)' => worker'[v] = worker[v]
      BY <3>3, <3>4, <3>5
    <3>7. Sound(c)
      BY DEF SoundInv
    <3> QED BY <3>1, <3>2, <3>6, <3>7, Elsewhere
  <2> QED BY <2>2, <2>3 DEF SoundInv
<1> QED BY <1>1, <1>2, <1>3

-----------------------------------------------------------------------------
(* An owner's steps.                                                         *)

\* A submission that has begun and is not published.
LEMMA Unpublished ==
  ASSUME NEW b \in Batches, ~PoolHolds(b)', ticket'[b].pc \in {"acquire", "alloc"}, Blank(b)'
  PROVE  Sound(b)'
<1>1. ~Referenced(b)' /\ \A v \in Workers : ~HeldBy(v, b)'
  BY DEF Referenced, PoolHolds, Owning
<1> QED BY <1>1 DEF Sound, Exact, Cancelling, Placed, Landing, Served, Awaited, Published

\* What an owner may do with the counters of its batch and its own place.
LEMMA OwnerStep ==
  ASSUME TypeOK, TypeOK', NEW b \in Batches, Sound(b), UNCHANGED <<demandQ, prefetchQ, worker>>,
         ticket[b].pc \in Owning, ticket'[b].pc \in Owning,
         batch'[b].njobs = batch[b].njobs, batch'[b].landed = batch[b].landed,
         batch'[b].noted = batch[b].noted, batch'[b].failed = batch[b].failed,
         batch[b].cancelled => batch'[b].cancelled,
         batch'[b].next >= batch[b].next, batch'[b].next = batch[b].next \/ batch'[b].cancelled,
         batch[b].remaining = 0 => batch'[b].remaining = 0,
         Exact(b)', Cancelling(b)', Awaited(b)', Published(b)'
  PROVE  Sound(b)'
<1>1. Referenced(b)
  BY DEF Referenced
<1>2. /\ batch[b].next \in Nat /\ batch[b].njobs \in Nat /\ batch'[b].next \in Nat
      /\ \A v \in Workers : HeldBy(v, b)' <=> HeldBy(v, b)
  BY FieldTypes DEF HeldBy, TypeOK, BatchRecord
<1>3. PoolHolds(b)' <=> PoolHolds(b)
  BY PoolKept
<1>4. Blank(b)'
  BY DEF Blank, Owning
<1>5. Placed(b)'
  <2> DEFINE n == batch[b].next
             m == batch[b].njobs
             k == batch'[b].next
  <2>1. n \in Nat /\ m \in Nat /\ k \in Nat /\ k >= n /\ batch'[b].njobs = m
    BY <1>2
  <2> HIDE DEF n, m, k
  <2> SUFFICES ASSUME NEW v \in Workers, HeldBy(v, b)'
               PROVE  /\ worker'[v].pc \in Running => worker'[v].job < m
                      /\ worker'[v].pc = "drop" => k >= m
                      /\ worker'[v].pc = "finish" => batch'[b].remaining = 0
    BY <2>1 DEF Placed, k
  <2>2. /\ worker[v].pc \in Running => worker[v].job < m
        /\ worker[v].pc = "drop" => n >= m
        /\ worker[v].pc = "finish" => batch[b].remaining = 0
    BY <1>2 DEF Sound, Placed, n, m
  <2> QED BY <2>1, <2>2
<1>6. Landing(b)'
  <2> DEFINE B == batch[b]
  <2>1. /\ B.landed \subseteq 0 .. B.njobs - 1
        /\ ~B.failed =>
             /\ B.noted \subseteq B.landed
             /\ \A v \in Workers : HeldBy(v, b) /\ worker[v].pc \in {"note", "dec"} =>
                  worker[v].job \in B.landed
        /\ ~B.failed /\ ~B.cancelled =>
             \A i \in 0 .. B.njobs - 1 : i < B.next =>
               \/ i \in B.landed
               \/ \E v \in Workers : HeldBy(v, b) /\ worker[v].pc = "run" /\ worker[v].job = i
    BY <1>1 DEF Sound, Landing
  <2>2. ~batch'[b].cancelled => ~B.cancelled /\ batch'[b].next = B.next
    OBVIOUS
  <2> HIDE DEF B
  <2> QED BY <1>2, <2>1, <2>2 DEF Landing, B
<1>7. Served(b)'
  BY <1>1, <1>2, <1>3 DEF Sound, Served
<1> QED BY <1>4, <1>5, <1>6, <1>7 DEF Sound

\* Steps that leave the batch alone, up to cancelled, and the owner not taking.
LEMMA OwnerCounts ==
  ASSUME TypeOK, TypeOK', NEW b \in Batches, Sound(b), UNCHANGED <<demandQ, prefetchQ, worker>>,
         ticket[b].pc \in Owning \ {"sub"}, ticket'[b].pc \in Owning \ {"sub"},
         \/ batch'[b] = batch[b]
         \/ batch'[b] = [batch[b] EXCEPT !.cancelled = TRUE],
         ticket'[b].pc = "cas" => batch'[b].cancelled,
         ticket'[b].pc = "asleep" => batch[b].remaining # 0,
         ticket'[b].pc # "buffers" \/ Published(b)'
  PROVE  Sound(b)'
<1>1. /\ batch'[b].njobs = batch[b].njobs /\ batch'[b].landed = batch[b].landed
      /\ batch'[b].noted = batch[b].noted /\ batch'[b].failed = batch[b].failed
      /\ batch'[b].next = batch[b].next /\ batch'[b].remaining = batch[b].remaining
      /\ batch[b].cancelled => batch'[b].cancelled
  BY FieldTypes DEF BatchRecord
<1>2. Exact(b)'
  <2>1. InFlight(b)' = InFlight(b) /\ Taken(b)' = Taken(b) /\ Referenced(b)
    BY DEF InFlight, HeldBy, Taken, Referenced
  <2> QED BY <1>1, <2>1, SameCount DEF Sound
<1>3. Cancelling(b)' /\ Awaited(b)' /\ Published(b)'
  BY <1>1 DEF Cancelling, Awaited, Published
<1>4. batch'[b].next >= batch[b].next
  BY <1>1, FieldTypes
<1> QED BY <1>1, <1>2, <1>3, <1>4, OwnerStep

\* Batch::wait returned Ok: every job has landed and none is in flight.
LEMMA WaitOkSound ==
  ASSUME TypeOK, TypeOK', NEW b \in Batches, Sound(b), WaitOk(b)
  PROVE  Sound(b)'
<1>1. /\ ticket[b].pc = "check" /\ batch[b].remaining = 0
      /\ ~batch[b].cancelled /\ ~batch[b].failed
  BY DEF WaitOk, Arrived, WaitFails
<1>2. /\ batch'[b] = [batch[b] EXCEPT !.cancelled = TRUE] /\ ticket'[b].pc = "buffers"
      /\ UNCHANGED <<demandQ, prefetchQ, worker>>
  BY FieldTypes DEF WaitOk, TypeOK, TicketRecord, poolVars
<1>3. InFlight(b) = {} /\ batch[b].next >= batch[b].njobs /\ Referenced(b)
  <2>1. Referenced(b)
    BY <1>1 DEF Referenced, Owning
  <2> QED BY <1>1, <2>1, CountedDown DEF Sound
<1>4. batch[b].landed = 0 .. batch[b].njobs - 1
  <2>1. ASSUME NEW i \in 0 .. batch[b].njobs - 1 PROVE i \in batch[b].landed
    <3>1. i < batch[b].next
      BY <1>3, FieldTypes
    <3>2. \A v \in Workers : HeldBy(v, b) => worker[v].pc # "run"
      BY <1>3 DEF InFlight, Running
    <3> QED BY <1>1, <1>3, <3>1, <3>2 DEF Sound, Landing
  <2> QED BY <1>3, <2>1 DEF Sound, Landing
<1>5. Published(b)'
  BY <1>1, <1>2, <1>4, FieldTypes DEF Published, BatchRecord
<1> QED BY <1>1, <1>2, <1>5, OwnerCounts DEF Owning

\* compare_exchange and fetch_sub of cancel_unclaimed: the jobs taken from the
\* counter of claims leave the countdown one step later.
LEMMA CancelSound ==
  ASSUME TypeOK, TypeOK', NEW b \in Batches, Sound(b), CancelCas(b) \/ CancelSub(b)
  PROVE  Sound(b)'
<1> DEFINE n == batch[b].next
           m == batch[b].njobs
           r == batch[b].remaining
           t == ticket[b].seen
           k == Cardinality(InFlight(b))
<1>1. n \in Nat /\ m \in Nat /\ r \in Int /\ t \in Nat /\ k \in Nat
  BY FieldTypes, FlightFinite
<1>2. Referenced(b) /\ ticket[b].pc \in Owning /\ UNCHANGED <<demandQ, prefetchQ, worker>>
  BY DEF CancelCas, CancelSub, Referenced, Owning, poolVars
<1>3. r = k + (IF n < m THEN m - n ELSE 0) + (IF ticket[b].pc = "sub" THEN m - t ELSE 0)
  BY <1>2 DEF Sound, Exact, Unclaimed, Taken
<1>4. InFlight(b)' = InFlight(b)
  BY <1>2 DEF InFlight, HeldBy
<1>5. batch \in [Batches -> BatchRecord] /\ ticket \in [Batches -> TicketRecord]
  BY DEF TypeOK
<1>6. CASE CancelCas(b) /\ n = t
  <2>1. ticket[b].pc = "cas" /\ t < m /\ batch[b].cancelled
    BY <1>6 DEF CancelCas, Sound, Cancelling
  <2>2. /\ batch' = [batch EXCEPT ![b].next = m]
        /\ ticket' = [ticket EXCEPT ![b].pc = "sub"]
    BY <1>6 DEF CancelCas
  <2>3. /\ batch'[b].next = m /\ batch'[b].njobs = m /\ batch'[b].remaining = r
        /\ batch'[b].landed = batch[b].landed /\ batch'[b].noted = batch[b].noted
        /\ batch'[b].failed = batch[b].failed /\ batch'[b].cancelled = batch[b].cancelled
        /\ ticket'[b].pc = "sub" /\ ticket'[b].seen = t
    BY <1>5, <2>2 DEF BatchRecord, TicketRecord
  <2> HIDE DEF n, m, r, t, k
  <2>4. r = k + 0 + (m - t) /\ ~(m < m) /\ m >= n
    BY <1>1, <1>3, <1>6, <2>1
  <2>5. Exact(b)'
    BY <1>4, <2>3, <2>4 DEF Exact, Unclaimed, Taken, k
  <2>6. Cancelling(b)' /\ Awaited(b)' /\ Published(b)'
    BY <2>1, <2>3 DEF Cancelling, Awaited, Published
  <2> QED BY <1>2, <2>1, <2>3, <2>4, <2>5, <2>6, OwnerStep DEF Owning, n, m, r
<1>7. CASE CancelCas(b) /\ n # t
  <2>1. /\ ticket[b].pc = "cas" /\ batch[b].cancelled /\ batch' = batch
        /\ ticket' = [ticket EXCEPT ![b].seen = n]
    BY <1>7 DEF CancelCas, Sound, Cancelling
  <2>2. ticket'[b].pc = "cas"
    BY <1>5, <2>1 DEF TicketRecord
  <2> QED BY <1>2, <2>1, <2>2, OwnerCounts DEF Owning
<1>8. CASE CancelSub(b)
  <2>1. ticket[b].pc = "sub" /\ t < m /\ batch[b].cancelled
    BY <1>8 DEF CancelSub, Sound, Cancelling
  <2>2. /\ batch' = [batch EXCEPT ![b].remaining = @ - (m - t)]
        /\ ticket' = [ticket EXCEPT ![b].pc = AfterCancel(ticket[b].goal), ![b].seen = 0]
    BY <1>8 DEF CancelSub
  <2>3. AfterCancel(ticket[b].goal) \in {"held", "check", "dropping"}
    BY DEF AfterCancel
  <2>4. /\ batch'[b].next = n /\ batch'[b].njobs = m /\ batch'[b].remaining = r - (m - t)
        /\ batch'[b].landed = batch[b].landed /\ batch'[b].noted = batch[b].noted
        /\ batch'[b].failed = batch[b].failed /\ batch'[b].cancelled = batch[b].cancelled
    BY <1>5, <2>2 DEF BatchRecord
  <2>5. ticket'[b].pc \in {"held", "check", "dropping"}
    BY <1>5, <2>2, <2>3 DEF TicketRecord
  <2>6. r # 0
    BY <1>2, <2>1, CountedDown DEF Sound
  <2> HIDE DEF n, m, r, t, k
  <2>7. r - (m - t) = k + (IF n < m THEN m - n ELSE 0) + 0 /\ n >= n
    BY <1>1, <1>3, <2>1
  <2>8. Exact(b)'
    BY <1>4, <2>4, <2>5, <2>7 DEF Exact, Unclaimed, Taken, k
  <2>9. Cancelling(b)' /\ Awaited(b)' /\ Published(b)'
    BY <2>1, <2>5 DEF Cancelling, Awaited, Published
  <2> QED BY <1>2, <2>1, <2>4, <2>5, <2>6, <2>7, <2>8, <2>9, OwnerStep DEF Owning, n, m, r
<1> QED BY <1>6, <1>7, <1>8

\* push_batch: the countdown starts at the number of jobs, with a clone for
\* every worker that takes part.
LEMMA PublishSound ==
  ASSUME TInv, SlotInv, NEW b \in Batches, Sound(b), Publish(b)
  PROVE  Sound(b)' /\ \A c \in Batches \ {b} : Queued(c)' <=> Queued(c)
<1>f. TypeOK /\ batch \in [Batches -> BatchRecord] /\ ticket \in [Batches -> TicketRecord]
  BY DEF TInv, TypeOK
<1> DEFINE m == batch[b].njobs
           p == Participating(m)
<1>1. p \in Nat /\ m \in Nat /\ (m > 0 => p > 0)
  <2>1. Cardinality(Workers) \in Nat /\ Cardinality(Workers) # 0
    BY ReaderAssumption, FS_CardinalityType, FS_EmptySet
  <2>2. m \in Nat
    BY <1>f, FieldTypes
  <2> HIDE DEF m
  <2> QED BY <2>1, <2>2 DEF Participating
<1>2. /\ ~PoolHolds(b) /\ batch[b].next = 0 /\ batch[b].remaining = m
      /\ batch[b].noted = {} /\ batch[b].landed = {}
  BY DEF Publish, SlotInv, FreshInv, Sound, Blank
<1>3. /\ batch' = batch /\ worker' = worker /\ ticket'[b].pc = "held"
  BY <1>f DEF Publish, TicketRecord
<1>4. \A v \in Workers : ~HeldBy(v, b)'
  BY <1>2, <1>3 DEF HeldBy, PoolHolds
<1>5. \A c \in Batches : Queued(c)' <=> Queued(c) \/ (c = b /\ p > 0)
  <2>1. \/ demandQ' = demandQ \o Copies(b) /\ prefetchQ' = prefetchQ
        \/ prefetchQ' = prefetchQ \o Copies(b) /\ demandQ' = demandQ
    BY DEF Publish
  <2>2. demandQ \in Seq(Batches) /\ prefetchQ \in Seq(Batches)
    BY <1>f DEF TypeOK
  <2> HIDE DEF p
  <2>3. \A c \in Batches :
          /\ Within(c, demandQ \o Copies(b)) <=> Within(c, demandQ) \/ (c = b /\ p > 0)
          /\ Within(c, prefetchQ \o Copies(b)) <=> Within(c, prefetchQ) \/ (c = b /\ p > 0)
    BY <1>1, <2>2, CopiesOthers DEF Copies, p
  <2>4. \A c \in Batches :
          \/ /\ Within(c, demandQ)' <=> Within(c, demandQ \o Copies(b))
             /\ Within(c, prefetchQ)' <=> Within(c, prefetchQ)
          \/ /\ Within(c, prefetchQ)' <=> Within(c, prefetchQ \o Copies(b))
             /\ Within(c, demandQ)' <=> Within(c, demandQ)
    BY <2>1 DEF Within
  <2> QED BY <2>3, <2>4 DEF Queued
<1>6. Exact(b)'
  <2>1. InFlight(b)' = {}
    BY <1>4 DEF InFlight
  <2>2. Cardinality(InFlight(b)') = 0
    BY <2>1, FS_EmptySet
  <2>3. Taken(b)' = 0 /\ Unclaimed(b)' = m
    BY <1>1, <1>2, <1>3 DEF Taken, Unclaimed
  <2> HIDE DEF m
  <2>4. m = 0 + m + 0
    BY <1>1
  <2> QED BY <1>2, <1>3, <2>2, <2>3, <2>4 DEF Exact
<1>7. Placed(b)'
  BY <1>4 DEF Placed
<1>8. Landing(b)'
  <2>1. \A i \in 0 .. batch[b].njobs - 1 : ~(i < 0)
    BY <1>1
  <2> QED BY <1>2, <1>3, <1>4, <2>1 DEF Landing
<1>9. Served(b)'
  BY <1>1, <1>2, <1>3, <1>5 DEF Served, PoolHolds
<1>10. Blank(b)' /\ Cancelling(b)' /\ Awaited(b)' /\ Published(b)'
  BY <1>3 DEF Blank, Cancelling, Awaited, Published
<1> QED BY <1>5, <1>6, <1>7, <1>8, <1>9, <1>10 DEF Sound

\* A step of the owner of b that leaves queues and workers alone is about b only.
LEMMA OwnerElsewhere ==
  ASSUME TypeOK, SoundInv, NEW b \in Batches, UNCHANGED <<demandQ, prefetchQ, worker>>,
         \A c \in Batches \ {b} : batch'[c] = batch[c] /\ ticket'[c] = ticket[c], Sound(b)'
  PROVE  SoundInv'
<1> SUFFICES ASSUME NEW c \in Batches, c # b PROVE Sound(c)'
  BY DEF SoundInv
<1>1. Queued(c)' <=> Queued(c)
  BY DEF Queued, Within
<1> QED BY <1>1, Elsewhere DEF SoundInv

\* Every step of an owner keeps what is known of every batch.
LEMMA OwnerSound ==
  ASSUME TInv, TInv', SlotInv, SoundInv, NEW b \in Batches, Calls(b) \/ Progress(b)
  PROVE  SoundInv'
<1>f. /\ worker \in [Workers -> WorkerRecord] /\ batch \in [Batches -> BatchRecord]
      /\ ticket \in [Batches -> TicketRecord] /\ TypeOK /\ TypeOK'
  BY DEF TInv, TypeOK
<1>s. Sound(b)
  BY DEF SoundInv
<1>1. ASSUME NEW p \in Priorities, NEW n \in JobCounts, Submit(b, p, n) \/ TrySubmit(b, p, n)
      PROVE  SoundInv'
  <2>1. /\ UNCHANGED <<demandQ, prefetchQ, worker>> /\ ~PoolHolds(b)
        /\ ticket'[b].pc \in {"acquire", "alloc"}
    BY <1>1, <1>f DEF Submit, TrySubmit, Unused, Referenced, Absent, poolVars
  <2>2. \E s : batch' = [batch EXCEPT ![b] = NewBatch(p, n, s)]
    BY <1>1 DEF Submit, TrySubmit
  <2>3. Blank(b)'
    BY <1>f, <2>2 DEF Blank, NewBatch
  <2>4. Sound(b)'
    BY <2>1, <2>3, PoolKept, Unpublished
  <2>5. \A c \in Batches \ {b} : batch'[c] = batch[c] /\ ticket'[c] = ticket[c]
    BY <1>1, <1>f, <2>2 DEF Submit, TrySubmit
  <2> QED BY <1>f, <2>1, <2>4, <2>5, OwnerElsewhere
<1>2. CASE Acquire(b)
  <2>1. UNCHANGED <<demandQ, prefetchQ, worker>> /\ ~PoolHolds(b) /\ ticket'[b].pc = "alloc"
    BY <1>2, <1>f DEF Acquire, poolVars, SlotInv, FreshInv, TicketRecord
  <2>2. \E s : batch' = [batch EXCEPT ![b].lease = s]
    BY <1>2 DEF Acquire
  <2>3. Blank(b)'
    BY <1>2, <1>f, <1>s, <2>2 DEF Acquire, Sound, Blank, BatchRecord
  <2>4. Sound(b)'
    BY <2>1, <2>3, PoolKept, Unpublished
  <2>5. \A c \in Batches \ {b} : batch'[c] = batch[c] /\ ticket'[c] = ticket[c]
    BY <1>2, <1>f, <2>2 DEF Acquire
  <2> QED BY <1>f, <2>1, <2>4, <2>5, OwnerElsewhere
<1>3. CASE AllocFail(b)
  <2>1. UNCHANGED <<demandQ, prefetchQ, worker>> /\ ~PoolHolds(b) /\ ticket'[b].pc = "idle"
    BY <1>3, <1>f DEF AllocFail, poolVars, SlotInv, FreshInv, Absent
  <2>2. ~Referenced(b)'
    BY <2>1, PoolKept DEF Referenced, Owning
  <2>3. Sound(b)'
    BY <2>1, <2>2, Unclaimable
  <2>4. \A c \in Batches \ {b} : batch'[c] = batch[c] /\ ticket'[c] = ticket[c]
    BY <1>3, <1>f DEF AllocFail
  <2> QED BY <1>f, <2>1, <2>3, <2>4, OwnerElsewhere
<1>4. CASE Publish(b)
  <2>1. Sound(b)' /\ \A c \in Batches \ {b} : Queued(c)' <=> Queued(c)
    BY <1>4, <1>s, PublishSound
  <2>2. worker' = worker /\ batch' = batch /\ \A c \in Batches \ {b} : ticket'[c] = ticket[c]
    BY <1>4, <1>f DEF Publish
  <2> QED BY <2>1, <2>2, Elsewhere DEF SoundInv
<1>5. CASE DropOwner(b)
  <2>1. UNCHANGED <<demandQ, prefetchQ, worker>> /\ ticket'[b].pc = "idle" /\ Release(b)
        /\ Referenced(b)
    BY <1>5, <1>f DEF DropOwner, poolVars, Absent, Referenced, Owning
  <2>2. \A c \in Batches \ {b} : batch'[c] = batch[c] /\ ticket'[c] = ticket[c]
    BY <1>5, <1>f DEF DropOwner, Release
  <2>3. Sound(b)'
    <3>1. CASE ~Referenced(b)'
      BY <2>1, <3>1, Unclaimable
    <3>2. CASE Referenced(b)'
      <4>1. batch' = batch
        BY <2>1, <3>2 DEF Release
      <4>2. /\ \A v \in Workers : HeldBy(v, b)' <=> HeldBy(v, b)
            /\ PoolHolds(b)' <=> PoolHolds(b)
        BY <2>1, PoolKept DEF HeldBy
      <4>3. InFlight(b)' = InFlight(b) /\ Taken(b)' = 0 /\ Taken(b) = 0
        BY <1>5, <2>1, <4>2 DEF InFlight, Taken, DropOwner
      <4>4. Exact(b)'
        BY <1>s, <2>1, <4>1, <4>3, SameCount DEF Sound
      <4>5. Placed(b)'
        BY <1>s, <2>1, <4>1, <4>2 DEF Sound, Placed
      <4>6. Landing(b)'
        BY <1>s, <2>1, <4>1, <4>2, SameLanding DEF Sound
      <4>7. Served(b)'
        BY <1>s, <2>1, <4>1, <4>2 DEF Sound, Served
      <4>8. Blank(b)' /\ Cancelling(b)' /\ Awaited(b)' /\ Published(b)'
        BY <2>1 DEF Blank, Cancelling, Awaited, Published
      <4> QED BY <4>4, <4>5, <4>6, <4>7, <4>8 DEF Sound
    <3> QED BY <3>1, <3>2
  <2> QED BY <1>f, <2>1, <2>2, <2>3, OwnerElsewhere
<1>6. CASE WaitOk(b)
  <2>1. Sound(b)'
    BY <1>6, <1>f, <1>s, WaitOkSound
  <2>2. \A c \in Batches \ {b} : batch'[c] = batch[c] /\ ticket'[c] = ticket[c]
    BY <1>6, <1>f DEF WaitOk
  <2> QED BY <1>6, <1>f, <2>1, <2>2, OwnerElsewhere DEF WaitOk, poolVars
<1>7. CASE CancelCas(b) \/ CancelSub(b)
  <2>1. Sound(b)'
    BY <1>7, <1>f, <1>s, CancelSound
  <2>2. \A c \in Batches \ {b} : batch'[c] = batch[c] /\ ticket'[c] = ticket[c]
    BY <1>7, <1>f DEF CancelCas, CancelSub
  <2> QED BY <1>7, <1>f, <2>1, <2>2, OwnerElsewhere DEF CancelCas, CancelSub, poolVars
<1>8. ASSUME \/ WaitEnd(b) \/ Sleep(b) \/ ReadyReturn(b) \/ CancelNone(b)
             \/ \E g \in Goals : BeginWait(b, g) \/ BeginCancel(b, g)
             \/ \E m \in 1 .. Sources(b) : WaitReadySources(b, m)
      PROVE  SoundInv'
  <2>1. UNCHANGED <<demandQ, prefetchQ, worker>>
    BY <1>8 DEF WaitEnd, Sleep, ReadyReturn, CancelNone, BeginWait, BeginCancel, WaitReadySources,
                poolVars
  <2>2. /\ ticket[b].pc \in Owning \ {"sub"} /\ ticket'[b].pc \in Owning \ {"sub", "buffers"}
        /\ ticket'[b].pc = "cas" => \E g \in Goals : BeginCancel(b, g)
        /\ ticket'[b].pc = "asleep" => Sleep(b)
    <3>1. CASE WaitEnd(b) \/ Sleep(b) \/ ReadyReturn(b)
      BY <1>f, <3>1 DEF WaitEnd, Sleep, ReadyReturn, TicketRecord, Owning
    <3>2. CASE CancelNone(b)
      <4>1. AfterCancel(ticket[b].goal) \in {"held", "check", "dropping"}
        BY DEF AfterCancel
      <4> QED BY <1>f, <3>2, <4>1 DEF CancelNone, TicketRecord, Owning
    <3>3. ASSUME NEW g \in Goals, BeginWait(b, g) \/ BeginCancel(b, g)
          PROVE  /\ ticket[b].pc = "held"
                 /\ \/ BeginWait(b, g) /\ ticket'[b].pc = "check"
                    \/ BeginCancel(b, g) /\ ticket'[b].pc = "cas"
      BY <1>f, <3>3 DEF BeginWait, BeginCancel, TicketRecord
    <3>4. CASE \E m \in 1 .. Sources(b) : WaitReadySources(b, m)
      BY <1>f, <3>4 DEF WaitReadySources, TicketRecord, Owning
    <3>5. CASE \E g \in Goals : BeginWait(b, g) \/ BeginCancel(b, g)
      BY <3>3, <3>5 DEF Owning
    <3> QED BY <1>8, <3>1, <3>2, <3>4, <3>5
  <2>3. /\ \/ batch' = batch
           \/ batch' = [batch EXCEPT ![b].cancelled = TRUE]
        /\ (\E g \in Goals : BeginCancel(b, g)) => batch' = [batch EXCEPT ![b].cancelled = TRUE]
    BY <1>8 DEF WaitEnd, Sleep, ReadyReturn, CancelNone, BeginWait, BeginCancel, WaitReadySources
  <2>4. /\ \/ batch'[b] = batch[b]
           \/ batch'[b] = [batch[b] EXCEPT !.cancelled = TRUE]
        /\ (\E g \in Goals : BeginCancel(b, g)) => batch'[b].cancelled
    BY <1>f, <2>3 DEF BatchRecord
  <2>5. Sleep(b) => batch[b].remaining # 0
    BY DEF Sleep, Arrived
  <2>6. Sound(b)'
    BY <1>f, <1>s, <2>1, <2>2, <2>4, <2>5, OwnerCounts
  <2>7. \A c \in Batches \ {b} : batch'[c] = batch[c] /\ ticket'[c] = ticket[c]
    <3>1. \A c \in Batches \ {b} : batch'[c] = batch[c]
      BY <1>f, <2>3
    <3>2. \A c \in Batches \ {b} : ticket'[c] = ticket[c]
      BY <1>8, <1>f DEF WaitEnd, Sleep, ReadyReturn, CancelNone, BeginWait, BeginCancel,
         WaitReadySources
    <3> QED BY <3>1, <3>2
  <2> QED BY <1>f, <2>1, <2>6, <2>7, OwnerElsewhere
<1> QED BY <1>1, <1>2, <1>3, <1>4, <1>5, <1>6, <1>7, <1>8 DEF Calls, Progress

-----------------------------------------------------------------------------
(* The arena.                                                                *)

\* A step that moves no lease and takes no reference.
LEMMA ArenaKept ==
  ASSUME Accounted, Reserved, inUse' = inUse,
         \A c \in Batches : Leasing(c) =>
           Leasing(c)' /\ batch'[c].lease = batch[c].lease /\ batch'[c].prio = batch[c].prio
  PROVE  Accounted' /\ Reserved'
<1>1. FreeSlots' = FreeSlots
  BY DEF FreeSlots
<1> QED BY <1>1 DEF Accounted, Reserved

\* BufferArena::acquire: prefetch leaves a free slot behind, if there are two.
LEMMA ArenaTaken ==
  ASSUME TypeOK, Accounted, Reserved, NEW b \in Batches, ~Leasing(b), Leasing(b)',
         NEW s \in FreeSlots, inUse' = [inUse EXCEPT ![s] = TRUE], batch'[b].lease = s,
         CanAdmit(batch'[b].prio),
         \A c \in Batches \ {b} : Leasing(c) =>
           Leasing(c)' /\ batch'[c].lease = batch[c].lease /\ batch'[c].prio = batch[c].prio
  PROVE  Accounted' /\ Reserved'
<1>1. inUse \in [Slots -> BOOLEAN] /\ s \in Slots
  BY DEF TypeOK, FreeSlots
<1>2. Accounted'
  <2> SUFFICES ASSUME NEW t \in Slots, inUse'[t]
               PROVE  \E c \in Batches : Leasing(c)' /\ batch'[c].lease = t
    BY DEF Accounted
  <2>1. CASE t = s
    BY <2>1
  <2>2. CASE t # s
    <3>1. PICK c \in Batches : Leasing(c) /\ batch[c].lease = t
      BY <1>1, <2>2 DEF Accounted
    <3> QED BY <3>1
  <2> QED BY <2>1, <2>2
<1>3. Reserved'
  <2>1. CASE batch'[b].prio = "demand" \/ Cardinality(Slots) = 1
    BY <2>1 DEF Reserved
  <2>2. CASE Cardinality(FreeSlots) > 1
    <3>1. FreeSlots # {s}
      <4>1. Cardinality({s}) = 1
        BY FS_Singleton
      <4> QED BY <2>2, <4>1
    <3>2. PICK t \in FreeSlots : t # s
      BY <3>1
    <3>3. t \in FreeSlots'
      BY <1>1, <3>2 DEF FreeSlots
    <3> QED BY <3>3 DEF Reserved
  <2> QED BY <2>1, <2>2 DEF CanAdmit
<1> QED BY <1>2, <1>3

\* A lease given back frees its slot.
LEMMA ArenaFreed ==
  ASSUME TypeOK, SlotInv, Accounted, Reserved, NEW b \in Batches, Leasing(b),
         inUse' = [inUse EXCEPT ![batch[b].lease] = FALSE],
         \A c \in Batches \ {b} : Leasing(c) =>
           Leasing(c)' /\ batch'[c].lease = batch[c].lease /\ batch'[c].prio = batch[c].prio
  PROVE  Accounted' /\ Reserved'
<1> DEFINE s == batch[b].lease
<1>1. inUse \in [Slots -> BOOLEAN] /\ s \in Slots
  BY DEF TypeOK, SlotInv, LeaseInv
<1>2. Accounted'
  <2> SUFFICES ASSUME NEW t \in Slots, inUse'[t]
               PROVE  \E c \in Batches : Leasing(c)' /\ batch'[c].lease = t
    BY DEF Accounted
  <2>1. t # s /\ inUse[t]
    BY <1>1
  <2>2. PICK c \in Batches : Leasing(c) /\ batch[c].lease = t
    BY <2>1 DEF Accounted
  <2> QED BY <2>1, <2>2
<1>3. s \in FreeSlots'
  BY <1>1 DEF FreeSlots
<1> QED BY <1>2, <1>3 DEF Reserved

\* Release frees the slot exactly when nobody refers to the batch any more.
LEMMA ReleaseArena ==
  ASSUME TypeOK, SlotInv, Accounted, Reserved, NEW b \in Batches, Release(b), Referenced(b),
         \A c \in Batches \ {b} : ticket'[c] = ticket[c] /\ (PoolHolds(c) => PoolHolds(c)')
  PROVE  Accounted' /\ Reserved'
<1>1. \A c \in Batches \ {b} : Leasing(c) => Leasing(c)'
  BY DEF Leasing, Referenced
<1>2. CASE Referenced(b)'
  <2>1. inUse' = inUse /\ batch' = batch /\ Leasing(b)'
    BY <1>2 DEF Release, Leasing
  <2> QED BY <1>1, <2>1, ArenaKept
<1>3. CASE ~Referenced(b)'
  <2>1. /\ inUse' = [inUse EXCEPT ![batch[b].lease] = FALSE]
        /\ batch' = [batch EXCEPT ![b] = NoBatch] /\ Leasing(b)
    BY <1>3 DEF Release, Leasing
  <2>2. \A c \in Batches \ {b} : batch'[c] = batch[c]
    BY <2>1 DEF TypeOK
  <2> QED BY <1>1, <2>1, <2>2, ArenaFreed
<1> QED BY <1>2, <1>3

\* An owner's step keeps the accounting of the arena.
LEMMA OwnerArena ==
  ASSUME TInv, SlotInv, Accounted, Reserved, NEW b \in Batches, Calls(b) \/ Progress(b)
  PROVE  Accounted' /\ Reserved'
<1>f. /\ batch \in [Batches -> BatchRecord] /\ ticket \in [Batches -> TicketRecord] /\ TypeOK
      /\ demandQ \in Seq(Batches) /\ prefetchQ \in Seq(Batches)
  BY DEF TInv, TypeOK
<1>1. ASSUME NEW p \in Priorities, NEW n \in JobCounts, Submit(b, p, n)
      PROVE  Accounted' /\ Reserved'
  <2>1. /\ UNCHANGED <<demandQ, prefetchQ, worker, inUse>>
        /\ ~Leasing(b)
    BY <1>1 DEF Submit, Unused, Leasing, poolVars
  <2>2. \A c \in Batches \ {b} : batch'[c] = batch[c] /\ ticket'[c] = ticket[c]
    BY <1>1, <1>f DEF Submit
  <2> QED BY <2>1, <2>2, PoolKept, ArenaKept DEF Leasing, Referenced
<1>2. ASSUME NEW p \in Priorities, NEW n \in JobCounts, TrySubmit(b, p, n)
      PROVE  Accounted' /\ Reserved'
  <2>1. UNCHANGED <<demandQ, prefetchQ, worker>> /\ ~Leasing(b) /\ CanAdmit(p)
    BY <1>2 DEF TrySubmit, Unused, Leasing, poolVars
  <2>2. PICK s \in FreeSlots : /\ inUse' = [inUse EXCEPT ![s] = TRUE]
                               /\ batch' = [batch EXCEPT ![b] = NewBatch(p, n, s)]
    BY <1>2 DEF TrySubmit
  <2>3. batch'[b].lease = s /\ batch'[b].prio = p
    BY <1>f, <2>2 DEF NewBatch
  <2>4. \A c \in Batches \ {b} : batch'[c] = batch[c] /\ ticket'[c] = ticket[c]
    BY <1>2, <1>f, <2>2 DEF TrySubmit
  <2>5. Leasing(b)'
    BY <1>2, <1>f DEF TrySubmit, Leasing, Absent
  <2>6. \A c \in Batches \ {b} : Leasing(c) => Leasing(c)'
    BY <2>1, <2>4, PoolKept DEF Leasing, Referenced
  <2> QED BY <1>f, <2>1, <2>2, <2>3, <2>4, <2>5, <2>6, ArenaTaken
<1>3. CASE Acquire(b)
  <2>1. UNCHANGED <<demandQ, prefetchQ, worker>> /\ ~Leasing(b) /\ CanAdmit(batch[b].prio)
    BY <1>3 DEF Acquire, Leasing, Referenced, Owning, SlotInv, FreshInv, poolVars
  <2>2. PICK s \in FreeSlots : /\ inUse' = [inUse EXCEPT ![s] = TRUE]
                               /\ batch' = [batch EXCEPT ![b].lease = s]
    BY <1>3 DEF Acquire
  <2>3. batch'[b].lease = s /\ batch'[b].prio = batch[b].prio
    BY <1>f, <2>2 DEF BatchRecord
  <2>4. \A c \in Batches \ {b} : batch'[c] = batch[c] /\ ticket'[c] = ticket[c]
    BY <1>3, <1>f, <2>2 DEF Acquire
  <2>5. Leasing(b)'
    BY <1>3, <1>f DEF Acquire, Leasing, TicketRecord
  <2>6. \A c \in Batches \ {b} : Leasing(c) => Leasing(c)'
    BY <2>1, <2>4, PoolKept DEF Leasing, Referenced
  <2> QED BY <1>f, <2>1, <2>2, <2>3, <2>4, <2>5, <2>6, ArenaTaken
<1>4. CASE AllocFail(b)
  <2>1. /\ UNCHANGED <<demandQ, prefetchQ, worker>> /\ Leasing(b)
        /\ inUse' = [inUse EXCEPT ![batch[b].lease] = FALSE]
    BY <1>4 DEF AllocFail, Leasing, poolVars
  <2>2. \A c \in Batches \ {b} : batch'[c] = batch[c] /\ ticket'[c] = ticket[c]
    BY <1>4, <1>f DEF AllocFail
  <2>3. \A c \in Batches \ {b} : Leasing(c) => Leasing(c)'
    BY <2>1, <2>2, PoolKept DEF Leasing, Referenced
  <2> QED BY <1>f, <2>1, <2>2, <2>3, ArenaFreed
<1>5. CASE Publish(b)
  <2>1. batch' = batch /\ inUse' = inUse /\ worker' = worker /\ ticket'[b].pc = "held"
    BY <1>5, <1>f DEF Publish, TicketRecord
  <2>2. \A c \in Batches \ {b} : ticket'[c] = ticket[c]
    BY <1>5, <1>f DEF Publish
  <2>3. ASSUME NEW c \in Batches, Queued(c)
        PROVE  Queued(c)'
    <3>1. Participating(batch[b].njobs) \in Nat
      BY <1>f, CopiesType
    <3>2. \/ demandQ' = demandQ \o Copies(b) /\ prefetchQ' = prefetchQ
          \/ prefetchQ' = prefetchQ \o Copies(b) /\ demandQ' = demandQ
      BY <1>5 DEF Publish
    <3>3. /\ Within(c, demandQ) => Within(c, demandQ \o Copies(b))
          /\ Within(c, prefetchQ) => Within(c, prefetchQ \o Copies(b))
      BY <1>f, <3>1, CopiesOthers DEF Copies
    <3>4. \/ /\ Within(c, demandQ)' <=> Within(c, demandQ \o Copies(b))
             /\ Within(c, prefetchQ)' <=> Within(c, prefetchQ)
          \/ /\ Within(c, prefetchQ)' <=> Within(c, prefetchQ \o Copies(b))
             /\ Within(c, demandQ)' <=> Within(c, demandQ)
      BY <3>2 DEF Within
    <3> QED BY <2>3, <3>3, <3>4 DEF Queued
  <2>4. \A c \in Batches : PoolHolds(c) => PoolHolds(c)'
    BY <2>1, <2>3 DEF PoolHolds, HeldBy
  <2>5. \A c \in Batches : Leasing(c) => Leasing(c)'
    BY <2>1, <2>2, <2>4 DEF Leasing, Referenced, Owning
  <2> QED BY <2>1, <2>5, ArenaKept
<1>6. CASE DropOwner(b)
  <2>1. UNCHANGED <<demandQ, prefetchQ, worker>> /\ Release(b) /\ Referenced(b)
    BY <1>6 DEF DropOwner, poolVars, Referenced, Owning
  <2>2. \A c \in Batches \ {b} : ticket'[c] = ticket[c]
    BY <1>6, <1>f DEF DropOwner
  <2> QED BY <1>f, <2>1, <2>2, PoolKept, ReleaseArena
<1>7. ASSUME \/ WaitOk(b) \/ WaitEnd(b) \/ Sleep(b) \/ ReadyReturn(b)
             \/ CancelCas(b) \/ CancelNone(b) \/ CancelSub(b)
             \/ \E g \in Goals : BeginWait(b, g) \/ BeginCancel(b, g)
             \/ \E m \in 1 .. Sources(b) : WaitReadySources(b, m)
      PROVE  Accounted' /\ Reserved'
  <2>1. UNCHANGED <<demandQ, prefetchQ, worker, inUse>>
    BY <1>7 DEF WaitOk, WaitEnd, Sleep, ReadyReturn, CancelCas, CancelNone, CancelSub, BeginWait,
                BeginCancel, WaitReadySources, poolVars
  <2>2. ticket'[b].pc \in Owning /\ \A c \in Batches \ {b} : ticket'[c] = ticket[c]
    <3>1. AfterCancel(ticket[b].goal) \in Owning
      BY DEF AfterCancel, Owning
    <3>2. CASE CancelCas(b) \/ CancelNone(b) \/ CancelSub(b)
      BY <1>f, <3>1, <3>2 DEF CancelCas, CancelNone, CancelSub, TicketRecord, Owning
    <3>3. CASE WaitOk(b) \/ WaitEnd(b) \/ Sleep(b) \/ ReadyReturn(b)
      BY <1>f, <3>3 DEF WaitOk, WaitEnd, Sleep, ReadyReturn, TicketRecord, Owning
    <3>4. CASE \E m \in 1 .. Sources(b) : WaitReadySources(b, m)
      BY <1>f, <3>4 DEF WaitReadySources, TicketRecord, Owning
    <3>5. CASE \E g \in Goals : BeginWait(b, g)
      BY <1>f, <3>5 DEF BeginWait, TicketRecord, Owning
    <3>6. CASE \E g \in Goals : BeginCancel(b, g)
      <4>1. \E g \in Goals : \E n :
              ticket' = [ticket EXCEPT ![b].pc = "cas", ![b].goal = g, ![b].seen = n]
        BY <3>6 DEF BeginCancel
      <4> QED BY <1>f, <4>1 DEF TicketRecord, Owning
    <3> QED BY <1>7, <3>2, <3>3, <3>4, <3>5, <3>6
  <2>3. \A c \in Batches : batch'[c].lease = batch[c].lease /\ batch'[c].prio = batch[c].prio
    <3>1. \/ batch' = batch
          \/ batch' = [batch EXCEPT ![b].cancelled = TRUE]
          \/ batch' = [batch EXCEPT ![b].next = batch[b].njobs]
          \/ \E r : batch' = [batch EXCEPT ![b].remaining = r]
      BY <1>7 DEF WaitOk, WaitEnd, Sleep, ReadyReturn, CancelCas, CancelNone, CancelSub,
                  BeginWait, BeginCancel, WaitReadySources
    <3>2. CASE batch' = [batch EXCEPT ![b].cancelled = TRUE]
      BY <1>f, <3>2 DEF BatchRecord
    <3>3. CASE batch' = [batch EXCEPT ![b].next = batch[b].njobs]
      BY <1>f, <3>3 DEF BatchRecord
    <3>4. ASSUME NEW r, batch' = [batch EXCEPT ![b].remaining = r]
          PROVE  \A c \in Batches :
                   batch'[c].lease = batch[c].lease /\ batch'[c].prio = batch[c].prio
      BY <1>f, <3>4 DEF BatchRecord
    <3> QED BY <3>1, <3>2, <3>3, <3>4
  <2> QED BY <2>1, <2>2, <2>3, PoolKept, ArenaKept DEF Leasing, Referenced
<1> QED BY <1>1, <1>2, <1>3, <1>4, <1>5, <1>6, <1>7 DEF Calls, Progress

\* A worker's step keeps the accounting of the arena.
LEMMA WorkerArena ==
  ASSUME TInv, SlotInv, Accounted, Reserved, NEW w \in Workers, Work(w)
  PROVE  Accounted' /\ Reserved'
<1>f. /\ worker \in [Workers -> WorkerRecord] /\ batch \in [Batches -> BatchRecord]
      /\ ticket \in [Batches -> TicketRecord] /\ TypeOK
  BY DEF TInv, TypeOK
<1>1. CASE DropIdle(w) \/ DropFinished(w)
  <2>1. PICK b \in Batches : b = worker[w].batch /\ Release(b)
    BY <1>1 DEF DropIdle, DropFinished
  <2>2. Referenced(b) /\ ticket' = ticket
    BY <1>1, <2>1 DEF DropIdle, DropFinished, Referenced, PoolHolds, HeldBy, Holding
  <2>3. \A c \in Batches \ {b} : PoolHolds(c) => PoolHolds(c)'
    BY <2>1, PoolStays
  <2> QED BY <1>f, <2>1, <2>2, <2>3, ReleaseArena
<1>2. CASE ~DropIdle(w) /\ ~DropFinished(w)
  <2>1. \A c \in Batches : PoolHolds(c) => PoolHolds(c)'
    BY <1>2, PoolStays
  <2>2. \A c \in Batches : \/ ticket'[c].pc = ticket[c].pc
                           \/ ticket[c].pc = "asleep" /\ ticket'[c].pc = "check"
    BY WorkerOwners
  <2>3. \A c \in Batches : Leasing(c) => Leasing(c)'
    BY <2>1, <2>2 DEF Leasing, Referenced, Owning
  <2>4. inUse' = inUse
    BY <1>2 DEF Work, Pop, Exit, Claim, JobOk, JobFail, Note, CountDown, QuantumEnd, Requeue,
                Notify
  <2>5. \A c \in Batches : batch'[c].lease = batch[c].lease /\ batch'[c].prio = batch[c].prio
    <3>1. CASE Claim(w) \/ JobOk(w) \/ JobFail(w)
      BY <1>f, <3>1 DEF Claim, JobOk, JobFail, BatchRecord
    <3>2. CASE Note(w)
      BY <1>f, <3>2 DEF Note, BatchRecord
    <3>3. CASE CountDown(w)
      <4>1. batch' = [batch EXCEPT ![worker[w].batch].remaining = @ - 1]
        BY <3>3 DEF CountDown
      <4> QED BY <1>f, <4>1 DEF BatchRecord
    <3>4. CASE Pop(w) \/ Exit(w) \/ QuantumEnd(w) \/ Requeue(w) \/ Notify(w)
      BY <3>4 DEF Pop, Exit, QuantumEnd, Requeue, Notify
    <3> QED BY <1>2, <3>1, <3>2, <3>3, <3>4 DEF Work
  <2> QED BY <2>3, <2>4, <2>5, ArenaKept
<1> QED BY <1>1, <1>2

-----------------------------------------------------------------------------
(* The theorems.                                                             *)

\* A Reader that has just been built has no batch, and every slot is free.
LEMMA InitSound == Init => CInv
<1> SUFFICES ASSUME Init PROVE CInv
  OBVIOUS
<1>1. SoundInv
  <2> SUFFICES ASSUME NEW b \in Batches PROVE Sound(b)
    BY DEF SoundInv
  <2>1. ~Referenced(b) /\ ticket[b].pc = "idle" /\ \A w \in Workers : ~HeldBy(w, b)
    BY DEF Init, Referenced, PoolHolds, Queued, Within, HeldBy, Absent, Parked, Owning, Holding,
           Running
  <2> QED BY <2>1 DEF Sound, Blank, Exact, Cancelling, Placed, Landing, Served, Awaited, Published
<1>2. FreeSlots = Slots
  BY DEF Init, FreeSlots
<1>3. Accounted /\ Reserved
  BY <1>2, ReaderAssumption DEF Init, Accounted, Reserved
<1> QED BY <1>1, <1>3 DEF CInv

\* Every step keeps what is known of every batch and of the arena.
LEMMA StepSound ==
  ASSUME IInv, CInv, [Next]_vars
  PROVE  IInv' /\ CInv'
<1>1. IInv'
  BY StepSlots
<1>2. TInv /\ TInv' /\ SlotInv
  BY <1>1 DEF IInv
<1>3. CASE Close \/ UNCHANGED vars
  <2>1. UNCHANGED <<demandQ, prefetchQ, worker, inUse, batch, ticket>>
    BY <1>3 DEF Close, vars, poolVars
  <2>2. SoundInv'
    <3>1. \A c \in Batches : Queued(c)' <=> Queued(c)
      BY <2>1 DEF Queued, Within
    <3> QED BY <2>1, <3>1, Elsewhere DEF CInv, SoundInv
  <2>3. Accounted' /\ Reserved'
    BY <2>1, PoolKept, ArenaKept DEF CInv, Leasing, Referenced
  <2> QED BY <1>1, <2>2, <2>3 DEF CInv
<1>4. ASSUME NEW b \in Batches, Calls(b) \/ Progress(b)
      PROVE  CInv'
  BY <1>2, <1>4, OwnerSound, OwnerArena DEF CInv
<1>5. ASSUME NEW w \in Workers, Work(w)
      PROVE  CInv'
  BY <1>2, <1>5, WorkerSound, WorkerArena DEF CInv
<1> QED BY <1>1, <1>3, <1>4, <1>5 DEF Next

\* What is known of every batch and of the arena holds in every reachable state.
THEOREM CompletionInvariance == Spec => [](IInv /\ CInv)
<1>1. Init => IInv /\ CInv
  BY InitSlots, InitSound
<1>2. IInv /\ CInv /\ [Next]_vars => IInv' /\ CInv'
  BY StepSound
<1> QED BY <1>1, <1>2, PTL DEF Spec

\* Batch::wait and remaining, for every Reader: LayerBuffers that wait returned
\* are complete and quiet, the countdown neither wraps nor ends early, and a
\* sleeping owner is always about to be woken.
THEOREM CompletionCounts == Spec => []CompletionIsExact
<1>1. IInv /\ CInv => CompletionIsExact
  <2> SUFFICES ASSUME IInv, CInv PROVE CompletionIsExact
    OBVIOUS
  <2>t. TypeOK /\ \A b \in Batches : Sound(b)
    BY DEF IInv, TInv, CInv, SoundInv
  <2>1. PublishedComplete
    <3> SUFFICES ASSUME NEW b \in Batches, ticket[b].pc = "buffers"
                 PROVE  /\ batch[b].landed = 0 .. batch[b].njobs - 1
                        /\ ~batch[b].failed
                        /\ \A w \in Workers : HeldBy(w, b) => worker[w].pc \notin Running
      BY DEF PublishedComplete
    <3>1. /\ batch[b].landed = 0 .. batch[b].njobs - 1 /\ ~batch[b].failed
          /\ batch[b].remaining = 0 /\ Referenced(b)
      BY <2>t DEF Sound, Published, Referenced, Owning
    <3>2. InFlight(b) = {}
      BY <2>t, <3>1, CountedDown DEF Sound
    <3> QED BY <3>1, <3>2 DEF InFlight
  <2>2. RemainingExact
    BY <2>t DEF Sound, Exact, Unclaimed, Taken, RemainingExact
  <2>3. NoLostWakeup
    <3> SUFFICES ASSUME NEW b \in Batches, ticket[b].pc = "asleep"
                 PROVE  \/ \E w \in Workers :
                             worker[w].batch = b /\ worker[w].pc \in Holding \cup {"notify"}
                        \/ Queued(b) /\ batch[b].next < batch[b].njobs
      BY DEF NoLostWakeup
    <3>1. Referenced(b)
      BY DEF Referenced, Owning
    <3>2. CASE batch[b].remaining = 0
      BY <2>t, <3>2 DEF Sound, Awaited, Holding
    <3>3. CASE batch[b].remaining # 0
      <4>1. InFlight(b) # {} \/ batch[b].next < batch[b].njobs
        BY <2>t, <3>1, <3>3, CountedDown DEF Sound
      <4>2. CASE InFlight(b) # {}
        BY <4>2 DEF InFlight, HeldBy
      <4>3. CASE batch[b].next < batch[b].njobs
        BY <2>t, <3>1, <4>3 DEF Sound, Served, PoolHolds, HeldBy
      <4> QED BY <4>1, <4>2, <4>3
    <3> QED BY <3>2, <3>3
  <2> QED BY <2>1, <2>2, <2>3 DEF CompletionIsExact
<1> QED BY <1>1, CompletionInvariance, PTL

\* ready_sources never reports a source whose bytes are not there, unless the
\* error of the read that failed can be seen.
THEOREM ReadinessIsHonest == Spec => []ReadySourceHonest
<1>1. CInv => ReadySourceHonest
  <2> SUFFICES ASSUME CInv, NEW b \in Batches, Referenced(b), ~batch[b].failed,
                      NEW src \in ReadySources(b)
               PROVE  ChunksOf(b, src) \subseteq batch[b].landed
    BY DEF ReadySourceHonest
  <2>1. batch[b].noted \subseteq batch[b].landed
    BY DEF CInv, SoundInv, Sound, Landing
  <2>2. ChunksOf(b, src) \subseteq batch[b].noted
    BY DEF ReadySources
  <2> QED BY <2>1, <2>2
<1> QED BY <1>1, CompletionInvariance, PTL

\* The arena, for every Reader: a slot is in use exactly while a batch leases
\* it, and of several slots prefetch never holds the last.
THEOREM NoSlotIsLost == Spec => []SlotsAreKept
<1>1. IInv /\ CInv => SlotsAreKept
  <2> SUFFICES ASSUME IInv, CInv PROVE SlotsAreKept
    OBVIOUS
  <2>1. SlotsAccounted
    BY DEF IInv, SlotInv, LeaseInv, CInv, Accounted, SlotsAccounted
  <2>2. DemandKeepsASlot
    BY DEF CInv, Reserved, DemandKeepsASlot
  <2> QED BY <2>1, <2>2 DEF SlotsAreKept
<1> QED BY <1>1, CompletionInvariance, PTL


-----------------------------------------------------------------------------
(* The tile: its inductive invariant.                                        *)

\* The places at which the decode thread holds the ticket outside of a call.
Deciding == {"wave", "error", "whole", "dispatch", "done", "failed"}

ArrivalTypes ==
  /\ apc \in Deciding \cup {"none", "submit", "waiting"}
  /\ wave \in Nat \ {0} /\ finals \in Nat

\* Where the tile's owner is in the reader.
OwnerPlace ==
  /\ apc \in Deciding => ticket[Tile].pc = "held"
  /\ apc = "submit" => ticket[Tile].pc \in {"acquire", "alloc", "held", "idle"}
  /\ apc = "waiting" => \/ ticket[Tile].pc = "held"
                        \/ ticket[Tile].pc \in {"check", "asleep"} /\ ticket[Tile].goal = "ready"

\* The union of a tile has an expert.
TileSized == apc # "none" /\ ticket[Tile].pc # "idle" => Sources(Tile) >= 1

\* What the decode thread knows of the sources it takes as ready.
Evidence ==
  /\ apc = "error" => \A src \in ready : ChunksOf(Tile, src) \subseteq batch[Tile].noted
  /\ apc = "whole" => \A src \in ready : ChunksOf(Tile, src) \subseteq batch[Tile].landed
  /\ apc = "dispatch" =>
       \/ batch[Tile].remaining = 0
       \/ \A src \in ready : ChunksOf(Tile, src) \subseteq batch[Tile].landed
  /\ apc = "submit" => early = {}

AInv ==
  /\ ArrivalTypes /\ OwnerPlace /\ TileSized /\ Evidence
  /\ FinalGroupCompletes /\ EarlyExpertsLanded

-----------------------------------------------------------------------------
(* Numbers.                                                                  *)

\* The quotient is a number, and its multiple is no more than the dividend.
LEMMA Quotient ==
  ASSUME NEW x \in Nat, NEW d \in Nat \ {0}
  PROVE  x \div d \in Nat /\ d * (x \div d) <= x
<1>1. x \div d \in Int /\ x \div d >= 0
  OBVIOUS
<1>2. d * (x \div d) <= x
  OBVIOUS
<1> QED BY <1>1, <1>2

\* A union that is not empty has a whole number of sources, and one at least.
LEMMA OneSource ==
  ASSUME NEW n \in JobCounts, n > 0
  PROVE  n \div Chunks >= 1
<1>1. n \in Nat /\ Chunks \in Nat \ {0} /\ n % Chunks = 0
  BY ReaderAssumption
<1> QED BY <1>1

\* A wave waits for one source at least and for no more than there are.
LEMMA TargetInRange ==
  ASSUME ArrivalTypes, Sources(Tile) \in Nat, Sources(Tile) >= 1
  PROVE  Target \in 1 .. Sources(Tile)
<1> DEFINE n == Sources(Tile)
           x == n * wave + Waves - 1
           share == x \div Waves
<1>1. n \in Nat /\ n >= 1 /\ wave \in Nat \ {0} /\ Waves \in Nat \ {0}
  BY ArrivalAssumption DEF ArrivalTypes
<1>2. Target = IF wave >= Waves THEN n ELSE IF share < 1 THEN 1 ELSE share
  BY DEF Target
<1>3. ASSUME wave < Waves PROVE share \in Nat /\ share <= n
  <2> HIDE DEF n
  <2>1. n * wave \in Nat /\ n * wave <= n * (Waves - 1)
    <3>1. Waves - 1 - wave \in Nat
      BY <1>1, <1>3
    <3>2. n * (Waves - 1 - wave) \in Nat
      BY <1>1, <3>1
    <3>3. n * (Waves - 1) = n * wave + n * (Waves - 1 - wave)
      BY <1>1, <3>1
    <3> QED BY <1>1, <3>2, <3>3
  <2>2. x \in Nat /\ x < (n + 1) * Waves
    <3>1. (n + 1) * Waves = n * (Waves - 1) + n + Waves
      BY <1>1
    <3>2. n * (Waves - 1) \in Nat
      BY <1>1
    <3> QED BY <1>1, <2>1, <3>1, <3>2
  <2> HIDE DEF x
  <2>3. share \in Nat /\ Waves * share <= x
    BY <1>1, <2>2, Quotient
  <2> HIDE DEF share
  <2>4. share < n + 1
    <3> SUFFICES ASSUME share >= n + 1 PROVE FALSE
      BY <1>1, <2>3
    <3>1. share - (n + 1) \in Nat
      BY <1>1, <2>3
    <3>2. Waves * (share - (n + 1)) \in Nat
      BY <1>1, <3>1
    <3>3. Waves * (share - (n + 1)) = Waves * share - (n + 1) * Waves
      BY <1>1, <2>3
    <3>4. Waves * share \in Nat /\ (n + 1) * Waves \in Nat
      BY <1>1, <2>3
    <3> QED BY <2>2, <2>3, <3>2, <3>3, <3>4
  <2> QED BY <1>1, <2>3, <2>4
<1> HIDE DEF n, share
<1> QED BY <1>1, <1>2, <1>3 DEF n

-----------------------------------------------------------------------------
(* Storage steps, seen from the tile.                                        *)

\* The tile's owner is submitting, holding or waiting for sources.
Engaged ==
  \/ ticket[Tile].pc \in {"acquire", "alloc", "held"}
  \/ ticket[Tile].pc \in {"check", "asleep"} /\ ticket[Tile].goal = "ready"

\* What the other threads, and the decode thread inside a call, do to the tile:
\* progress only grows, and a call of the reader ends where it should.
Advances ==
  \/ ticket[Tile].pc = "alloc" /\ ticket'[Tile].pc = "idle"
  \/ /\ ticket'[Tile].goal = ticket[Tile].goal
     /\ \/ ticket'[Tile].pc = ticket[Tile].pc
        \/ ticket[Tile].pc = "acquire" /\ ticket'[Tile].pc = "alloc"
        \/ ticket[Tile].pc = "alloc" /\ ticket'[Tile].pc = "held"
        \/ ticket[Tile].pc \in {"check", "asleep"} /\ ticket'[Tile].pc \in {"check", "asleep", "held"}
     /\ batch'[Tile].njobs = batch[Tile].njobs
     /\ batch[Tile].noted \subseteq batch'[Tile].noted
     /\ batch[Tile].landed \subseteq batch'[Tile].landed
     /\ ticket[Tile].pc \in Owning /\ batch[Tile].remaining = 0 => batch'[Tile].remaining = 0

\* A worker's step.
LEMMA WorkerAdvances ==
  ASSUME IInv, CInv, Engaged, NEW w \in Workers, Work(w)
  PROVE  Advances
<1>f. /\ worker \in [Workers -> WorkerRecord] /\ batch \in [Batches -> BatchRecord]
      /\ ticket \in [Batches -> TicketRecord] /\ TypeOK /\ TInv /\ Tile \in Batches
  BY ArrivalAssumption DEF IInv, TInv, TypeOK
<1>1. /\ ticket'[Tile].goal = ticket[Tile].goal
      /\ \/ ticket'[Tile].pc = ticket[Tile].pc
         \/ ticket[Tile].pc = "asleep" /\ ticket'[Tile].pc = "check"
  <2>1. ticket' = ticket \/ ticket' = Wake(worker[w].batch)
    BY DEF Work, Pop, Exit, Claim, JobOk, JobFail, Note, CountDown, QuantumEnd, Requeue,
           DropIdle, DropFinished, Notify
  <2> QED BY <1>f, <2>1 DEF Wake, TicketRecord
<1>2. CASE CountDown(w)
  <2> DEFINE c == worker[w].batch
  <2>1. batch' = [batch EXCEPT ![c].remaining = @ - 1]
    BY <1>2 DEF CountDown
  <2>2. /\ batch'[Tile].njobs = batch[Tile].njobs /\ batch'[Tile].noted = batch[Tile].noted
        /\ batch'[Tile].landed = batch[Tile].landed
        /\ c # Tile => batch'[Tile] = batch[Tile]
    BY <1>f, <2>1 DEF BatchRecord
  <2>3. ASSUME ticket[Tile].pc \in Owning, batch[Tile].remaining = 0, c = Tile PROVE FALSE
    <3>1. w \in InFlight(Tile)
      BY <1>2, <2>3 DEF CountDown, InFlight, HeldBy, Holding, Running
    <3>2. InFlight(Tile) = {}
      BY <1>f, <2>3, CountedDown DEF CInv, SoundInv, Sound, Referenced
    <3> QED BY <3>1, <3>2
  <2> HIDE DEF c
  <2> QED BY <1>1, <2>2, <2>3 DEF Advances
<1>3. CASE ~CountDown(w)
  <2>1. /\ batch'[Tile].njobs = batch[Tile].njobs /\ batch[Tile].noted \subseteq batch'[Tile].noted
        /\ batch[Tile].landed \subseteq batch'[Tile].landed
        /\ batch'[Tile].remaining = batch[Tile].remaining
    <3>1. CASE Claim(w)
      <4>1. batch' = [batch EXCEPT ![worker[w].batch].next = batch[worker[w].batch].next + 1]
        BY <3>1 DEF Claim
      <4> QED BY <1>f, <4>1 DEF BatchRecord
    <3>2. CASE JobFail(w)
      <4>1. batch' = [batch EXCEPT ![worker[w].batch].failed = TRUE]
        BY <3>2 DEF JobFail
      <4> QED BY <1>f, <4>1 DEF BatchRecord
    <3>3. CASE JobOk(w)
      <4>1. PICK j : batch' = [batch EXCEPT ![worker[w].batch].landed = @ \cup {j}]
        BY <3>3 DEF JobOk
      <4> QED BY <1>f, <4>1 DEF BatchRecord
    <3>4. CASE Note(w)
      <4>1. PICK j : batch' = [batch EXCEPT ![worker[w].batch].noted = @ \cup {j}]
        <5>1. batch' = [batch EXCEPT ![worker[w].batch].noted =
                          batch[worker[w].batch].noted \cup {worker[w].job}]
          BY <3>4 DEF Note
        <5> QED BY <5>1
      <4> QED BY <1>f, <4>1 DEF BatchRecord
    <3>5. CASE UNCHANGED batch
      BY <3>5
    <3>6. CASE DropIdle(w) \/ DropFinished(w)
      <4>1. PICK b \in Batches : b = worker[w].batch /\ Release(b)
        BY <3>6 DEF DropIdle, DropFinished
      <4>2. CASE b # Tile
        BY <1>f, <4>1, <4>2 DEF Release
      <4>3. CASE b = Tile
        <5>1. PoolHolds(Tile)
          BY <3>6, <4>1, <4>3 DEF DropIdle, DropFinished, PoolHolds, HeldBy, Holding
        <5>2. ticket[Tile].pc \in Owning
          BY <5>1, <1>f DEF IInv, SlotInv, FreshInv, Engaged, Owning
        <5>3. Referenced(Tile)'
          BY <3>6, <5>2 DEF DropIdle, DropFinished, Referenced
        <5> QED BY <4>1, <4>3, <5>3 DEF Release
      <4> QED BY <4>2, <4>3
    <3>7. \/ Claim(w) \/ JobFail(w) \/ JobOk(w) \/ Note(w) \/ UNCHANGED batch
          \/ DropIdle(w) \/ DropFinished(w)
      BY <1>3 DEF Work, Pop, Exit, QuantumEnd, Requeue, Notify
    <3> QED BY <3>1, <3>2, <3>3, <3>4, <3>5, <3>6, <3>7
  <2> QED BY <1>1, <2>1 DEF Advances
<1> QED BY <1>2, <1>3

\* A step of a call already begun, or of a ticket being dropped.
LEMMA OwnerAdvances ==
  ASSUME IInv, CInv, Engaged, NEW b \in Batches,
         Progress(b) \/ (ticket[b].pc = "dropping" /\ DropOwner(b))
  PROVE  Advances
<1>f. /\ batch \in [Batches -> BatchRecord] /\ ticket \in [Batches -> TicketRecord]
      /\ Tile \in Batches
  BY ArrivalAssumption DEF IInv, TInv, TypeOK
<1>1. CASE b # Tile
  <2>1. batch'[Tile] = batch[Tile]
    <3>1. \/ batch' = batch \/ \E r : batch' = [batch EXCEPT ![b] = r]
      <4>1. CASE Acquire(b) \/ AllocFail(b) \/ Publish(b) \/ Sleep(b) \/ ReadyReturn(b)
        BY <1>f, <4>1 DEF Acquire, AllocFail, Publish, Sleep, ReadyReturn
      <4>2. CASE WaitOk(b) \/ WaitEnd(b) \/ CancelCas(b) \/ CancelNone(b) \/ CancelSub(b)
        BY <1>f, <4>2 DEF WaitOk, WaitEnd, CancelCas, CancelNone, CancelSub
      <4>3. CASE DropOwner(b)
        BY <4>3 DEF DropOwner, Release
      <4> QED BY <4>1, <4>2, <4>3 DEF Progress
    <3> QED BY <1>1, <1>f, <3>1
  <2>2. ticket'[Tile] = ticket[Tile]
    BY <1>1, <1>f DEF Progress, Acquire, AllocFail, Publish, Sleep, ReadyReturn, WaitOk, WaitEnd,
       CancelCas, CancelNone, CancelSub, DropOwner
  <2> QED BY <2>1, <2>2 DEF Advances
<1>2. CASE b = Tile
  <2>1. CASE Acquire(b)
    BY <1>2, <1>f, <2>1 DEF Acquire, Advances, TicketRecord, BatchRecord, Owning
  <2>2. CASE AllocFail(b)
    BY <1>2, <1>f, <2>2 DEF AllocFail, Advances, Absent
  <2>3. CASE Publish(b)
    BY <1>2, <1>f, <2>3 DEF Publish, Advances, TicketRecord
  <2>4. CASE Sleep(b) \/ ReadyReturn(b)
    BY <1>2, <1>f, <2>4 DEF Sleep, ReadyReturn, Advances, TicketRecord
  <2>5. ~WaitOk(b) /\ ~WaitEnd(b) /\ ~CancelCas(b) /\ ~CancelNone(b) /\ ~CancelSub(b)
        /\ ticket[b].pc # "dropping"
    BY <1>2 DEF Engaged, WaitOk, WaitEnd, CancelCas, CancelNone, CancelSub
  <2> QED BY <2>1, <2>2, <2>3, <2>4, <2>5 DEF Progress
<1> QED BY <1>1, <1>2

\* The tile keeps what it knows while the reader goes on.
LEMMA ReaderKeeps ==
  ASSUME AInv, Engaged, Advances, UNCHANGED arrivalVars
  PROVE  AInv'
<1>1. /\ apc' = apc /\ wave' = wave /\ ready' = ready
      /\ dispatched' = dispatched /\ early' = early /\ finals' = finals
  BY DEF arrivalVars
<1>2. CASE ticket[Tile].pc = "alloc" /\ ticket'[Tile].pc = "idle"
  <2>1. apc = "none" \/ (apc = "submit" /\ early = {} /\ finals = 0)
    BY <1>2 DEF AInv, ArrivalTypes, OwnerPlace, Deciding, Evidence, FinalGroupCompletes
  <2> QED BY <1>1, <1>2, <2>1 DEF AInv, ArrivalTypes, OwnerPlace, Deciding, TileSized, Evidence,
             FinalGroupCompletes, EarlyExpertsLanded
<1>3. CASE ~(ticket[Tile].pc = "alloc" /\ ticket'[Tile].pc = "idle")
  <2>1. /\ ticket'[Tile].goal = ticket[Tile].goal
        /\ \/ ticket'[Tile].pc = ticket[Tile].pc
           \/ ticket[Tile].pc = "acquire" /\ ticket'[Tile].pc = "alloc"
           \/ ticket[Tile].pc = "alloc" /\ ticket'[Tile].pc = "held"
           \/ /\ ticket[Tile].pc \in {"check", "asleep"}
              /\ ticket'[Tile].pc \in {"check", "asleep", "held"}
    BY <1>3 DEF Advances
  <2>2. /\ batch'[Tile].njobs = batch[Tile].njobs
        /\ batch[Tile].noted \subseteq batch'[Tile].noted
        /\ batch[Tile].landed \subseteq batch'[Tile].landed
        /\ ticket[Tile].pc \in Owning /\ batch[Tile].remaining = 0 => batch'[Tile].remaining = 0
    BY <1>3 DEF Advances
  <2>3. /\ Sources(Tile)' = Sources(Tile) /\ Experts' = Experts
        /\ \A src : ChunksOf(Tile, src)' = ChunksOf(Tile, src)
    BY <2>2 DEF Sources, ChunksOf, Experts
  <2>4. ArrivalTypes' /\ FinalGroupCompletes'
    BY <1>1, <2>3 DEF AInv, ArrivalTypes, FinalGroupCompletes
  <2>5. OwnerPlace'
    BY <1>1, <2>1 DEF AInv, OwnerPlace, Deciding
  <2>6. TileSized'
    BY <1>1, <2>3 DEF AInv, TileSized, Engaged
  <2>7. EarlyExpertsLanded'
    BY <1>1, <2>2, <2>3 DEF AInv, EarlyExpertsLanded
  <2>8. Evidence'
    <3>1. apc = "dispatch" => ticket[Tile].pc \in Owning
      BY DEF AInv, OwnerPlace, Deciding, Owning
    <3> QED BY <1>1, <2>2, <2>3, <3>1 DEF AInv, Evidence
  <2> QED BY <2>4, <2>5, <2>6, <2>7, <2>8 DEF AInv
<1> QED BY <1>2, <1>3

\* Between tiles, and after a submission that failed, nothing of the reader matters.
LEMMA ReaderElsewhere ==
  ASSUME AInv, ~Engaged, ticket'[Tile].pc = ticket[Tile].pc, UNCHANGED arrivalVars
  PROVE  AInv'
<1>1. /\ apc' = apc /\ wave' = wave /\ ready' = ready
      /\ dispatched' = dispatched /\ early' = early /\ finals' = finals
  BY DEF arrivalVars
<1>2. apc = "none" \/ (apc = "submit" /\ ticket[Tile].pc = "idle")
  BY DEF AInv, ArrivalTypes, OwnerPlace, Engaged, Deciding
<1>3. apc = "submit" => early = {} /\ finals = 0
  BY DEF AInv, Evidence, FinalGroupCompletes
<1> QED BY <1>1, <1>2, <1>3 DEF AInv, ArrivalTypes, OwnerPlace, Deciding, TileSized, Evidence,
           FinalGroupCompletes, EarlyExpertsLanded

\* The steps of the other threads are steps of the reader, and the tile keeps
\* what it knows.
LEMMA StorageKeeps ==
  ASSUME IInv, CInv, AInv, Storage
  PROVE  [Next]_vars /\ AInv'
<1>f. ticket \in [Batches -> TicketRecord] /\ Tile \in Batches
  BY ArrivalAssumption DEF IInv, TInv, TypeOK
<1>u. UNCHANGED arrivalVars
  BY DEF Storage
<1>1. ASSUME NEW w \in Workers, Work(w)
      PROVE  [Next]_vars /\ AInv'
  <2>1. CASE Engaged
    BY <1>1, <1>u, <2>1, WorkerAdvances, ReaderKeeps DEF Next
  <2>2. CASE ~Engaged
    <3>1. ticket' = ticket \/ ticket' = Wake(worker[w].batch)
      BY <1>1 DEF Work, Pop, Exit, Claim, JobOk, JobFail, Note, CountDown, QuantumEnd, Requeue,
             DropIdle, DropFinished, Notify
    <3>2. apc = "none" \/ ticket[Tile].pc = "idle"
      BY <2>2 DEF AInv, ArrivalTypes, OwnerPlace, Engaged, Deciding
    <3>3. CASE ticket[Tile].pc = "idle"
      <4>1. ticket'[Tile].pc = ticket[Tile].pc
        BY <1>f, <3>1, <3>3 DEF Wake, TicketRecord
      <4> QED BY <1>1, <1>u, <2>2, <4>1, ReaderElsewhere DEF Next
    <3>4. CASE apc = "none"
      BY <1>1, <1>u, <3>4 DEF Next, AInv, ArrivalTypes, OwnerPlace, Deciding, TileSized, Evidence,
         FinalGroupCompletes, EarlyExpertsLanded, arrivalVars
    <3> QED BY <3>2, <3>3, <3>4
  <2> QED BY <2>1, <2>2
<1>2. ASSUME NEW b \in Batches, Progress(b) \/ (ticket[b].pc = "dropping" /\ DropOwner(b))
      PROVE  [Next]_vars /\ AInv'
  <2>1. [Next]_vars
    BY <1>2 DEF Next, Calls
  <2>2. CASE Engaged
    BY <1>2, <1>u, <2>1, <2>2, OwnerAdvances, ReaderKeeps
  <2>3. CASE ~Engaged
    <3>2. apc = "none" \/ ticket[Tile].pc = "idle"
      BY <2>3 DEF AInv, ArrivalTypes, OwnerPlace, Engaged, Deciding
    <3>3. CASE ticket[Tile].pc = "idle"
      <4>1. b # Tile
        BY <1>2, <3>3 DEF Progress, Acquire, AllocFail, Publish, Sleep, ReadyReturn, WaitOk,
           WaitEnd, CancelCas, CancelNone, CancelSub, DropOwner
      <4>2. ticket'[Tile] = ticket[Tile]
        BY <1>2, <1>f, <4>1 DEF Progress, Acquire, AllocFail, Publish, Sleep, ReadyReturn, WaitOk,
           WaitEnd, CancelCas, CancelNone, CancelSub, DropOwner
      <4> QED BY <1>u, <2>1, <2>3, <4>2, ReaderElsewhere
    <3>4. CASE apc = "none"
      BY <1>u, <2>1, <3>4 DEF AInv, ArrivalTypes, OwnerPlace, Deciding, TileSized, Evidence,
         FinalGroupCompletes, EarlyExpertsLanded, arrivalVars
    <3> QED BY <3>2, <3>3, <3>4
  <2> QED BY <2>2, <2>3, <2>1
<1> QED BY <1>1, <1>2 DEF Storage

-----------------------------------------------------------------------------
(* The decode thread's own steps.                                            *)

\* A tile starts with a submission of a union that is not empty.
LEMMA StartKeeps ==
  ASSUME IInv, NEW n \in JobCounts, StartTile(n)
  PROVE  [Next]_vars /\ AInv'
<1>f. /\ batch \in [Batches -> BatchRecord] /\ ticket \in [Batches -> TicketRecord]
      /\ Tile \in Batches
  BY ArrivalAssumption DEF IInv, TInv, TypeOK
<1>1. Submit(Tile, "demand", n) /\ n > 0
  BY DEF StartTile
<1>2. [Next]_vars
  BY <1>1, <1>f DEF Next, Calls, Priorities
<1>3. batch'[Tile].njobs = n /\ ticket'[Tile].pc = "acquire"
  BY <1>1, <1>f DEF Submit, NewBatch, Absent
<1>4. Sources(Tile)' >= 1
  BY <1>1, <1>3, OneSource DEF Sources
<1>5. /\ apc' = "submit" /\ wave' = 1 /\ ready' = {} /\ dispatched' = {}
      /\ early' = {} /\ finals' = 0
  BY DEF StartTile
<1> QED BY <1>2, <1>3, <1>4, <1>5 DEF AInv, ArrivalTypes, OwnerPlace, Deciding, TileSized, Evidence,
           FinalGroupCompletes, EarlyExpertsLanded

\* The steps that only read the reader's state keep what they do not change.
LEMMA TileStays ==
  ASSUME UNCHANGED vars
  PROVE  /\ ticket' = ticket /\ batch' = batch
         /\ Sources(Tile)' = Sources(Tile) /\ Experts' = Experts
         /\ \A src : ChunksOf(Tile, src)' = ChunksOf(Tile, src)
  BY DEF vars, Sources, Experts, ChunksOf

\* Before the first wave: the submission failed, the resident group was
\* dispatched, or dispatching it, or a later group, failed.
LEMMA SubmitKeeps ==
  ASSUME AInv, SubmitFailed \/ DispatchResident \/ DispatchFails
  PROVE  UNCHANGED vars /\ AInv'
<1>1. UNCHANGED vars
  BY DEF SubmitFailed, DispatchResident, DispatchFails
<1>2. /\ wave' = wave /\ ready' = ready /\ dispatched' = dispatched
      /\ early' = early /\ finals' = finals
  BY DEF SubmitFailed, DispatchResident, DispatchFails
<1>3. \/ apc' = "none"
      \/ apc' \in {"wave", "failed"} /\ ticket[Tile].pc = "held" /\ apc \notin {"none", "done"}
  BY DEF SubmitFailed, DispatchResident, DispatchFails, AInv, OwnerPlace, Deciding
<1> QED BY <1>1, <1>2, <1>3, TileStays DEF AInv, ArrivalTypes, OwnerPlace, Deciding, TileSized,
           Evidence, FinalGroupCompletes, EarlyExpertsLanded

\* A wave's wait asks for sources that there are.
LEMMA WaitKeeps ==
  ASSUME IInv, AInv, WaveWait
  PROVE  [Next]_vars /\ AInv'
<1>f. /\ batch \in [Batches -> BatchRecord] /\ ticket \in [Batches -> TicketRecord]
      /\ Tile \in Batches
  BY ArrivalAssumption DEF IInv, TInv, TypeOK
<1>1. WaitReadySources(Tile, Target) /\ ticket[Tile].pc = "held" /\ apc = "wave"
  BY DEF WaveWait, WaitReadySources
<1>2. Sources(Tile) \in Nat /\ Sources(Tile) >= 1
  <2>1. batch[Tile].njobs \in Nat /\ Chunks \in Nat \ {0}
    BY <1>f, ReaderAssumption DEF BatchRecord
  <2>2. Sources(Tile) \in Nat
    BY <2>1, Quotient DEF Sources
  <2>3. Sources(Tile) >= 1
    BY <1>1 DEF AInv, TileSized
  <2> QED BY <2>2, <2>3
<1>3. Target \in 1 .. Sources(Tile)
  BY <1>2, TargetInRange DEF AInv
<1>4. [Next]_vars
  BY <1>f, <1>1, <1>3 DEF Next, Calls
<1>5. ticket'[Tile].pc = "check" /\ ticket'[Tile].goal = "ready" /\ batch' = batch
  BY <1>f, <1>1 DEF WaitReadySources, TicketRecord
<1>6. /\ apc' = "waiting" /\ wave' = wave /\ ready' = ready /\ dispatched' = dispatched
      /\ early' = early /\ finals' = finals
  BY DEF WaveWait
<1>7. Sources(Tile)' = Sources(Tile) /\ \A src : ChunksOf(Tile, src)' = ChunksOf(Tile, src)
  BY <1>5 DEF Sources, ChunksOf
<1> QED BY <1>1, <1>2, <1>4, <1>5, <1>6, <1>7 DEF AInv, ArrivalTypes, OwnerPlace, Deciding,
           TileSized, Evidence, FinalGroupCompletes, EarlyExpertsLanded

\* From the wait to the group: what is taken as ready has landed, once the
\* error of a read has been looked for.
LEMMA ReadyKeeps ==
  ASSUME CInv, AInv, WaveReady \/ WaveCheckError \/ WaveWhole
  PROVE  UNCHANGED vars /\ AInv'
<1>1. UNCHANGED vars
  BY DEF WaveReady, WaveCheckError, WaveWhole
<1>2. /\ wave' = wave /\ dispatched' = dispatched /\ early' = early /\ finals' = finals
  BY DEF WaveReady, WaveCheckError, WaveWhole
<1>3. /\ ticket[Tile].pc = "held" /\ finals = 0
      /\ apc \in {"waiting", "error", "whole"}
      /\ apc' \in {"error", "failed", "whole", "dispatch"}
  BY DEF WaveReady, WaveCheckError, WaveWhole, AInv, OwnerPlace, Deciding, FinalGroupCompletes
<1>4. Evidence'
  <2>1. CASE WaveReady
    BY <1>1, <2>1, TileStays DEF WaveReady, ReadySources, Evidence
  <2>2. CASE WaveCheckError
    <3>1. ~batch[Tile].failed => batch[Tile].noted \subseteq batch[Tile].landed
      BY <1>3, ArrivalAssumption DEF CInv, SoundInv, Sound, Landing, Referenced, Owning
    <3>2. \A src \in ready : ChunksOf(Tile, src) \subseteq batch[Tile].noted
      BY <2>2 DEF WaveCheckError, AInv, Evidence
    <3> QED BY <1>1, <2>2, <3>1, <3>2, TileStays DEF WaveCheckError, Evidence
  <2>3. CASE WaveWhole
    BY <1>1, <2>3, TileStays DEF WaveWhole, AInv, Evidence
  <2> QED BY <2>1, <2>2, <2>3
<1>5. ArrivalTypes' /\ OwnerPlace' /\ TileSized' /\ FinalGroupCompletes' /\ EarlyExpertsLanded'
  BY <1>1, <1>2, <1>3, TileStays DEF AInv, ArrivalTypes, OwnerPlace, Deciding, TileSized,
     FinalGroupCompletes, EarlyExpertsLanded
<1> QED BY <1>1, <1>4, <1>5 DEF AInv

\* A group is handed over, or there is nothing new for this wave.
LEMMA GroupKeeps ==
  ASSUME AInv, WaveEmpty \/ WaveDispatch
  PROVE  UNCHANGED vars /\ AInv'
<1>1. UNCHANGED vars /\ ready' = ready /\ apc = "dispatch"
  BY DEF WaveEmpty, WaveDispatch
<1>2. ticket[Tile].pc = "held" /\ finals = 0
  BY <1>1 DEF AInv, OwnerPlace, Deciding, FinalGroupCompletes
<1>3. wave' \in Nat \ {0} /\ apc' \in {"failed", "wave", "done"} /\ finals' \in Nat
  BY <1>1, <1>2 DEF WaveEmpty, WaveDispatch, NextWave, AInv, ArrivalTypes
<1>4. EarlyExpertsLanded'
  <2>1. \A src \in early : ChunksOf(Tile, src) \subseteq batch[Tile].landed
    BY <1>1 DEF AInv, EarlyExpertsLanded
  <2>2. batch[Tile].remaining # 0 =>
          \A src \in Fresh : ChunksOf(Tile, src) \subseteq batch[Tile].landed
    BY <1>1 DEF AInv, Evidence, Fresh
  <2>3. early' \subseteq early \cup (IF batch[Tile].remaining = 0 THEN {} ELSE Fresh)
    BY DEF WaveEmpty, WaveDispatch
  <2> HIDE DEF Fresh
  <2> QED BY <1>1, <2>1, <2>2, <2>3, TileStays DEF EarlyExpertsLanded
<1>5. FinalGroupCompletes'
  <2>1. CASE WaveEmpty
    BY <1>2, <2>1 DEF WaveEmpty, FinalGroupCompletes
  <2>2. CASE WaveDispatch
    BY <1>1, <1>2, <2>2, TileStays DEF WaveDispatch, FinalGroupCompletes
  <2> QED BY <2>1, <2>2
<1>6. ArrivalTypes' /\ OwnerPlace' /\ TileSized' /\ Evidence'
  BY <1>1, <1>2, <1>3, TileStays DEF AInv, ArrivalTypes, OwnerPlace, Deciding, TileSized, Evidence
<1> QED BY <1>1, <1>4, <1>5, <1>6 DEF AInv

\* The lease is dropped: the tile is over.
LEMMA EndKeeps ==
  ASSUME AInv, EndTile
  PROVE  [Next]_vars /\ AInv'
<1>1. [Next]_vars
  BY ArrivalAssumption DEF EndTile, Next, Calls, Goals
<1> QED BY <1>1 DEF EndTile, AInv, ArrivalTypes, OwnerPlace, Deciding, TileSized, Evidence,
           FinalGroupCompletes, EarlyExpertsLanded

-----------------------------------------------------------------------------
(* The theorems.                                                             *)

\* Every step of the tile and of the reader below it is a step the reader may
\* take, and keeps all that is known of both.
LEMMA ArrivalStep ==
  ASSUME IInv, CInv, AInv, [ArrivalNext]_allVars
  PROVE  [Next]_vars /\ IInv' /\ CInv' /\ AInv'
<1>1. CASE Storage
  BY <1>1, StorageKeeps, StepSound
<1>2. CASE Decode
  <2>1. [Next]_vars /\ AInv'
    BY <1>2, StartKeeps, SubmitKeeps, WaitKeeps, ReadyKeeps, GroupKeeps, EndKeeps DEF Decode
  <2> QED BY <2>1, StepSound
<1>3. CASE UNCHANGED allVars
  <2>1. UNCHANGED vars /\ UNCHANGED arrivalVars
    BY <1>3 DEF allVars
  <2>2. AInv'
    BY <2>1, TileStays DEF arrivalVars, AInv, ArrivalTypes, OwnerPlace, Deciding, TileSized,
       Evidence, FinalGroupCompletes, EarlyExpertsLanded
  <2> QED BY <2>1, <2>2, StepSound
<1> QED BY <1>1, <1>2, <1>3 DEF ArrivalNext

\* There is no tile at first.
LEMMA ArrivalStart == ArrivalInit => Init /\ IInv /\ CInv /\ AInv
  BY InitSlots, InitSound DEF ArrivalInit, AInv, ArrivalTypes, OwnerPlace, Deciding, TileSized,
     Evidence, FinalGroupCompletes, EarlyExpertsLanded

\* What is known of the reader and of the tile holds in every reachable state.
THEOREM ArrivalInvariance == ArrivalSpec => [](IInv /\ CInv /\ AInv)
<1>1. IInv /\ CInv /\ AInv /\ [ArrivalNext]_allVars => IInv' /\ CInv' /\ AInv'
  BY ArrivalStep
<1> QED BY <1>1, ArrivalStart, PTL DEF ArrivalSpec

\* finish_arrival uses the reader as a reader may be used: one submission of a
\* batch that is gone, waits for sources that there are, and one drop.  Every
\* behaviour of a tile is one of the reader, so all that is proved of every
\* caller of the reader holds of this one.
THEOREM ArrivalUsesTheReader == ArrivalSpec => Spec
<1>1. IInv /\ CInv /\ AInv /\ [ArrivalNext]_allVars => [Next]_vars
  BY ArrivalStep
<1> QED BY <1>1, ArrivalStart, ArrivalInvariance, PTL DEF ArrivalSpec, Spec

\* finish_arrival, for every union, number of waves and reader: a tile that
\* finished gave every expert to the provider and flagged one group final, and
\* an expert given while the read was in flight had all its bytes.
THEOREM EveryExpertArrivesOnce == ArrivalSpec => []ExpertsArriveOnce
<1>1. AInv => ExpertsArriveOnce
  BY DEF AInv, ExpertsArriveOnce
<1> QED BY <1>1, ArrivalInvariance, PTL

=============================================================================
