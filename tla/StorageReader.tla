---------------------------- MODULE StorageReader ----------------------------
(***************************************************************************)
(* The bounded positional-read pool of native/deltafin/src/storage.rs.  A   *)
(* Reader owns persistent worker threads and a BufferArena of slots.  A     *)
(* submission leases one slot, builds a Batch of read jobs and pushes one   *)
(* clone of Arc<Batch> per participating worker on a two-priority queue;    *)
(* the caller keeps a ReadTicket.  Workers claim jobs by fetch_add on       *)
(* next_job, count finished jobs down in remaining and wake the ticket's    *)
(* owner; a ticket may be cancelled, drained or dropped while jobs of it    *)
(* are inside pread.                                                        *)
(*                                                                          *)
(* One step is one atomic access of shared state, or one critical section   *)
(* of the pool, arena or completion mutex.  A batch is named by b of        *)
(* Batches; the name is reused once every reference of the batch is gone.   *)
(* The strong count of Arc<Batch> and of its lease is not a variable: the   *)
(* references are the entries of the queues, the workers at Holding places  *)
(* and the owner at an Owning place, and the step that removes the last one *)
(* runs Drop for BufferLeaseInner.                                          *)
(***************************************************************************)
EXTENDS Integers, Sequences, FiniteSets

CONSTANTS
  Workers,       \* I/O threads of the Reader
  Slots,         \* arena slots
  Batches,       \* names for batches that exist at the same time
  JobCounts,     \* how many read jobs a submission may have
  Chunks,        \* jobs per source of an inline batch (chunks_per_source)
  Quantum,       \* WORK_QUANTUM
  MaxStreak,     \* MAX_DEMAND_STREAK
  MayFail,       \* whether reads, allocation and identity checks may fail
  MayClose       \* whether the Reader may be dropped

ASSUME ReaderAssumption ==
  /\ IsFiniteSet(Workers) /\ Workers # {}
  /\ IsFiniteSet(Slots) /\ Slots # {}
  /\ Batches # {}
  /\ JobCounts \subseteq Nat
  /\ Chunks \in Nat \ {0}
  /\ \A n \in JobCounts : n % Chunks = 0
  /\ Quantum \in Nat \ {0}
  /\ MaxStreak \in Nat
  /\ MayFail \in BOOLEAN /\ MayClose \in BOOLEAN

VARIABLES
  demandQ, prefetchQ, streak,  \* PriorityQueues, with demand_streak
  closed,                      \* PoolInner.closed
  inUse,                       \* ArenaSlot.in_use
  batch,                       \* Batch and BatchCompletion
  worker,                      \* place of each worker in worker_main
  ticket                       \* place of each ticket's owner

poolVars == <<demandQ, prefetchQ, streak, closed>>
vars == <<poolVars, inUse, batch, worker, ticket>>

-----------------------------------------------------------------------------
Priorities == {"demand", "prefetch"}

\* What the owner is inside of: ReadTicket::wait, drain_cancelled (or the
\* second half of cancel_and_wait), wait_ready_sources, cancel_unclaimed, Drop.
Goals == {"publish", "drain", "ready", "cancel", "abandon"}

\* At the Owning places the owner has a reference of the batch: its ReadTicket
\* or the LayerBuffers that replaced it.
Owning == {"held", "cas", "sub", "check", "asleep", "dropping", "buffers"}
OwnerPlaces == Owning \cup {"idle", "acquire", "alloc"}

\* At the Running places a job of the batch is claimed and not yet counted.
Running == {"run", "note", "dec"}
Holding == Running \cup {"claim", "more", "requeue", "drop", "finish"}
WorkerPlaces == Holding \cup {"pop", "notify", "exit"}

None == "none"

NewBatch(p, n, s) ==
  [prio |-> p, njobs |-> n, lease |-> s, next |-> 0, remaining |-> n,
   cancelled |-> FALSE, failed |-> FALSE, noted |-> {}, landed |-> {}]

NoBatch == NewBatch("demand", 0, None)
Parked  == [pc |-> "pop", batch |-> None, job |-> 0, left |-> 0]
Absent  == [pc |-> "idle", goal |-> "publish", seen |-> 0]

\* let participating = self.workers().min(jobs)
Participating(n) == IF n < Cardinality(Workers) THEN n ELSE Cardinality(Workers)

Within(b, q)  == \E i \in 1 .. Len(q) : q[i] = b
HeldBy(w, b)  == worker[w].pc \in Holding /\ worker[w].batch = b
Queued(b)     == Within(b, demandQ) \/ Within(b, prefetchQ)
PoolHolds(b)  == Queued(b) \/ \E w \in Workers : HeldBy(w, b)
Referenced(b) == ticket[b].pc \in Owning \/ PoolHolds(b)

\* Sources of an inline batch: job i reads a chunk of source i % sources.
Sources(b)       == batch[b].njobs \div Chunks
ChunksOf(b, src) == {i \in 0 .. batch[b].njobs - 1 : i % Sources(b) = src}
ReadySources(b)  == {src \in 0 .. Sources(b) - 1 : ChunksOf(b, src) \subseteq batch[b].noted}

-----------------------------------------------------------------------------
Init ==
  /\ demandQ = <<>> /\ prefetchQ = <<>> /\ streak = 0
  /\ closed = FALSE
  /\ inUse = [s \in Slots |-> FALSE]
  /\ batch = [b \in Batches |-> NoBatch]
  /\ worker = [w \in Workers |-> Parked]
  /\ ticket = [b \in Batches |-> Absent]

-----------------------------------------------------------------------------
(* Admission: BufferArena::acquire and the submit family.                    *)

FreeSlots == {s \in Slots : ~inUse[s]}

Bug_CanAdmit(p) == FreeSlots # {}

\* Prefetch never takes the last free slot of an arena with several.
CanAdmit(p) ==
  /\ FreeSlots # {}
  /\ p = "demand" \/ Cardinality(Slots) = 1 \/ Cardinality(FreeSlots) > 1

\* The name b is free: no reference and no late notify of an earlier batch.
Unused(b) ==
  /\ ticket[b].pc = "idle"
  /\ ~Referenced(b)
  /\ \A w \in Workers : ~(worker[w].pc = "notify" /\ worker[w].batch = b)

\* submit: the call that may wait on the arena's condvar.
Submit(b, p, n) ==
  /\ ~closed /\ Unused(b)
  /\ batch' = [batch EXCEPT ![b] = NewBatch(p, n, None)]
  /\ ticket' = [ticket EXCEPT ![b] = [Absent EXCEPT !.pc = "acquire"]]
  /\ UNCHANGED <<poolVars, inUse, worker>>

\* try_submit: admitted at once or not at all (Ok(None) changes nothing).
TrySubmit(b, p, n) ==
  /\ ~closed /\ Unused(b) /\ CanAdmit(p)
  /\ \E s \in FreeSlots :
       /\ inUse' = [inUse EXCEPT ![s] = TRUE]
       /\ batch' = [batch EXCEPT ![b] = NewBatch(p, n, s)]
  /\ ticket' = [ticket EXCEPT ![b] = [Absent EXCEPT !.pc = "alloc"]]
  /\ UNCHANGED <<poolVars, worker>>

\* Which free slot is taken (arena_slot_cost) depends on capacities, which no
\* property here tells apart: any may be.
Acquire(b) ==
  /\ ticket[b].pc = "acquire" /\ CanAdmit(batch[b].prio)
  /\ \E s \in FreeSlots :
       /\ inUse' = [inUse EXCEPT ![s] = TRUE]
       /\ batch' = [batch EXCEPT ![b].lease = s]
  /\ ticket' = [ticket EXCEPT ![b].pc = "alloc"]
  /\ UNCHANGED <<poolVars, worker>>

\* The retire hook or the allocation failed with the slot already marked.
AllocFail(b) ==
  /\ MayFail /\ ticket[b].pc = "alloc"
  /\ inUse' = [inUse EXCEPT ![batch[b].lease] = FALSE]
  /\ batch' = [batch EXCEPT ![b] = NoBatch]
  /\ ticket' = [ticket EXCEPT ![b] = Absent]
  /\ UNCHANGED <<poolVars, worker>>

Copies(b) == [i \in 1 .. Participating(batch[b].njobs) |-> b]

\* One Arc<Batch> per participating worker, pushed in one critical section.
Publish(b) ==
  /\ ticket[b].pc = "alloc"
  /\ IF batch[b].prio = "demand"
       THEN demandQ' = demandQ \o Copies(b) /\ UNCHANGED prefetchQ
       ELSE prefetchQ' = prefetchQ \o Copies(b) /\ UNCHANGED demandQ
  /\ ticket' = [ticket EXCEPT ![b].pc = "held"]
  /\ UNCHANGED <<streak, closed, inUse, batch, worker>>

-----------------------------------------------------------------------------
(* The ticket's owner.                                                       *)

Bug_Release(b) ==
  IF ticket'[b].pc \in Owning
    THEN UNCHANGED <<inUse, batch>>
    ELSE /\ inUse' = [inUse EXCEPT ![batch[b].lease] = FALSE]
         /\ UNCHANGED batch

\* Drop for BufferLeaseInner: runs when the step took the last reference.
Release(b) ==
  IF Referenced(b)'
    THEN UNCHANGED <<inUse, batch>>
    ELSE /\ inUse' = [inUse EXCEPT ![batch[b].lease] = FALSE]
         /\ batch' = [batch EXCEPT ![b] = NoBatch]

\* ReadTicket::wait and drain_cancelled start waiting for the whole batch ...
BeginWait(b, g) ==
  /\ ticket[b].pc = "held"
  /\ g \in {"publish", "drain"}
  /\ g = "drain" => batch[b].cancelled
  /\ ticket' = [ticket EXCEPT ![b].pc = "check", ![b].goal = g]
  /\ UNCHANGED <<poolVars, inUse, batch, worker>>

\* ... and wait_ready_sources for m of its sources.
WaitReadySources(b, m) ==
  /\ ticket[b].pc = "held"
  /\ ticket' = [ticket EXCEPT ![b].pc = "check", ![b].goal = "ready", ![b].seen = m]
  /\ UNCHANGED <<poolVars, inUse, batch, worker>>

\* The predicate the owner tests under the completion mutex.
Arrived(b) ==
  \/ batch[b].remaining = 0
  \/ /\ ticket[b].goal = "ready"
     /\ \/ Cardinality(ReadySources(b)) >= ticket[b].seen
        \/ batch[b].cancelled

\* Testing and going to sleep is one step: Condvar::wait gives up the mutex.
Sleep(b) ==
  /\ ticket[b].pc = "check" /\ ~Arrived(b)
  /\ ticket' = [ticket EXCEPT ![b].pc = "asleep"]
  /\ UNCHANGED <<poolVars, inUse, batch, worker>>

ReadyReturn(b) ==
  /\ ticket[b].pc = "check" /\ ticket[b].goal = "ready" /\ Arrived(b)
  /\ ticket' = [ticket EXCEPT ![b].pc = "held", ![b].seen = 0]
  /\ UNCHANGED <<poolVars, inUse, batch, worker>>

Bug_WaitFails(b) == batch[b].cancelled

\* Batch::wait returns Err; validate_deferred_source_identities may add one.
WaitFails(b) == batch[b].cancelled \/ batch[b].failed

\* wait returned Ok: LayerBuffers clones the lease, then the ticket drops and
\* its cancel_unclaimed finds every job claimed.
WaitOk(b) ==
  /\ ticket[b].pc = "check" /\ ticket[b].goal = "publish" /\ Arrived(b)
  /\ ~WaitFails(b)
  /\ batch' = [batch EXCEPT ![b].cancelled = TRUE]
  /\ ticket' = [ticket EXCEPT ![b].pc = "buffers"]
  /\ UNCHANGED <<poolVars, inUse, worker>>

\* wait returned Err, or the drain is over: the ticket is dropped.
WaitEnd(b) ==
  /\ ticket[b].pc = "check" /\ Arrived(b)
  /\ \/ ticket[b].goal = "publish" /\ (WaitFails(b) \/ MayFail)
     \/ ticket[b].goal = "drain"
  /\ ticket' = [ticket EXCEPT ![b].pc = "dropping"]
  /\ batch' = [batch EXCEPT ![b].cancelled = TRUE]
  /\ UNCHANGED <<poolVars, inUse, worker>>

\* cancel_unclaimed, first half: the flag, then a load of next_job.
BeginCancel(b, g) ==
  /\ ticket[b].pc = "held"
  /\ g \in {"cancel", "drain", "abandon"}
  /\ batch' = [batch EXCEPT ![b].cancelled = TRUE]
  /\ ticket' = [ticket EXCEPT ![b].pc = "cas", ![b].goal = g, ![b].seen = batch[b].next]
  /\ UNCHANGED <<poolVars, inUse, worker>>

\* Where a finished cancel_unclaimed leaves its caller.
AfterCancel(g) ==
  CASE g = "cancel" -> "held" [] g = "drain" -> "check" [] OTHER -> "dropping"

Bug_CancelCas(b) ==
  /\ ticket[b].pc = "cas" /\ ticket[b].seen < batch[b].njobs
  /\ batch' = [batch EXCEPT ![b].next = batch[b].njobs]
  /\ ticket' = [ticket EXCEPT ![b].pc = "sub"]
  /\ UNCHANGED <<poolVars, inUse, worker>>

\* compare_exchange(next, jobs): claims every job no worker has started.
CancelCas(b) ==
  /\ ticket[b].pc = "cas" /\ ticket[b].seen < batch[b].njobs
  /\ IF batch[b].next = ticket[b].seen
       THEN /\ batch' = [batch EXCEPT ![b].next = batch[b].njobs]
            /\ ticket' = [ticket EXCEPT ![b].pc = "sub"]
       ELSE /\ ticket' = [ticket EXCEPT ![b].seen = batch[b].next]
            /\ UNCHANGED batch
  /\ UNCHANGED <<poolVars, inUse, worker>>

\* next >= jobs: nothing is left to claim.
CancelNone(b) ==
  /\ ticket[b].pc = "cas" /\ ticket[b].seen >= batch[b].njobs
  /\ ticket' = [ticket EXCEPT ![b].pc = AfterCancel(ticket[b].goal), ![b].seen = 0]
  /\ UNCHANGED <<poolVars, inUse, batch, worker>>

\* remaining.fetch_sub(cancelled); the only waiter it could notify is itself.
CancelSub(b) ==
  /\ ticket[b].pc = "sub"
  /\ batch' = [batch EXCEPT ![b].remaining = @ - (batch[b].njobs - ticket[b].seen)]
  /\ ticket' = [ticket EXCEPT ![b].pc = AfterCancel(ticket[b].goal), ![b].seen = 0]
  /\ UNCHANGED <<poolVars, inUse, worker>>

\* The owner's reference goes: the end of Drop for ReadTicket, or the caller
\* is done with its LayerBuffers.
DropOwner(b) ==
  /\ ticket[b].pc \in {"dropping", "buffers"}
  /\ ticket' = [ticket EXCEPT ![b] = Absent]
  /\ UNCHANGED <<poolVars, worker>>
  /\ Release(b)

-----------------------------------------------------------------------------
(* A worker: worker_main and Batch::run_quantum.                             *)

Bug_TakesDemand == demandQ # <<>>

\* PriorityQueues::pop prefers demand until the streak reaches the bound.
TakesDemand == demandQ # <<>> /\ (prefetchQ = <<>> \/ streak < MaxStreak)

\* demand_streak saturates at usize::MAX; past the bound its value is not read.
NextStreak == IF streak < MaxStreak THEN streak + 1 ELSE streak

Start(b) == [pc |-> "claim", batch |-> b, job |-> 0, left |-> Quantum]

Bug_Pop(w) ==
  /\ worker[w].pc = "pop" /\ ~closed
  /\ \/ /\ TakesDemand
        /\ worker' = [worker EXCEPT ![w] = Start(Head(demandQ))]
        /\ demandQ' = Tail(demandQ) /\ streak' = NextStreak
        /\ UNCHANGED prefetchQ
     \/ /\ ~TakesDemand /\ prefetchQ # <<>>
        /\ worker' = [worker EXCEPT ![w] = Start(Head(prefetchQ))]
        /\ prefetchQ' = Tail(prefetchQ) /\ streak' = 0
        /\ UNCHANGED demandQ
  /\ UNCHANGED <<closed, inUse, batch, ticket>>

Pop(w) ==
  /\ worker[w].pc = "pop"
  /\ \/ /\ TakesDemand
        /\ worker' = [worker EXCEPT ![w] = Start(Head(demandQ))]
        /\ demandQ' = Tail(demandQ) /\ streak' = NextStreak
        /\ UNCHANGED prefetchQ
     \/ /\ ~TakesDemand /\ prefetchQ # <<>>
        /\ worker' = [worker EXCEPT ![w] = Start(Head(prefetchQ))]
        /\ prefetchQ' = Tail(prefetchQ) /\ streak' = 0
        /\ UNCHANGED demandQ
  /\ UNCHANGED <<closed, inUse, batch, ticket>>

Bug_Exit(w) ==
  /\ worker[w].pc = "pop" /\ closed /\ demandQ = <<>> /\ prefetchQ = <<>>
  /\ \A v \in Workers : worker[v].pc # "exit"
  /\ worker' = [worker EXCEPT ![w].pc = "exit"]
  /\ UNCHANGED <<poolVars, inUse, batch, ticket>>

\* Nothing queued and the Reader is being dropped: the thread returns.
Exit(w) ==
  /\ worker[w].pc = "pop" /\ closed /\ demandQ = <<>> /\ prefetchQ = <<>>
  /\ worker' = [worker EXCEPT ![w].pc = "exit"]
  /\ UNCHANGED <<poolVars, inUse, batch, ticket>>

\* next_job.fetch_add(1), also past the end.
Claim(w) ==
  /\ worker[w].pc = "claim"
  /\ LET b == worker[w].batch
         i == batch[b].next IN
       /\ batch' = [batch EXCEPT ![b].next = i + 1]
       /\ worker' = IF i < batch[b].njobs
                      THEN [worker EXCEPT ![w].pc = "run", ![w].job = i]
                      ELSE [worker EXCEPT ![w].pc = "drop"]
  /\ UNCHANGED <<poolVars, inUse, ticket>>

\* run_job: the whole read of the job, with its bytes in the slot...
JobOk(w) ==
  /\ worker[w].pc = "run"
  /\ batch' = [batch EXCEPT ![worker[w].batch].landed = @ \cup {worker[w].job}]
  /\ worker' = [worker EXCEPT ![w].pc = "note"]
  /\ UNCHANGED <<poolVars, inUse, ticket>>

Bug_JobFail(w) ==
  /\ MayFail /\ worker[w].pc = "run"
  /\ batch' = [batch EXCEPT ![worker[w].batch].failed = worker[w].job = 0]
  /\ worker' = [worker EXCEPT ![w].pc = "note"]
  /\ UNCHANGED <<poolVars, inUse, ticket>>

\* ... or an error, recorded before the job is counted.
JobFail(w) ==
  /\ MayFail /\ worker[w].pc = "run"
  /\ batch' = [batch EXCEPT ![worker[w].batch].failed = TRUE]
  /\ worker' = [worker EXCEPT ![w].pc = "note"]
  /\ UNCHANGED <<poolVars, inUse, ticket>>

Wake(b) == [ticket EXCEPT ![b].pc = IF @ = "asleep" THEN "check" ELSE @]

\* note_source_progress: the last chunk of a source wakes the waiters.
Note(w) ==
  /\ worker[w].pc = "note"
  /\ LET b == worker[w].batch
         now == batch[b].noted \cup {worker[w].job} IN
       /\ batch' = [batch EXCEPT ![b].noted = now]
       /\ ticket' = IF ChunksOf(b, worker[w].job % Sources(b)) \subseteq now
                      THEN Wake(b) ELSE ticket
  /\ worker' = [worker EXCEPT ![w].pc = "dec"]
  /\ UNCHANGED <<poolVars, inUse>>

Bug_CountDown(w) ==
  /\ worker[w].pc = "dec"
  /\ LET b == worker[w].batch
         after == IF batch[b].remaining = 1 THEN "finish"
                  ELSE IF worker[w].left >= 1 THEN "claim" ELSE "more" IN
       /\ batch' = [batch EXCEPT ![b].remaining = @ - 1]
       /\ worker' = [worker EXCEPT ![w] =
                       [pc |-> after, batch |-> b, job |-> 0, left |-> @.left - 1]]
  /\ UNCHANGED <<poolVars, inUse, ticket>>

\* remaining.fetch_sub(1): the job that takes it to zero finishes the batch.
CountDown(w) ==
  /\ worker[w].pc = "dec"
  /\ LET b == worker[w].batch
         after == IF batch[b].remaining = 1 THEN "finish"
                  ELSE IF worker[w].left > 1 THEN "claim" ELSE "more" IN
       /\ batch' = [batch EXCEPT ![b].remaining = @ - 1]
       /\ worker' = [worker EXCEPT ![w] =
                       [pc |-> after, batch |-> b, job |-> 0, left |-> @.left - 1]]
  /\ UNCHANGED <<poolVars, inUse, ticket>>

\* The quantum is spent: is anything left to claim?
QuantumEnd(w) ==
  /\ worker[w].pc = "more"
  /\ LET b == worker[w].batch IN
       worker' = [worker EXCEPT ![w].pc =
                    IF batch[b].next < batch[b].njobs THEN "requeue" ELSE "drop"]
  /\ UNCHANGED <<poolVars, inUse, batch, ticket>>

Requeue(w) ==
  /\ worker[w].pc = "requeue"
  /\ LET b == worker[w].batch IN
       IF batch[b].prio = "demand"
         THEN demandQ' = Append(demandQ, b) /\ UNCHANGED prefetchQ
         ELSE prefetchQ' = Append(prefetchQ, b) /\ UNCHANGED demandQ
  /\ worker' = [worker EXCEPT ![w] = Parked]
  /\ UNCHANGED <<streak, closed, inUse, batch, ticket>>

Bug_DropIdle(w) ==
  /\ worker[w].pc = "drop"
  /\ worker' = [worker EXCEPT ![w] = Parked]
  /\ UNCHANGED <<poolVars, inUse, batch, ticket>>

\* QuantumOutcome::Idle: drop(batch).
DropIdle(w) ==
  /\ worker[w].pc = "drop"
  /\ worker' = [worker EXCEPT ![w] = Parked]
  /\ UNCHANGED <<poolVars, ticket>>
  /\ \E b \in Batches : b = worker[w].batch /\ Release(b)

\* QuantumOutcome::Finished: the clone is dropped before the notify.
DropFinished(w) ==
  /\ worker[w].pc = "finish"
  /\ worker' = [worker EXCEPT ![w].pc = "notify", ![w].left = 0]
  /\ UNCHANGED <<poolVars, ticket>>
  /\ \E b \in Batches : b = worker[w].batch /\ Release(b)

Bug_Notify(w) ==
  /\ worker[w].pc = "notify"
  /\ worker' = [worker EXCEPT ![w] = Parked]
  /\ UNCHANGED <<poolVars, inUse, batch, ticket>>

Notify(w) ==
  /\ worker[w].pc = "notify"
  /\ ticket' = Wake(worker[w].batch)
  /\ worker' = [worker EXCEPT ![w] = Parked]
  /\ UNCHANGED <<poolVars, inUse, batch>>

\* Drop for Reader.  It takes &mut self, so no submission is in progress.
Close ==
  /\ MayClose /\ ~closed
  /\ \A b \in Batches : ticket[b].pc \notin {"acquire", "alloc"}
  /\ closed' = TRUE
  /\ UNCHANGED <<demandQ, prefetchQ, streak, inUse, batch, worker, ticket>>

-----------------------------------------------------------------------------
Calls(b) ==
  \/ \E p \in Priorities, n \in JobCounts : Submit(b, p, n) \/ TrySubmit(b, p, n)
  \/ \E g \in Goals : BeginWait(b, g) \/ BeginCancel(b, g)
  \/ \E m \in 1 .. Sources(b) : WaitReadySources(b, m)
  \/ DropOwner(b)

\* The steps of a call already begun.
Progress(b) ==
  \/ Acquire(b) \/ AllocFail(b) \/ Publish(b)
  \/ Sleep(b) \/ ReadyReturn(b) \/ WaitOk(b) \/ WaitEnd(b)
  \/ CancelCas(b) \/ CancelNone(b) \/ CancelSub(b)

Work(w) ==
  \/ Pop(w) \/ Exit(w) \/ Claim(w) \/ JobOk(w) \/ JobFail(w) \/ Note(w)
  \/ CountDown(w) \/ QuantumEnd(w) \/ Requeue(w) \/ DropIdle(w) \/ DropFinished(w) \/ Notify(w)

Next ==
  \/ \E b \in Batches : Calls(b) \/ Progress(b)
  \/ \E w \in Workers : Work(w)
  \/ Close

Spec == Init /\ [][Next]_vars

\* A runnable thread runs: every worker takes the step it has, and a caller
\* inside a call of the reader finishes it.  Nobody is obliged to make a call,
\* except that a ticket being dropped is dropped.
Fairness ==
  /\ \A w \in Workers : WF_vars(Work(w))
  /\ \A b \in Batches : WF_vars(Progress(b)) /\ WF_vars(ticket[b].pc = "dropping" /\ DropOwner(b))

FairSpec == Spec /\ Fairness

-----------------------------------------------------------------------------
(* Properties.                                                               *)

BatchRecord ==
  [prio : Priorities, njobs : Nat, lease : Slots \cup {None}, next : Nat, remaining : Int,
   cancelled : BOOLEAN, failed : BOOLEAN, noted : SUBSET Nat, landed : SUBSET Nat]

WorkerRecord ==
  [pc : WorkerPlaces, batch : Batches \cup {None}, job : Nat, left : 0 .. Quantum]

TicketRecord == [pc : OwnerPlaces, goal : Goals, seen : Nat]

\* Every variable has its type (remaining is an integer here: that the atomic
\* never wraps is RemainingExact).
TypeOK ==
  /\ demandQ \in Seq(Batches) /\ prefetchQ \in Seq(Batches)
  /\ streak \in Nat /\ closed \in BOOLEAN
  /\ inUse \in [Slots -> BOOLEAN]
  /\ batch \in [Batches -> BatchRecord]
  /\ worker \in [Workers -> WorkerRecord]
  /\ ticket \in [Batches -> TicketRecord]

\* The names that own an arena slot now.
Leasing(b) == ticket[b].pc = "alloc" \/ Referenced(b)

\* The promise of cancel_unclaimed's comment, "no recycled buffer can race an
\* in-flight kernel or read": while a worker reads into a batch's slot, or the
\* owner looks at the bytes, the slot is in use and is nobody else's, whatever
\* the owner did with its ticket meanwhile.
NoRecycledWrite ==
  \A b \in Batches :
    (\E w \in Workers : HeldBy(w, b) /\ worker[w].pc \in Running) \/ ticket[b].pc = "buffers"
      => /\ inUse[batch[b].lease]
         /\ \A c \in Batches \ {b} : Leasing(c) => batch[c].lease # batch[b].lease

\* A LayerBuffers that wait returned holds every job's bytes, no worker is
\* still writing them, and no read of it failed.
PublishedComplete ==
  \A b \in Batches : ticket[b].pc = "buffers" =>
    /\ batch[b].landed = 0 .. batch[b].njobs - 1
    /\ ~batch[b].failed
    /\ \A w \in Workers : HeldBy(w, b) => worker[w].pc \notin Running

\* Jobs of b that a worker has claimed and not counted down.
InFlight(b) == {w \in Workers : HeldBy(w, b) /\ worker[w].pc \in Running}

\* remaining counts exactly the jobs in flight, the jobs nobody claimed, and
\* the ones a canceller has claimed and not yet subtracted: it neither wraps
\* below zero nor reaches zero while a read is in flight.
RemainingExact ==
  \A b \in Batches : Referenced(b) =>
    batch[b].remaining =
      Cardinality(InFlight(b))
      + (IF batch[b].next < batch[b].njobs THEN batch[b].njobs - batch[b].next ELSE 0)
      + (IF ticket[b].pc = "sub" THEN batch[b].njobs - ticket[b].seen ELSE 0)

\* A source that ready_sources reports has its bytes in the slot, or the error
\* of the read that failed is already visible to check_error.
ReadySourceHonest ==
  \A b \in Batches : Referenced(b) /\ ~batch[b].failed =>
    \A src \in ReadySources(b) : ChunksOf(b, src) \subseteq batch[b].landed

\* The arena never leaks a slot: a slot is in use exactly while some name has
\* a lease of it.
SlotsAccounted ==
  \A s \in Slots : inUse[s] <=> \E b \in Batches : Leasing(b) /\ batch[b].lease = s

\* The last free slot is never speculation's: when every slot of an arena with
\* several is in use, one of them was admitted for demand.
DemandKeepsASlot ==
  Cardinality(Slots) > 1 /\ FreeSlots = {} =>
    \E b \in Batches : Leasing(b) /\ batch[b].prio = "demand"

\* A caller asleep on a ticket is always about to be woken: as long as what it
\* waits for has not happened some clone of the batch is with the workers, and
\* once it has, the worker that made it so has yet to notify.
NoLostWakeup ==
  \A b \in Batches : ticket[b].pc = "asleep" =>
    \/ \E w \in Workers : worker[w].batch = b /\ worker[w].pc \in Holding \cup {"notify"}
    \/ Queued(b) /\ batch[b].next < batch[b].njobs

\* Who is inside a blocking call of a ticket.
Waiting(b) == ticket[b].pc \in {"check", "asleep"}

\* Every wait, drain and wait_ready_sources returns, with prefetch submitted
\* against a stream of demand too, and while the Reader is being dropped.
WaitReturns == \A b \in Batches : Waiting(b) ~> ~Waiting(b)

\* A slot that only the pool still holds on to: its ticket was dropped with
\* reads queued or in flight.
Abandoned(s) ==
  /\ inUse[s]
  /\ \A b \in Batches : batch[b].lease = s => ticket[b].pc = "idle"

\* An abandoned slot comes back to the arena, though nobody waits for it.
AbandonedSlotReturns == \A s \in Slots : Abandoned(s) ~> ~inUse[s]

\* Dropping the Reader joins every worker.
ShutdownJoins == closed ~> \A w \in Workers : worker[w].pc = "exit"

\* worker_main: "A waiter woken by the notify below must never be able to
\* observe this lease still held" (by the pool).
WokenWaiterSeesLeaseReleased ==
  \A w \in Workers : worker[w].pc = "notify" =>
    ~PoolHolds(worker[w].batch)

\* What a waiter relies on: it publishes a complete batch, the countdown it
\* sleeps on is exact, and it is never left asleep with nothing to count down.
CompletionIsExact == PublishedComplete /\ RemainingExact /\ NoLostWakeup

\* What the arena relies on: every slot in use has an owner that will give it
\* back, and prefetch leaves one for demand.
SlotsAreKept == SlotsAccounted /\ DemandKeepsASlot

\* Waiting for a ticket ends, and dropping it returns the slot.
TicketsEnd == WaitReturns /\ AbandonedSlotReturns
=============================================================================
