-------------------------- MODULE GenerationServer --------------------------
(***************************************************************************)
(* The OpenAI-compatible HTTP server, native/deltafin/src/openai/server.rs  *)
(* with response_memo.rs: the listener's admission through GenerationGate,  *)
(* the arrival-ordered wait queue, the worker thread of every admitted      *)
(* request up to the drop of its permit, and the response memo.             *)
(*                                                                          *)
(* The target is reduced to what the server sees of it: a generation        *)
(* returns the whole certified output or an error, and has to be settled    *)
(* with Complete or Aborted; module TargetReuse opens that up.              *)
(*                                                                          *)
(* A client sends one request at a time and may send another after it was   *)
(* answered.  A worker step is one critical section of the gate, or one     *)
(* call that leaves the gate alone.                                         *)
(***************************************************************************)
EXTENDS Naturals, Sequences, FiniteSets, SequencesExt

CONSTANTS
  Clients,
  Streaming,     \* the clients whose requests ask for streaming
  Keys,          \* distinct requests, as request_key tells them apart
  Size,          \* Size[k]: entry_bytes of the response to k
  QueueSlots,    \* generation_queue_slots
  MaxEntries,    \* response_memo_entries
  MaxBytes       \* response_memo_bytes

ASSUME ServerAssumption ==
  /\ IsFiniteSet(Clients) /\ Streaming \subseteq Clients
  /\ Keys # {} /\ Size \in [Keys -> Nat]
  /\ {QueueSlots, MaxEntries, MaxBytes} \subseteq Nat

VARIABLES
  generating,    \* GateState.generating
  waiting,       \* GateState.waiting
  client,        \* the request of each client, and where its worker is
  memo,          \* DeterministicResponseMemo
  unsettled,     \* clients whose generation awaits finish_target_*
  order          \* history: admitted clients, by arrival

gate == <<generating, waiting>>
vars == <<gate, client, memo, unsettled, order>>

-----------------------------------------------------------------------------
\* Where a worker is: with a permit, reading the body (respond_generation),
\* about to answer (respond_to_post), inside the target, writing a whole
\* response, settling it, or dropping the permit ...
Permitted == {"body", "post", "target", "respond", "settle", "leave"}
\* ... or with a ticket: reading the body, about to test the gate, in
\* wait_timeout, timed out and probing the client.
Ticketed == {"ticket", "check", "asleep", "probe"}

NoRequest == [at |-> "out", key |-> CHOOSE k \in Keys : TRUE, gone |-> FALSE, reply |-> {}]

\* What the target produces for a request; certified unless it was cut short.
Output(k) == [key |-> k, whole |-> TRUE]
CutShort(k) == [key |-> k, whole |-> FALSE]

Init ==
  /\ generating = FALSE
  /\ waiting = <<>>
  /\ client = [c \in Clients |-> NoRequest]
  /\ memo = [entries |-> <<>>, used |-> 0]
  /\ unsettled = {}
  /\ order = <<>>

-----------------------------------------------------------------------------
Holds(entries, k) == \E i \in DOMAIN entries : entries[i].key = k
Cached(k) == Holds(memo.entries, k)

\* The position of the entry of a key, which is the only one.
IndexOf(entries, k) == CHOOSE i \in DOMAIN entries : entries[i].key = k

\* DeterministicResponseMemo::get moves the entry to the back.
Touched(m, k) ==
  LET i == IndexOf(m.entries, k)
  IN  [m EXCEPT !.entries = Append(RemoveAt(@, i), @[i])]

\* put: remove the entry of the key, evict the oldest while the entry does not
\* fit, append it; an entry larger than the memo is declined.
Without(m, k) ==
  IF Holds(m.entries, k)
  THEN LET i == IndexOf(m.entries, k)
       IN  [entries |-> RemoveAt(m.entries, i), used |-> m.used - Size[m.entries[i].key]]
  ELSE m

\* The bytes of the n oldest entries.
EvictedBytes(entries, n) ==
  LET sum[i \in 0 .. Len(entries)] ==
        IF i = 0 THEN 0 ELSE sum[i - 1] + Size[entries[i].key]
  IN  sum[n]

\* Mutant: only the number of entries is bounded.
Bug_Evictions(m, bytes) ==
  CHOOSE n \in 0..Len(m.entries) :
    /\ n = Len(m.entries) \/ Len(m.entries) - n < MaxEntries
    /\ \A j \in 0..(n - 1) : Len(m.entries) - j >= MaxEntries

\* What is left of a memo fits with an entry once the n oldest are evicted.
Fits(m, bytes, n) ==
  /\ Len(m.entries) - n < MaxEntries
  /\ m.used - EvictedBytes(m.entries, n) + bytes <= MaxBytes

Evictions(m, bytes) ==
  CHOOSE n \in 0..Len(m.entries) :
    /\ n = Len(m.entries) \/ Fits(m, bytes, n)
    /\ \A j \in 0..(n - 1) : ~Fits(m, bytes, j)

Put(m, output) ==
  IF MaxEntries = 0 \/ MaxBytes = 0 \/ Size[output.key] > MaxBytes THEN m
  ELSE LET rest == Without(m, output.key)
           n == Evictions(rest, Size[output.key])
       IN  [entries |-> Append(SubSeq(rest.entries, n + 1, Len(rest.entries)), output),
            used |-> rest.used - EvictedBytes(rest.entries, n) + Size[output.key]]

-----------------------------------------------------------------------------
At(c, place) == client[c].at = place
Goes(c, place) == [client EXCEPT ![c].at = place]

\* turned.notify_all: every waiter leaves wait_timeout and tests the gate.
Woken(workers) ==
  [d \in Clients |-> IF workers[d].at = "asleep" THEN [workers[d] EXCEPT !.at = "check"]
                                                 ELSE workers[d]]

\* Mutant: the listener does not look at generating.
Bug_CanPermit == waiting = <<>>

\* GenerationGate::admit, on the listener thread: a permit, or a ticket, or Busy,
\* which is answered there and changes nothing.
CanPermit == ~generating /\ waiting = <<>>

\* Mutant: one ticket too many.
Bug_HasSlot == Len(waiting) <= QueueSlots

HasSlot == Len(waiting) < QueueSlots

Arrive(c) ==
  /\ At(c, "out")
  /\ \/ /\ CanPermit
        /\ generating' = TRUE
        /\ client' = Goes(c, "body")
        /\ UNCHANGED waiting
     \/ /\ ~CanPermit
        /\ HasSlot
        /\ waiting' = Append(waiting, c)
        /\ client' = Goes(c, "ticket")
        /\ UNCHANGED generating
  /\ order' = Append(order, c)
  /\ UNCHANGED <<memo, unsettled>>

\* The client of a worker goes away; what is still written to it is lost.
Disconnect(c) ==
  /\ ~At(c, "out") /\ ~client[c].gone
  /\ client' = [client EXCEPT ![c].gone = TRUE]
  /\ UNCHANGED <<gate, memo, unsettled, order>>

\* The worker is done with the request: its record is forgotten.
Ended(c) == [client EXCEPT ![c] = NoRequest]

\* VecDeque::retain of everything but c, whose ticket has a number of its own.
Dropped(queue, c) ==
  IF c \in ToSet(queue) THEN RemoveAt(queue, CHOOSE i \in DOMAIN queue : queue[i] = c)
                        ELSE queue

LeavesOrder(c) == order' = Dropped(order, c)

\* Drop for an unclaimed QueueTicket.
DropTicket(c) ==
  /\ waiting' = Dropped(waiting, c)
  /\ client' = Woken(Ended(c))
  /\ LeavesOrder(c)
  /\ UNCHANGED <<generating, memo, unsettled>>

\* respond_queued_generation reads the body before it waits; a bad one is
\* answered at once and the ticket dropped.
TicketBody(c) ==
  /\ At(c, "ticket")
  /\ client' = Goes(c, "check")
  /\ UNCHANGED <<gate, memo, unsettled, order>>

TicketBadBody(c) == At(c, "ticket") /\ DropTicket(c)

\* Mutant: whoever wakes first claims the slot.
Bug_Claimable(c) == ~generating

\* wait_for_permit, one pass under the lock: claim the slot, or sleep.
Claimable(c) == ~generating /\ waiting[1] = c

Check(c) ==
  /\ At(c, "check")
  /\ IF Claimable(c)
     THEN /\ waiting' = Tail(waiting)
          /\ generating' = TRUE
          /\ client' = Goes(c, "post")
     ELSE /\ client' = Goes(c, "asleep")
          /\ UNCHANGED gate
  /\ UNCHANGED <<memo, unsettled, order>>

\* The 500 ms wait times out, and the client is probed outside the lock; the
\* probe may miss a client that is gone.
Timeout(c) ==
  /\ At(c, "asleep")
  /\ client' = Goes(c, "probe")
  /\ UNCHANGED <<gate, memo, unsettled, order>>

ProbePresent(c) ==
  /\ At(c, "probe")
  /\ client' = Goes(c, "check")
  /\ UNCHANGED <<gate, memo, unsettled, order>>

ProbeGone(c) == At(c, "probe") /\ client[c].gone /\ DropTicket(c)

-----------------------------------------------------------------------------
\* respond_generation reads the body with the permit.
Body(c) ==
  /\ At(c, "body")
  /\ client' = Goes(c, "post")
  /\ UNCHANGED <<gate, memo, unsettled, order>>

\* respond_to_post without the target: the client is gone, or the request is
\* answered with an error.
PostWithoutTarget(c) ==
  /\ At(c, "post")
  /\ client' = Goes(c, "leave")
  /\ UNCHANGED <<gate, memo, unsettled, order>>

\* The body is parsed: what is asked for matters from here on.  A memo hit is
\* answered without entering the target.
PostCached(c, k) ==
  /\ At(c, "post") /\ Cached(k)
  /\ memo' = Touched(memo, k)
  /\ client' = [client EXCEPT ![c].at = "leave", ![c].key = k,
                              ![c].reply = {Last(memo'.entries)}]
  /\ UNCHANGED <<gate, unsettled, order>>

PostMiss(c, k) ==
  /\ At(c, "post") /\ ~Cached(k)
  /\ client' = [client EXCEPT ![c].at = "target", ![c].key = k]
  /\ unsettled' = unsettled \cup {c}
  /\ UNCHANGED <<gate, memo, order>>

\* generate: the whole output is memoized before it is written; an error, which
\* is also how a disconnect ends a generation, is answered 500.
GenerateWhole(c) ==
  /\ At(c, "target") /\ c \notin Streaming
  /\ memo' = Put(memo, Output(client[c].key))
  /\ client' = [client EXCEPT ![c].at = "respond", ![c].reply = {Output(client[c].key)}]
  /\ UNCHANGED <<gate, unsettled, order>>

GenerateFails(c) ==
  /\ At(c, "target") /\ c \notin Streaming
  /\ client' = Goes(c, "respond")
  /\ UNCHANGED <<gate, memo, unsettled, order>>

\* Mutant: a failed write returns before the target is settled.
Bug_Respond(c) ==
  /\ At(c, "respond")
  /\ \/ client' = Goes(c, "settle")
     \/ client[c].gone /\ client' = [client EXCEPT ![c].at = "leave", ![c].reply = {}]
  /\ UNCHANGED <<gate, memo, unsettled, order>>

\* respond_to_post writes the response, then settles the target, then its frame
\* ends and the permit is dropped.  What reached a client that is gone is not
\* a reply.
Respond(c) ==
  /\ At(c, "respond")
  /\ \/ client' = Goes(c, "settle")
     \/ client[c].gone /\ client' = [client EXCEPT ![c].at = "settle", ![c].reply = {}]
  /\ UNCHANGED <<gate, memo, unsettled, order>>

Settle(c) ==
  /\ At(c, "settle")
  /\ client' = Goes(c, "leave")
  /\ unsettled' = unsettled \ {c}
  /\ UNCHANGED <<gate, memo, order>>

\* Mutant: what was captured of a failed stream is memoized as well.
Bug_StreamMemo(k, completed) == Put(memo, IF completed THEN Output(k) ELSE CutShort(k))

\* stream_target_to_writer with its StreamFinalizer: the target is settled
\* before the output is memoized, and nothing is memoized after an error.
StreamMemo(k, completed) == IF completed THEN Put(memo, Output(k)) ELSE memo

StreamEnds(c) ==
  /\ At(c, "target") /\ c \in Streaming
  /\ \E completed \in BOOLEAN :
       /\ memo' = StreamMemo(client[c].key, completed)
       /\ client' = [client EXCEPT ![c].at = "leave",
                                   ![c].reply = IF completed THEN {Output(client[c].key)} ELSE {}]
  /\ unsettled' = unsettled \ {c}
  /\ UNCHANGED <<gate, order>>

\* Mutant: the permit is leaked on the way out.
Bug_Leave(c) ==
  /\ At(c, "leave")
  /\ client' = Woken(Ended(c))
  /\ LeavesOrder(c)
  /\ UNCHANGED <<gate, memo, unsettled>>

\* Drop for GenerationPermit.
Leave(c) ==
  /\ At(c, "leave")
  /\ generating' = FALSE
  /\ client' = Woken(Ended(c))
  /\ LeavesOrder(c)
  /\ UNCHANGED <<waiting, memo, unsettled>>

-----------------------------------------------------------------------------
\* What a worker does by itself, as opposed to what clients do.
Step(c) ==
  \/ TicketBody(c) \/ TicketBadBody(c) \/ Check(c) \/ Timeout(c)
  \/ ProbePresent(c) \/ ProbeGone(c)
  \/ Body(c) \/ PostWithoutTarget(c) \/ \E k \in Keys : PostCached(c, k) \/ PostMiss(c, k)
  \/ GenerateWhole(c) \/ GenerateFails(c) \/ Respond(c) \/ Settle(c)
  \/ StreamEnds(c) \/ Leave(c)

Next ==
  \E c \in Clients : Arrive(c) \/ Disconnect(c) \/ Step(c)

Spec == Init /\ [][Next]_vars

\* Threads run, bodies arrive and generations end.
FairSpec == Spec /\ \A c \in Clients : WF_vars(Step(c))

-----------------------------------------------------------------------------
\* Every variable has the shape the code gives it.
TypeOK ==
  /\ generating \in BOOLEAN
  /\ waiting \in Seq(Clients) /\ Len(waiting) <= QueueSlots
  /\ client \in [Clients -> [at : Permitted \cup Ticketed \cup {"out"}, key : Keys,
                             gone : BOOLEAN,
                             reply : SUBSET [key : Keys, whole : BOOLEAN]]]
  /\ memo \in [entries : Seq([key : Keys, whole : BOOLEAN]), used : Nat]
  /\ unsettled \subseteq Clients
  /\ order \in Seq(Clients)

Holders == {c \in Clients : client[c].at \in Permitted}
Waiters == {c \in Clients : client[c].at \in Ticketed}

\* The gate and the workers agree: at most one worker owns the permit, and
\* generating is set exactly while one does; the queue holds exactly the
\* workers with an unclaimed ticket, so no departed waiter blocks it.
OneGeneration ==
  /\ Cardinality(Holders) <= 1
  /\ generating <=> Holders # {}
  /\ ToSet(waiting) = Waiters /\ Len(waiting) = Cardinality(Waiters)

\* c comes before d in a sequence.
Before(s, c, d) == \E i, j \in DOMAIN s : i < j /\ s[i] = c /\ s[j] = d

\* Requests get the permit in the order the listener admitted them, whatever
\* the condvar wakes first: the owner is the earliest of those still here, and
\* the queue is in arrival order.
ArrivalOrder ==
  /\ ToSet(order) = Holders \cup Waiters /\ IsInjective(order)
  /\ Holders # {} => order[1] \in Holders
  /\ \A c, d \in Clients : Before(waiting, c, d) => Before(order, c, d)

\* The target is entered only when the publication of the previous generation
\* has been settled, and is settled by the request that entered it, which still
\* owns the permit.
SettledBeforeNext ==
  /\ unsettled \subseteq Holders
  /\ \A c \in unsettled : client[c].at \in {"target", "respond", "settle"}

\* A truncated result is never published or replayed (AuthoritativeTarget): what
\* the memo holds, and what a client is answered, is the whole output of the
\* very request.
OnlyCertified ==
  /\ \A i \in DOMAIN memo.entries : memo.entries[i].whole
  /\ \A c \in Clients : \A o \in client[c].reply : o = Output(client[c].key)

\* The memo stays within both limits, counts its bytes exactly and holds one
\* entry per request.
MemoBounds ==
  /\ Len(memo.entries) <= MaxEntries /\ memo.used <= MaxBytes
  /\ memo.used = EvictedBytes(memo.entries, Len(memo.entries))
  /\ \A i, j \in DOMAIN memo.entries :
       memo.entries[i].key = memo.entries[j].key => i = j

\* Every admitted request is over eventually: a waiter that departs, fails or
\* never hears a notification cannot wedge the gate.
EveryoneLeaves == \A c \in Clients : ~At(c, "out") ~> At(c, "out")

\* The gate lets in one client at a time, in the order of arrival.
GateIsFair == TypeOK /\ OneGeneration /\ ArrivalOrder

\* Whatever a client is answered, from the target or from the memo, is the
\* whole output of a settled generation.
AnswersAreCertified == SettledBeforeNext /\ OnlyCertified /\ MemoBounds
=============================================================================
