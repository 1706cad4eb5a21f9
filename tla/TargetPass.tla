----------------------------- MODULE TargetPass -----------------------------
(***************************************************************************)
(* One engine, its spine pipeline and its provider session: the transaction *)
(* that carries a chunk of positions through every layer (engine.rs,         *)
(* execute_target_sequence; spine_runtime.rs; spine_source_use.rs;           *)
(* provider.rs, TargetSequence).  The provider behind the ABI is external:   *)
(* every call may be refused, or take effect and return a report that the    *)
(* wrapper rejects.  Layer 0 is dense; a transient layer may leave the       *)
(* provider reading the reader's own slot (a borrowed source).               *)
(***************************************************************************)
EXTENDS Integers, FiniteSets, Sequences, FiniteSetsExt, SequencesExt, Functions

CONSTANTS
  NLayers,       \* layers of the target, 93 in the code
  ResidentMask,  \* layers kept in the provider
  Lookahead,     \* spine reads submitted ahead; the arena has one slot more
  Rows,          \* positions of a chunk
  Backends,      \* "host" finishes tiles, "cuda" plans them first
  MaxPasses,     \* bound: passes
  MaxFaults      \* bound: provider calls or reads that go wrong

ASSUME PassAssumption ==
  /\ NLayers \in Nat \ {0, 1} /\ ResidentMask \subseteq 0..(NLayers - 1)
  /\ Lookahead \in Nat /\ Rows \in Nat \ {0}
  /\ Backends \subseteq {"host", "cuda"} /\ MaxPasses \in Nat

VARIABLES
  prov,    \* the provider session: its sequence, plan, borrowed sources, commits
  pipe,    \* SpinePipeline with its SpineSourceUseController
  sequ,    \* the TargetSequence wrapper
  pass,    \* where the engine is
  broken   \* faults so far

tvars == <<prov, pipe, sequ, pass, broken>>

Layers == 0..(NLayers - 1)
Slots == 1..(Lookahead + 1)
NoUse == [gen |-> 0, slot |-> 0, sealed |-> FALSE]
NoSeq == [handle |-> 0, st |-> "none", next |-> 0, row |-> 0, plan |-> FALSE]

TInit ==
  /\ prov = [seq |-> NoSeq, uses |-> {}, committed |-> 0, alive |-> TRUE]
  /\ pipe = [gen |-> 0, pending |-> <<>>, resident |-> {}, poisoned |-> FALSE,
             use |-> NoUse, leaked |-> {}]
  /\ sequ = NoSeq
  /\ pass \in [pc : {"ready"}, n : {0}, layer : {0}, hand : {0}, full : {FALSE},
               backend : Backends, committed : {0}, suppress : {FALSE}]
  /\ broken = 0

\* What a provider call can do: succeed, fail, or succeed with a report the
\* wrapper refuses.
Outcomes == {"ok", "refused", "garbled"}
Charge(os) ==
  LET bad == Len(SelectSeq(os, LAMBDA o : o # "ok"))
  IN  broken + bad <= MaxFaults /\ broken' = broken + bad
Happened(o) == o # "refused"

\* Arena slots nothing holds.  A dropped ticket gives its slot back
\* (StorageReader shows it is not recycled while a worker writes it).
SlotsOf(q) == {q[i].slot : i \in DOMAIN q}
Held == SlotsOf(pipe.pending) \cup {pipe.use.slot, pass.hand} \cup pipe.leaked
Free == IF pass.pc = "closed" THEN Slots \ pipe.leaked ELSE Slots \ Held
AFreeSlot == CHOOSE s \in Free : TRUE

Go(pc) == pass' = [pass EXCEPT !.pc = pc]

---------------------------------------------------------------------------
(* Beginning a chunk.                                                       *)

\* target_sequence_from_report: the wrapper takes the handle only from a good
\* report; the sequence a bad one announces is cancelled.
FromReport(h, o, c) ==
  LET new == [NoSeq EXCEPT !.handle = h, !.st = "active"]
  IN  /\ prov' = IF o = "ok" \/ (o = "garbled" /\ c # "ok") THEN [prov EXCEPT !.seq = new] ELSE prov
      /\ sequ' = IF o = "ok" THEN new ELSE NoSeq

\* begin_target_sequence_bf16_options
Begin(full, o, c) ==
  /\ pass.pc = "ready" /\ pass.n < MaxPasses
  /\ Charge(<<o, c>>) /\ (o = "garbled" \/ c = "ok")
  /\ FromReport(pass.n + 1, o, c)
  /\ pass' = [pass EXCEPT !.n = @ + 1, !.full = full, !.layer = 0,
                          !.pc = IF o = "ok" THEN "prime" ELSE "failing"]
  /\ UNCHANGED pipe

\* SpinePipeline::prime
Prime ==
  /\ pass.pc = "prime"
  /\ IF pipe.poisoned \/ pipe.pending # <<>>
       THEN Go("failing") /\ UNCHANGED pipe
       ELSE /\ Go("bind")
            /\ pipe' = IF 0 \in pipe.resident THEN pipe
                       ELSE [pipe EXCEPT !.pending = <<[layer |-> 0, slot |-> AFreeSlot]>>]
  /\ UNCHANGED <<prov, sequ, broken>>

---------------------------------------------------------------------------
(* The spine pipeline.                                                      *)

\* fill_pending: the next layers that are neither resident nor already
\* pending, in order, as far as the lookahead goes, each into a slot of its own.
Behind(q) == IF q = <<>> THEN pass.layer ELSE Last(q).layer
InOrder(ls) == SetToSortSeq(ls, <)
FillPending(q, taken) ==
  LET want == {l \in Layers : l > Behind(q) /\ l \notin pipe.resident}
      n == Min({Lookahead - Len(q), Cardinality(want)})
      into == CHOOSE f \in Injection(1..n, Slots \ (taken \cup SlotsOf(q))) : TRUE
  IN  q \o [i \in 1..n |-> [layer |-> InOrder(want)[i], slot |-> into[i]]]

\* bind_current of a layer the provider kept.
BindResident ==
  /\ pass.pc = "bind" /\ pass.layer \in pipe.resident /\ ~pipe.poisoned
  /\ pipe' = [pipe EXCEPT !.pending = FillPending(@, pipe.leaked \cup {pipe.use.slot})]
  /\ Go("prepare")
  /\ UNCHANGED <<prov, sequ, broken>>

\* bind_current of a streamed layer: wait for its read, or make it now, then
\* submit the reads ahead.
ReadCurrent(o) ==
  /\ pass.pc = "bind" /\ pass.layer \notin pipe.resident /\ ~pipe.poisoned
  /\ o # "garbled" /\ Charge(<<o>>)
  /\ LET expected == pipe.pending = <<>> \/ Head(pipe.pending).layer = pass.layer
         slot == IF pipe.pending = <<>> THEN AFreeSlot ELSE Head(pipe.pending).slot
         rest == IF pipe.pending = <<>> THEN <<>> ELSE Tail(pipe.pending)
     IN  IF expected /\ o = "ok"
           THEN /\ pipe' = [pipe EXCEPT !.pending = FillPending(rest, pipe.leaked \cup {slot, pipe.use.slot})]
                /\ pass' = [pass EXCEPT !.hand = slot, !.pc = "upload"]
           ELSE /\ pipe' = IF expected THEN [pipe EXCEPT !.pending = rest] ELSE pipe
                /\ Go("failing")
  /\ UNCHANGED <<prov, sequ>>

Retained == pass.layer \in ResidentMask

\* A bind whose report is bad aborts the use it names; when it names none, or
\* the abort is not confirmed, the slot is leaked and the session never destroyed.
Leaked(borrow, o, named, a) == o = "garbled" /\ borrow /\ (~named \/ a # "ok")

\* SpineSourceUseController::admit: a retained layer becomes resident, a borrowed
\* one is the use in flight.
Admit(use, borrow) ==
  pipe' = [pipe EXCEPT !.gen = use.gen,
             !.resident = IF Retained THEN @ \cup {pass.layer} ELSE @,
             !.use = IF borrow THEN use ELSE @]

\* bind_spine_layer_owned and its inner call.
Bind(borrow, o, named, a) ==
  /\ pass.pc = "upload" /\ Charge(<<o, a>>)
  /\ borrow => ~Retained
  /\ named \/ (o = "garbled" /\ borrow)
  /\ a = "ok" \/ (o = "garbled" /\ borrow /\ named)
  /\ LET use == [gen |-> pipe.gen + 1, slot |-> pass.hand, sealed |-> FALSE]
         leak == Leaked(borrow, o, named, a)
         held == borrow /\ Happened(o) /\ ~(o = "garbled" /\ named /\ Happened(a))
     IN  /\ prov' = IF held THEN [prov EXCEPT !.uses = @ \cup {use}] ELSE prov
         /\ pass' = [pass EXCEPT !.hand = 0, !.pc = IF o = "ok" THEN "prepare" ELSE "failing",
                                 !.suppress = @ \/ leak]
         /\ IF o = "ok" THEN Admit(use, borrow)
            ELSE pipe' = [pipe EXCEPT !.pending = <<>>, !.leaked = IF leak THEN @ \cup {use.slot} ELSE @]
  /\ UNCHANGED sequ

\* Mutant: the lease is dropped whatever the provider said.
Bug_Abort(o) ==
  /\ prov' = IF Happened(o) THEN [prov EXCEPT !.uses = @ \ {u \in @ : u.gen = pipe.use.gen}] ELSE prov
  /\ pipe' = [pipe EXCEPT !.use = NoUse, !.poisoned = @ \/ o # "ok"]

\* abort_borrowed_source_use: the lease is kept, and the pipeline poisoned,
\* unless the provider confirms.
Abort(o) ==
  /\ prov' = IF Happened(o) THEN [prov EXCEPT !.uses = @ \ {u \in @ : u.gen = pipe.use.gen}] ELSE prov
  /\ pipe' = IF o = "ok" THEN [pipe EXCEPT !.use = NoUse]
                         ELSE [pipe EXCEPT !.poisoned = TRUE]

---------------------------------------------------------------------------
(* The sequence wrapper: each call checks the order, makes the provider      *)
(* call, and cancels the sequence when the call or its report is bad.        *)

\* The provider's own sequence after a call that took effect.
Advance(o, next, c) ==
  /\ prov' = IF o = "ok" THEN [prov EXCEPT !.seq = next]
             ELSE IF c = "ok" THEN [prov EXCEPT !.seq = NoSeq]
             ELSE IF o = "garbled" THEN [prov EXCEPT !.seq = next] ELSE prov
  /\ sequ' = IF o = "ok" THEN next ELSE NoSeq    \* cancel_after_invalid_report
  /\ Charge(<<o, c>>) /\ (o = "ok" => c = "ok")

\* prepare_layer
Prepare(o, c) ==
  /\ pass.pc = "prepare"
  /\ sequ.st = "active" /\ sequ.next = pass.layer
  /\ LET next == IF pass.layer = 0 THEN [sequ EXCEPT !.next = 1]
                                   ELSE [sequ EXCEPT !.st = "waiting", !.row = 0]
     IN  Advance(o, next, c)
  /\ Go(IF o # "ok" THEN "layer_failed" ELSE IF pass.layer = 0 THEN "fence" ELSE "mailbox")
  /\ UNCHANGED pipe

\* Where a completed tile of k rows leaves the sequence.
AfterTile(k) ==
  IF sequ.row + k < Rows THEN [sequ EXCEPT !.row = @ + k, !.plan = FALSE]
  ELSE [sequ EXCEPT !.row = 0, !.plan = FALSE, !.next = @ + 1,
                    !.st = IF sequ.next + 1 = NLayers THEN "tail" ELSE "active"]

AfterFinish(o, k) == Go(IF o # "ok" THEN "layer_failed" ELSE IF sequ.row + k < Rows THEN "mailbox" ELSE "fence")

\* finish_expert_tile and finish_expert_span_tile: the active rows, no plan live.
FinishExpertTile(k, o, c) ==
  /\ pass.pc = "mailbox" /\ pass.backend = "host"
  /\ sequ.st = "waiting" /\ ~sequ.plan /\ sequ.row + k <= Rows
  /\ Advance(o, AfterTile(k), c)
  /\ AfterFinish(o, k)
  /\ UNCHANGED pipe

\* plan_expert_tile: a refused plan leaves the sequence to its owner; a plan
\* with a bad report is released and the sequence cancelled.
PlanExpertTile(o, c) ==
  /\ pass.pc = "mailbox" /\ pass.backend = "cuda" /\ sequ.st = "waiting" /\ ~sequ.plan
  /\ o = "refused" => c = "ok"
  /\ IF o = "refused"
       THEN Charge(<<o>>) /\ UNCHANGED <<prov, sequ>>
       ELSE Advance(o, [sequ EXCEPT !.plan = TRUE], c)
  /\ Go(IF o = "ok" THEN "planned" ELSE "layer_failed")
  /\ UNCHANGED pipe

\* The read of the plan's misses fails: dropping the plan releases it.
MissReadFails(c) ==
  /\ pass.pc = "planned" /\ Charge(<<"refused", c>>) /\ c # "garbled"
  /\ sequ' = [sequ EXCEPT !.plan = FALSE]
  /\ prov' = IF c = "ok" THEN [prov EXCEPT !.seq.plan = FALSE] ELSE prov
  /\ Go("layer_failed") /\ UNCHANGED pipe

\* finish_planned_expert_tile consumes the plan whatever the outcome.
FinishPlannedTile(k, o, c) ==
  /\ pass.pc = "planned" /\ sequ.plan /\ sequ.row + k <= Rows
  /\ Advance(o, AfterTile(k), c)
  /\ AfterFinish(o, k)
  /\ UNCHANGED pipe

\* take_prefetch_hint: advisory, but a bad answer cancels the sequence.
TakePrefetchHint(o, c) ==
  /\ pass.pc = "mailbox" /\ pass.backend = "host" /\ sequ.st = "waiting" /\ o # "ok"
  /\ Advance(o, sequ, c)
  /\ Go("layer_failed") /\ UNCHANGED pipe

---------------------------------------------------------------------------
(* The end of a layer: execute_target_sequence seals and reclaims the        *)
(* borrowed source, or aborts it.                                           *)

LayerFailed(o) ==
  /\ pass.pc = "layer_failed" /\ Go("failing") /\ UNCHANGED sequ
  /\ IF pipe.use = NoUse THEN o = "ok" /\ UNCHANGED <<prov, pipe, broken>>
                         ELSE Abort(o) /\ Charge(<<o>>)

NextLayer == pass' = [pass EXCEPT !.layer = IF @ + 1 = NLayers THEN @ ELSE @ + 1,
                                  !.pc = IF pass.layer + 1 = NLayers THEN "tail" ELSE "bind"]

NoFence ==
  /\ pass.pc = "fence" /\ pipe.use = NoUse
  /\ NextLayer /\ UNCHANGED <<prov, pipe, sequ, broken>>

\* seal_borrowed_source_use; a failure goes on to the abort.
Seal(o) ==
  /\ pass.pc = "fence" /\ pipe.use # NoUse /\ Charge(<<o>>)
  /\ pipe' = IF o = "ok" THEN [pipe EXCEPT !.use.sealed = TRUE] ELSE pipe
  /\ Go(IF o = "ok" THEN "reclaim" ELSE "layer_failed")
  /\ UNCHANGED <<prov, sequ>>

\* try_reclaim_borrowed_source_use: reclaimed, still in use, or an error, which
\* poisons the pipeline.
Reclaim(done, o) ==
  /\ pass.pc = "reclaim" /\ Charge(<<o>>)
  /\ done \/ o = "ok"
  /\ prov' = IF done /\ Happened(o) THEN [prov EXCEPT !.uses = @ \ {u \in @ : u.gen = pipe.use.gen}] ELSE prov
  /\ IF done /\ o = "ok"
       THEN pipe' = [pipe EXCEPT !.use = NoUse] /\ NextLayer
       ELSE pipe' = [pipe EXCEPT !.poisoned = @ \/ o # "ok"] /\ Go("layer_failed")
  /\ UNCHANGED sequ

---------------------------------------------------------------------------
(* Tail, commit, failure and teardown.                                      *)

\* finish_tail
FinishTail(o, c) ==
  /\ pass.pc = "tail" /\ sequ.st = "tail" /\ sequ.next = NLayers
  /\ Advance(o, [sequ EXCEPT !.st = "commit"], c)
  /\ Go(IF o = "ok" THEN "commit" ELSE "failing")
  /\ UNCHANGED pipe

\* commit_prefix: the whole chunk unless verification accepted less; a refused
\* commit drops, and so cancels, the sequence; after a bad report the handle is
\* gone and the engine does not know.
Commit(k, o, c) ==
  /\ pass.pc = "commit" /\ sequ.st = "commit"
  /\ pass.full => k = Rows
  /\ Charge(<<o, c>>) /\ (o # "refused" => c = "ok")
  /\ sequ' = NoSeq
  /\ prov' = IF Happened(o) THEN [prov EXCEPT !.seq = NoSeq, !.committed = @ + k]
             ELSE IF c = "ok" THEN [prov EXCEPT !.seq = NoSeq] ELSE prov
  /\ pass' = [pass EXCEPT !.pc = IF o = "ok" THEN "settle" ELSE "failing",
                          !.committed = IF o = "ok" THEN @ + k ELSE @]
  /\ UNCHANGED pipe

\* The request ends: Ready again only with no spine read left over.
Settle ==
  /\ pass.pc = "settle"
  /\ Go(IF pipe.pending = <<>> THEN "ready" ELSE "poisoned")
  /\ pipe' = [pipe EXCEPT !.pending = <<>>]
  /\ UNCHANGED <<prov, sequ, broken>>

\* Mutant: an error leaves the engine Ready.
Bug_FailPass(c1, c2) ==
  /\ pass.pc = "failing"
  /\ Charge(<<c1, c2>>) /\ c1 # "garbled" /\ c2 # "garbled"
  /\ (sequ.handle = 0 \/ c1 = "ok") => c2 = "ok"
  /\ sequ.handle = 0 => c1 = "ok"
  /\ sequ' = NoSeq
  /\ prov' = IF sequ.handle # 0 /\ (c1 = "ok" \/ c2 = "ok") THEN [prov EXCEPT !.seq = NoSeq] ELSE prov
  /\ pipe' = [pipe EXCEPT !.pending = <<>>]
  /\ Go("ready")

\* cancel_after_error: cancel, and once more when the wrapper is dropped; then
\* the spine reads are discarded and the engine is poisoned.
FailPass(c1, c2) ==
  /\ pass.pc = "failing"
  /\ Charge(<<c1, c2>>) /\ c1 # "garbled" /\ c2 # "garbled"
  /\ (sequ.handle = 0 \/ c1 = "ok") => c2 = "ok"
  /\ sequ.handle = 0 => c1 = "ok"
  /\ sequ' = NoSeq
  /\ prov' = IF sequ.handle # 0 /\ (c1 = "ok" \/ c2 = "ok") THEN [prov EXCEPT !.seq = NoSeq] ELSE prov
  /\ pipe' = [pipe EXCEPT !.pending = <<>>]
  /\ Go("poisoned")

\* NativeTargetEngine::drop, SpinePipeline::teardown, SessionInner::drop: a
\* borrow that cannot be aborted keeps its slot and its session for ever.
Close(o) ==
  /\ pass.pc \in {"ready", "poisoned"}
  /\ Charge(<<o>>) /\ (pipe.use = NoUse => o = "ok")
  /\ LET unproven == pipe.use # NoUse /\ o # "ok"
         suppress == pass.suppress \/ unproven
         left == {u \in prov.uses : ~(u.gen = pipe.use.gen /\ Happened(o))}
     IN  /\ pipe' = [pipe EXCEPT !.poisoned = TRUE, !.pending = <<>>,
                       !.leaked = IF unproven THEN @ \cup ({pipe.use.slot} \ {0}) ELSE @]
         /\ prov' = [prov EXCEPT !.uses = left, !.alive = suppress]
         /\ pass' = [pass EXCEPT !.pc = "closed", !.suppress = suppress]
  /\ UNCHANGED sequ

TNext ==
  \/ \E full \in BOOLEAN, o, c \in Outcomes : Begin(full, o, c)
  \/ Prime \/ BindResident \/ NoFence \/ Settle
  \/ \E o \in Outcomes : ReadCurrent(o) \/ LayerFailed(o) \/ Seal(o) \/ Close(o) \/ MissReadFails(o)
  \/ \E borrow, named \in BOOLEAN, o, a \in Outcomes : Bind(borrow, o, named, a)
  \/ \E o, c \in Outcomes : Prepare(o, c) \/ PlanExpertTile(o, c) \/ TakePrefetchHint(o, c)
                              \/ FinishTail(o, c) \/ FailPass(o, c)
  \/ \E k \in 1..Rows, o, c \in Outcomes :
       FinishExpertTile(k, o, c) \/ FinishPlannedTile(k, o, c) \/ Commit(k, o, c)
  \/ \E done \in BOOLEAN, o \in Outcomes : Reclaim(done, o)
  \/ pass.pc = "closed" /\ UNCHANGED tvars

TSpec == TInit /\ [][TNext]_tvars

---------------------------------------------------------------------------
(* Properties.                                                              *)

\* While the provider still reads a borrowed slot, the arena neither hands that
\* slot out again nor reads ahead into it, whichever call failed or answered
\* nonsense, and neither the slot nor the session is freed at teardown
\* (spine_source_use.rs, bind_spine_layer_owned, NativeTargetEngine::drop).
BorrowedBytesStayPut ==
  \A u \in prov.uses : u.slot \notin Free \cup SlotsOf(pipe.pending) \cup {pass.hand} /\ prov.alive

\* An engine that accepts requests agrees with its provider: no sequence, plan
\* or borrowed source is left behind, no spine read is in flight, the pipeline
\* is usable and the committed context is the provider's.
ReadyEngineIsClean ==
  pass.pc = "ready" =>
    /\ prov.seq = NoSeq /\ prov.uses = {} /\ pipe.pending = <<>>
    /\ ~pipe.poisoned /\ pass.committed = prov.committed

\* Whatever call of a target pass fails or answers nonsense, no slot the
\* provider still reads is handed out again or freed, and an engine that accepts
\* requests agrees with its provider and has no sequence, borrow or read left.
FailedPassesAreContained == BorrowedBytesStayPut /\ ReadyEngineIsClean
=============================================================================
