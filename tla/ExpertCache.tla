---------------------------- MODULE ExpertCache ----------------------------
(***************************************************************************)
(* How one pass of the engine obtains the bytes of the experts each layer   *)
(* routes to (engine.rs, finish_expert_mailbox and below): the permanent     *)
(* tier, the Summer pool of arena slots, the tiles retained from the last   *)
(* token, prefetch tickets submitted a layer ahead, and demand reads, while  *)
(* reader threads are still filling the buffers.                            *)
(*                                                                          *)
(* Bytes are the key <<layer, expert>> they belong to, or Torn.  A ticket    *)
(* that owns its buffer yields the right bytes or an error (StorageReader);  *)
(* a ticket into a Summer slot writes memory the pool hands out again.       *)
(***************************************************************************)
EXTENDS Naturals, FiniteSets, Sequences, FiniteSetsExt, Functions

CONSTANTS
  NLayers,        \* routed layers
  Experts,        \* experts of a layer, numbers
  NSlots,         \* slots of the Summer arena, also its cap
  TierCapacity,   \* candidates the permanent tier has room for
  MinHits, MaxHits, ProtectHits,   \* K3_SUMMER_MIN_HITS, _MAX_HITS, _PROTECT_HITS
  Configs,        \* the switches, and prefetch arena sizes, a process may run with
  MaxReads,       \* bound: reads known at one time
  MaxPasses,      \* bound: passes
  MaxReadFaults   \* bound: reads that fail by the end of each pass

\* An expert is a number below K3_EXPERT_COUNT; layers, slots and reads are counted.
ASSUME CacheAssumption ==
  /\ NLayers \in Nat \ {0} /\ NSlots \in Nat /\ MaxReads \in Nat
  /\ Experts \subseteq 0..895

VARIABLES
  cfg,      \* the switches of this process
  pool,     \* the Summer pool: map, pending, free slots, route counts
  bytes,    \* what every slot of the arena holds
  reads,    \* reads a ticket or a worker knows of
  drain,    \* reads the engine blocks on after cancelling them
  eng,      \* where the engine thread is
  pf,       \* pending_expert_prefetch: target layer and tickets
  tile,     \* the tile being read, and its lease
  tier,     \* keys resident in the permanent tier
  kept,     \* retained tiles, per layer
  faults,   \* reads that have failed
  strayed   \* a reservation outlived its ticket, or a ticket its reservation

evars == <<cfg, pool, bytes, reads, drain, eng, pf, tile, tier, kept, faults, strayed>>

Layers == 1..NLayers
Keys == Layers \X Experts
Slots == 1..NSlots
Torn == <<0, 0>>
None == [e \in {} |-> 0]

\* A map with e at x, and a map with what f adds to g.  (They are TLC's :> and
\* @@, which have no definition that a proof could expand.)
Put(f, e, x) == [d \in DOMAIN f \cup {e} |-> IF d = e THEN x ELSE f[d]]
Over(f, g) == [d \in DOMAIN f \cup DOMAIN g |-> IF d \in DOMAIN f THEN f[d] ELSE g[d]]

NoSet == [layer |-> 0, tk |-> None]
NoTile == [route |-> {}, due |-> None, todo |-> {}, losers |-> None, into |-> None,
           demand |-> 0, misses |-> {}, failed |-> FALSE, alone |-> FALSE,
           lease |-> None, retained |-> {}, admit |-> {}]

EInit ==
  /\ cfg \in Configs
  /\ pool = [map |-> None, pending |-> None, free |-> Slots, seen |-> [k \in Keys |-> 0]]
  /\ bytes = [s \in Slots |-> Torn]
  /\ reads = None /\ drain = {}
  /\ eng = [pc |-> "boot", pass |-> 0, layer |-> 0, tiles |-> <<>>, fan |-> None]
  /\ pf = NoSet /\ tile = NoTile
  /\ tier = {} /\ kept = [l \in Layers |-> {}]
  /\ faults = 0 /\ strayed = FALSE

At(pc) == eng.pc = pc /\ drain = {}
Key(e) == <<eng.layer, e>>

---------------------------------------------------------------------------
(* The reader threads: a claimed job writes its buffer and ends.            *)

Into(i) == reads[i].slot # 0
Reading(i) == reads[i].st = "reading"
Held == Range(pf.tk) \cup Range(tile.due) \cup Range(tile.losers) \cup Range(tile.into)
          \cup Range(eng.fan) \cup ({tile.demand} \ {0})

Claim(i) ==
  /\ reads[i].st = "queued"
  /\ reads' = [reads EXCEPT ![i].st = "reading"]
  /\ bytes' = IF Into(i) THEN [bytes EXCEPT ![reads[i].slot] = Torn] ELSE bytes
  /\ UNCHANGED <<cfg, pool, drain, eng, pf, tile, tier, kept, faults, strayed>>

\* Two writers of one slot leave it torn whichever ends last.
Shared(i) == \E j \in DOMAIN reads \ {i} : Reading(j) /\ reads[j].slot = reads[i].slot

EndRead(i, ok) ==
  /\ Reading(i)
  /\ ok \/ faults < MaxReadFaults[eng.pass]
  /\ faults' = IF ok THEN faults ELSE faults + 1
  /\ bytes' = IF Into(i) /\ ok /\ ~Shared(i) THEN [bytes EXCEPT ![reads[i].slot] = reads[i].key]
                                             ELSE bytes
  /\ reads' = IF i \in drain \/ i \notin Held
                THEN Restrict(reads, DOMAIN reads \ {i})
                ELSE [reads EXCEPT ![i].st = IF ok THEN "done" ELSE "failed"]
  /\ drain' = drain \ {i}
  /\ UNCHANGED <<cfg, pool, eng, pf, tile, tier, kept, strayed>>

---------------------------------------------------------------------------
(* Tickets.                                                                 *)

Ids == 1..MaxReads
Fresh == Min(Ids \ DOMAIN reads)
HasRoom == Ids \ DOMAIN reads # {}
Submitted(k, slot, class) ==
  Put(reads, Fresh, [key |-> k, slot |-> slot, class |-> class, st |-> "queued"])

\* try_submit_local_prefetch_one, try_submit_local_demand_one: no waiting for a
\* slot of the prefetch reader's arena.
ArenaFull ==
  Cardinality({i \in DOMAIN reads : ~Into(i) /\ reads[i].class = "prefetch"}) >= cfg.arena

\* cancel_and_drain_prefetch_tickets: unclaimed reads are dropped, then the
\* engine waits for the others.
Cancelled(ids) == Restrict(reads, {i \in DOMAIN reads : i \in ids => Reading(i)})
Draining(ids) == {i \in ids : Reading(i)}

\* A reservation whose ticket is gone, or a write whose ticket is gone.
Strays(ids) == \E i \in ids : Into(i) /\ (reads[i].key \in DOMAIN pool.pending \/ Reading(i))

---------------------------------------------------------------------------
(* The Summer pool, each operation under its lock.                          *)

Resident == DOMAIN pool.map
SeenBar == Max({MinHits, Min({Cardinality(Resident), MaxHits})})

\* summer_note_route
Noted(k) == [pool.seen EXCEPT ![k] = IF @ < ProtectHits THEN @ + 1 ELSE @]

\* Arc::strong_count > 1: the lease still serves from the slot.
LeasedSlots == {src.slot : src \in Range(tile.lease)} \ {0}

\* Mutant: a leased span can be the victim.
Bug_Victims(seen) == Resident

\* The victims eviction may choose: by route count with the protected tier
\* (K3_SUMMER_MODEL), or any of a random sample.
Victims(seen) ==
  LET unleased == {k \in Resident : pool.map[k] \notin LeasedSlots}
      protected == {k \in Resident : pool.seen[k] >= ProtectHits}
      open == seen >= ProtectHits /\ protected = Resident
      eligible == {k \in unleased : k \in protected => open /\ pool.seen[k] < seen}
  IN  IF cfg.model THEN {k \in eligible : \A j \in eligible : pool.seen[k] <= pool.seen[j]}
                   ELSE unleased

\* summer_evict_for: the victims of a full pool, or none when there is room.
Room == Cardinality(Resident) < NSlots
EvictFor(seen) == IF Room THEN {Torn} ELSE Victims(seen)

\* A sample can miss every victim.
MayDecline(seen) == ~Room /\ (Victims(seen) = {} \/ (~cfg.model /\ LeasedSlots # {}))

\* Slots the pool can hand out, and the pool afterwards.
AfterEviction(v) ==
  IF v = Torn THEN pool
  ELSE [pool EXCEPT !.map = Restrict(@, Resident \ {v}), !.free = @ \cup {pool.map[v]}]

PreloadOnly == cfg.preload

\* summer_into_slot_candidate
IntoSlotCandidate(k) ==
  /\ cfg.intoSlot /\ ~PreloadOnly
  /\ pool.seen[k] + 1 >= SeenBar
  /\ k \notin Resident \cup DOMAIN pool.pending

\* summer_publish_pending
PublishPending(p, k) ==
  IF k \notin DOMAIN p.pending THEN p
  ELSE [p EXCEPT !.map = Put(@, k, p.pending[k]), !.pending = Restrict(@, DOMAIN @ \ {k})]

\* Mutant: the reservation survives the return of its slot.
Bug_AbortPending(p, ks) ==
  [p EXCEPT !.free = @ \cup {p.pending[k] : k \in ks \cap DOMAIN p.pending}]

\* summer_abort_pending: the slot goes back, whoever may still be writing it.
AbortPending(p, ks) ==
  [p EXCEPT !.free = @ \cup {p.pending[k] : k \in ks \cap DOMAIN p.pending},
            !.pending = Restrict(@, DOMAIN @ \ ks)]

\* summer_sweep_pending_before
SweepPendingBefore(p, l) == AbortPending(p, {k \in DOMAIN p.pending : k[1] < l})

\* A reservation taken from a read that still needs it: any read but the one
\* whose ticket is given up with it, and that one too while it is written.
StraysByAbort(ks, given) ==
  \E i \in DOMAIN reads :
    /\ Into(i) /\ reads[i].key \in ks \cap DOMAIN pool.pending
    /\ i = given => Reading(i)

\* summer_preload, at startup: read and copy the manifest's experts.
SummerPreload(k, ok) ==
  /\ eng.pc = "boot" /\ cfg.preload
  /\ k \notin Resident /\ pool.free # {}
  /\ ok \/ faults < MaxReadFaults[eng.pass]
  /\ LET s == Min(pool.free)
     IN  IF ok THEN /\ pool' = [pool EXCEPT !.map = Put(@, k, s), !.free = @ \ {s}]
                    /\ bytes' = [bytes EXCEPT ![s] = k]
               ELSE UNCHANGED <<pool, bytes>>
  /\ faults' = IF ok THEN faults ELSE faults + 1
  /\ UNCHANGED <<cfg, reads, drain, eng, pf, tile, tier, kept, strayed>>

---------------------------------------------------------------------------
(* try_schedule_expert_prefetch: tickets for the next layer, one after the   *)
(* other; a refused one cancels them all and leaves the reservations behind. *)

\* summer_is_ready: planning skips what is resident.
Wanted(l, plan) == {e \in plan : <<l, e>> \notin Resident}

BeginSchedule(l, plan, next) ==
  /\ pf.layer = 0 /\ l \in Layers
  /\ pf' = [layer |-> l, tk |-> None]
  /\ tile' = [tile EXCEPT !.todo = Wanted(l, plan)]
  /\ eng' = [eng EXCEPT !.pc = next]
  /\ UNCHANGED <<cfg, pool, bytes, reads, drain, tier, kept, faults, strayed>>

\* summer_try_read_into_slot: reserve a slot for k, evicting if need be, and
\* read into it; otherwise (slot 0) the caller goes on without.
TryReadIntoSlot(k) ==
  LET seen == pool.seen[k] + 1
      after == {AfterEviction(v) : v \in EvictFor(seen)}
      took(p) == [slot |-> Min(p.free),
                  pool |-> [p EXCEPT !.free = @ \ {Min(p.free)},
                                     !.pending = Put(@, k, Min(p.free))]]
      refused == ~IntoSlotCandidate(k) \/ MayDecline(seen) \/ \E p \in after : p.free = {}
  IN  {took(p) : p \in {p \in after : IntoSlotCandidate(k) /\ p.free # {}}}
        \cup (IF refused THEN {[slot |-> 0, pool |-> pool]} ELSE {})

\* One expert of the plan: into its slot, or into the prefetch arena.
ScheduleOne(pc, done) ==
  LET e == Min(tile.todo)
      k == <<pf.layer, e>>
      took(slot) == /\ reads' = Submitted(k, slot, "prefetch")
                    /\ pf' = [pf EXCEPT !.tk = Put(@, e, Fresh)]
                    /\ tile' = [tile EXCEPT !.todo = @ \ {e}]
                    /\ UNCHANGED <<drain, eng, strayed>>
      undone == /\ strayed' = (strayed \/ Strays(Range(pf.tk)))
                /\ reads' = Cancelled(Range(pf.tk))
                /\ drain' = Draining(Range(pf.tk))
                /\ pf' = NoSet
                /\ tile' = [tile EXCEPT !.todo = {}]
                /\ eng' = [eng EXCEPT !.pc = done]
  IN  /\ At(pc) /\ tile.todo # {} /\ HasRoom
      /\ \E r \in TryReadIntoSlot(k) :
           /\ pool' = r.pool
           /\ IF r.slot = 0 /\ ArenaFull THEN undone ELSE took(r.slot)
      /\ UNCHANGED <<cfg, bytes, tier, kept, faults>>

\* A plan whose every expert is resident leaves no set behind.
EndSchedule(pc, done) ==
  /\ At(pc) /\ tile.todo = {}
  /\ pf' = IF pf.tk = None THEN NoSet ELSE pf
  /\ eng' = [eng EXCEPT !.pc = done]
  /\ UNCHANGED <<cfg, pool, bytes, reads, drain, tile, tier, kept, faults, strayed>>

---------------------------------------------------------------------------
(* execute_target_sequence and finish_expert_mailbox.                       *)

Plans == (SUBSET Experts) \ {{}}

StartPass ==
  /\ eng.pc \in {"boot", "idle"} /\ drain = {} /\ eng.pass < MaxPasses
  /\ eng' = [eng EXCEPT !.pc = "start", !.pass = @ + 1, !.layer = 1]
  /\ UNCHANGED <<cfg, pool, bytes, reads, drain, pf, tile, tier, kept, faults, strayed>>

\* plan_sequence_start: the gate may have a plan for the first layer.
PlanSequenceStart(plan) == At("start") /\ BeginSchedule(1, plan, "sched0")

Routed(tiles) == UNION Range(tiles)

\* The routes of the layer arrive, grouped into tiles.
BeginMailbox(tiles) ==
  /\ At("start") \/ At("mailbox")
  /\ cfg.prefill \/ Len(tiles) = 1
  /\ eng' = [eng EXCEPT !.pc = "topup", !.tiles = tiles]
  /\ UNCHANGED <<cfg, pool, bytes, reads, drain, pf, tile, tier, kept, faults, strayed>>

\* try_schedule_expert_topup: true routes the due set does not cover, all of
\* them or none.
Missing == {e \in Wanted(eng.layer, Routed(eng.tiles)) : e \notin DOMAIN pf.tk}
Topup ==
  /\ At("topup")
  /\ LET e == Min(Missing)
     IN  \/ /\ cfg.topup /\ pf.layer = eng.layer /\ Missing # {} /\ HasRoom /\ ~ArenaFull
            /\ reads' = Submitted(Key(e), 0, "prefetch")
            /\ pf' = [pf EXCEPT !.tk = Put(@, e, Fresh)]
            /\ UNCHANGED <<eng, tile>>
         \/ /\ ~cfg.topup \/ pf.layer # eng.layer \/ Missing = {} \/ ArenaFull
            /\ eng' = [eng EXCEPT !.pc = IF cfg.early THEN "early" ELSE "fan"]
            /\ tile' = [tile EXCEPT !.todo = IF Len(eng.tiles) > 1 /\ ~cfg.early
                                              THEN Routed(eng.tiles) ELSE {}]
            /\ UNCHANGED <<reads, pf>>
  /\ UNCHANGED <<cfg, pool, bytes, drain, tier, kept, faults, strayed>>

\* take_due_expert_prefetch
DueSet == IF pf.layer = eng.layer THEN pf.tk ELSE None

\* K3_PILOT_EARLY: the due set is hoisted so that the hint for the next layer
\* is scheduled before this layer's reads.
HoistDue ==
  /\ At("early")
  /\ tile' = [tile EXCEPT !.due = DueSet]
  /\ pf' = IF pf.layer = eng.layer THEN NoSet ELSE pf
  /\ eng' = [eng EXCEPT !.pc = "hint2"]
  /\ UNCHANGED <<cfg, pool, bytes, reads, drain, tier, kept, faults, strayed>>

EarlyHint(plan) == At("hint2") /\ BeginSchedule(eng.layer + 1, plan, "sched2")
NoEarlyHint ==
  /\ At("hint2")
  /\ eng' = [eng EXCEPT !.pc = "fan"]
  /\ UNCHANGED <<cfg, pool, bytes, reads, drain, pf, tile, tier, kept, faults, strayed>>

\* K3_PREFILL_FANOUT: single demand reads on the prefetch pool, until it is
\* full, of the experts nothing covers yet.
Covered(e) == e \in DOMAIN DueSet \cup DOMAIN tile.due \/ Key(e) \in tier
FanTargets == {e \in tile.todo : ~Covered(e)}
FanOne ==
  /\ At("fan") /\ FanTargets # {} /\ ~ArenaFull /\ HasRoom
  /\ LET e == Min(FanTargets)
     IN  /\ reads' = Submitted(Key(e), 0, "prefetch")
         /\ eng' = [eng EXCEPT !.fan = Put(@, e, Fresh)]
         /\ tile' = [tile EXCEPT !.todo = @ \ {e}]
  /\ UNCHANGED <<cfg, pool, bytes, drain, pf, tier, kept, faults, strayed>>

FanDone ==
  /\ At("fan") /\ (FanTargets = {} \/ ArenaFull)
  /\ tile' = [tile EXCEPT !.todo = {}]
  /\ eng' = [eng EXCEPT !.pc = "tile"]
  /\ UNCHANGED <<cfg, pool, bytes, reads, drain, pf, tier, kept, faults, strayed>>

---------------------------------------------------------------------------
(* read_expert_tile_with_prefetch                                           *)

Own(e) == [slot |-> 0, key |-> Key(e)]
InSlot(s) == [slot |-> s, key |-> Torn]

\* Tier, pool and retained hits first; stale reservations are swept; what is
\* left is streamed.  Fan-out tickets of this tile join the due set.
ReadTile ==
  /\ At("tile")
  /\ LET route == Head(eng.tiles)
         pinned == {e \in route : Key(e) \in tier}
         summer == {e \in route \ pinned : Key(e) \in Resident}
         retained == {e \in (route \ pinned) \ summer : e \in kept[eng.layer]}
         streamed == ((route \ pinned) \ summer) \ retained
         stale == {k \in DOMAIN pool.pending : k[1] < eng.layer}
         sweeps == cfg.intoSlot /\ streamed # {}
     IN  /\ tile' = [NoTile EXCEPT !.route = route,
                !.due = Over(IF cfg.early THEN tile.due ELSE DueSet,
                             Restrict(eng.fan, route \cap DOMAIN eng.fan)),
                !.todo = streamed, !.retained = retained,
                !.lease = [e \in (pinned \cup retained) \cup summer |->
                             IF e \in summer THEN InSlot(pool.map[Key(e)]) ELSE Own(e)]]
         /\ pool' = IF sweeps THEN SweepPendingBefore(pool, eng.layer) ELSE pool
         /\ strayed' = (strayed \/ (sweeps /\ StraysByAbort(stale, 0)))
         /\ eng' = [eng EXCEPT !.pc = "into", !.fan = Restrict(@, DOMAIN @ \ route)]
         /\ pf' = IF pf.layer = eng.layer THEN NoSet ELSE pf
  /\ UNCHANGED <<cfg, bytes, reads, drain, tier, kept, faults>>

IntoOne ==
  LET e == Min(tile.todo)
      took(slot) == /\ reads' = Submitted(Key(e), slot, "demand")
                    /\ tile' = [tile EXCEPT !.into = Put(@, e, Fresh), !.todo = @ \ {e}]
      rest == /\ UNCHANGED reads
              /\ tile' = [tile EXCEPT !.misses = @ \cup {e}, !.todo = @ \ {e}]
  IN  /\ At("into") /\ tile.todo # {} /\ HasRoom
      /\ \E r \in TryReadIntoSlot(Key(e)) :
           /\ pool' = r.pool
           /\ IF r.slot = 0 THEN rest ELSE took(r.slot)
      /\ UNCHANGED <<cfg, bytes, drain, eng, pf, tier, kept, faults, strayed>>

\* Losers are cancelled, then the misses are submitted (half of them as
\* singles under K3_DEMAND_FANOUT; a tile here has at most three).
SplitTickets ==
  /\ At("into") /\ tile.todo = {} /\ Cardinality(Ids \ DOMAIN reads) >= 2
  /\ LET hits == Restrict(tile.due, DOMAIN tile.due \cap tile.misses)
         losers == Restrict(tile.due, DOMAIN tile.due \ tile.misses)
         wanted == tile.misses \ DOMAIN hits
         fanout == cfg.fanout /\ tile.due # None /\ Cardinality(wanted) >= 2 /\ ~ArenaFull
         single == IF fanout THEN {Max(wanted)} ELSE {}
         misses == wanted \ single
         second == Min(Ids \ (DOMAIN reads \cup {Fresh}))
         queued(k, class) == [key |-> k, slot |-> 0, class |-> class, st |-> "queued"]
         cancelled == [i \in DOMAIN reads |->
                         IF i \in Range(losers) /\ reads[i].st = "queued"
                           THEN [reads[i] EXCEPT !.st = "cancelled"] ELSE reads[i]]
         singled == IF fanout THEN Put(cancelled, second, queued(Key(Max(wanted)), "prefetch"))
                              ELSE cancelled
     IN  /\ reads' = IF misses = {} THEN singled ELSE Put(singled, Fresh, queued(Torn, "demand"))
         /\ tile' = [tile EXCEPT !.due = Over([e \in single |-> second], hits), !.losers = losers,
                                 !.misses = misses, !.alone = (tile.due = None),
                                 !.demand = IF misses = {} THEN 0 ELSE Fresh]
  /\ eng' = [eng EXCEPT !.pc = IF tile.due = None THEN "demand" ELSE "losers"]
  /\ UNCHANGED <<cfg, pool, bytes, drain, pf, tier, kept, faults, strayed>>

Ended(i) == reads[i].st \in {"done", "failed"}
Forget(i) == Restrict(reads, DOMAIN reads \ {i})

\* A loser is drained (or dropped, K3_LOSER_DROP) and its reservation aborted.
DrainLoser ==
  /\ At("losers") /\ tile.losers # None
  /\ LET e == Min(DOMAIN tile.losers)
         i == tile.losers[e]
     IN  /\ cfg.dropLosers \/ ~Reading(i)
         /\ reads' = IF Reading(i) THEN reads ELSE Forget(i)
         /\ tile' = [tile EXCEPT !.losers = Restrict(@, DOMAIN @ \ {e})]
         /\ pool' = AbortPending(pool, {Key(e)})
         /\ strayed' = (strayed \/ StraysByAbort({Key(e)}, i))
  /\ UNCHANGED <<cfg, bytes, drain, eng, pf, tier, kept, faults>>

\* A claimed hit publishes its reservation; a failed one forces the retry of
\* the whole union and leaves its reservation.
WaitHit ==
  /\ At("losers") /\ tile.losers = None /\ tile.due # None
  /\ LET e == Min(DOMAIN tile.due)
         i == tile.due[e]
         ok == reads[i].st = "done"
     IN  /\ Ended(i)
         /\ reads' = Forget(i)
         /\ pool' = IF ok THEN PublishPending(pool, Key(e)) ELSE pool
         /\ strayed' = (strayed \/ (~ok /\ Key(e) \in DOMAIN pool.pending))
         /\ tile' = [tile EXCEPT !.due = Restrict(@, DOMAIN @ \ {e}),
                       !.failed = @ \/ ~ok,
                       !.admit = IF ok THEN @ \cup {e} ELSE @,
                       !.lease = IF ok
                         THEN Put(@, e, IF Into(i) THEN InSlot(reads[i].slot) ELSE Own(e)) ELSE @]
  /\ UNCHANGED <<cfg, bytes, drain, eng, pf, tier, kept, faults>>

HitsWaited ==
  /\ At("losers") /\ tile.losers = None /\ tile.due = None
  /\ eng' = [eng EXCEPT !.pc = "slots"]
  /\ UNCHANGED <<cfg, pool, bytes, reads, drain, pf, tile, tier, kept, faults, strayed>>

\* Every ticket of the pass is dropped with the error, those of ids with their
\* reservation: unclaimed reads go, claimed ones run on.
Fails(ids) ==
  /\ strayed' = (strayed \/ Strays(ids))
  /\ reads' = Cancelled(Held)
  /\ pf' = NoSet /\ tile' = NoTile
  /\ eng' = [eng EXCEPT !.pc = "idle", !.tiles = <<>>, !.fan = None]
  /\ UNCHANGED <<cfg, bytes, drain, tier, kept>>

\* summer_wait_into_slot: publish and serve, or give the slot back and read
\* the expert again.
WaitIntoSlot ==
  /\ At("slots") /\ tile.into # None
  /\ LET e == Min(DOMAIN tile.into)
         i == tile.into[e]
         served(src) == [tile EXCEPT !.into = Restrict(@, DOMAIN @ \ {e}), !.admit = @ \cup {e},
                                     !.lease = Put(@, e, src)]
     IN  /\ Ended(i)
         /\ \/ /\ reads[i].st = "done"
               /\ pool' = PublishPending(pool, Key(e))
               /\ tile' = served(InSlot(reads[i].slot))
               /\ reads' = Forget(i)
               /\ UNCHANGED <<cfg, bytes, drain, eng, pf, tier, kept, faults, strayed>>
            \/ /\ reads[i].st = "failed"
               /\ pool' = AbortPending(pool, {Key(e)})
               /\ tile' = served(Own(e))
               /\ reads' = Forget(i)
               /\ UNCHANGED <<cfg, bytes, drain, eng, pf, tier, kept, faults, strayed>>
            \/ /\ reads[i].st = "failed" /\ faults < MaxReadFaults[eng.pass]
               /\ faults' = faults + 1
               /\ pool' = AbortPending(pool, {Key(e)})
               /\ Fails(Held \ {i})

SlotsWaited ==
  /\ At("slots") /\ tile.into = None
  /\ eng' = [eng EXCEPT !.pc = IF tile.alone THEN "promote" ELSE "demand"]
  /\ UNCHANGED <<cfg, pool, bytes, reads, drain, pf, tile, tier, kept, faults, strayed>>

\* The demand batch; after a failed hit the complete union is read again and
\* replaces every other source.
WaitDemand ==
  /\ At("demand")
  /\ tile.demand # 0 => Ended(tile.demand)
  /\ LET broken == tile.demand # 0 /\ ~tile.failed /\ reads[tile.demand].st = "failed"
         next == [eng EXCEPT !.pc = IF tile.alone THEN "slots" ELSE "promote"]
         left == IF tile.demand = 0 THEN reads ELSE Forget(tile.demand)
         all == [e \in tile.route |-> Own(e)]
     IN  \/ /\ ~broken /\ ~tile.failed
            /\ tile' = [tile EXCEPT !.demand = 0, !.admit = @ \cup tile.misses,
                          !.lease = Over([e \in tile.misses |-> Own(e)], @)]
            /\ reads' = left /\ eng' = next
            /\ UNCHANGED <<cfg, pool, bytes, drain, pf, tier, kept, faults, strayed>>
         \/ /\ tile.failed
            /\ tile' = [tile EXCEPT !.demand = 0, !.admit = tile.route, !.lease = all]
            /\ reads' = left /\ eng' = next
            /\ UNCHANGED <<cfg, pool, bytes, drain, pf, tier, kept, faults, strayed>>
         \/ /\ tile.failed /\ faults < MaxReadFaults[eng.pass]
            /\ faults' = faults + 1 /\ UNCHANGED pool /\ Fails(Held)
         \/ broken /\ UNCHANGED <<pool, faults>> /\ Fails(Held)

\* promote_from_batch, expert by expert: into the permanent tier while it has
\* room (ExpertPinTier::maybe_promote), and summer_admit: count the route and,
\* unless slots are filled by the read itself, copy into a slot of the pool.
Promote ==
  /\ At("promote") /\ tile.admit # {}
  /\ LET e == Min(tile.admit)
         k == Key(e)
         noted == Noted(k)
         copies == ~cfg.intoSlot /\ noted[k] >= SeenBar /\ k \notin Resident
     IN  /\ tier' = IF Cardinality(tier) < TierCapacity THEN tier \cup {k} ELSE tier
         /\ tile' = [tile EXCEPT !.admit = @ \ {e}, !.retained = @ \cup {e}]
         /\ \/ PreloadOnly /\ UNCHANGED <<pool, bytes>>
            \/ /\ ~PreloadOnly
               /\ ~copies \/ MayDecline(noted[k])
               /\ pool' = [pool EXCEPT !.seen = noted]
               /\ UNCHANGED bytes
            \/ /\ ~PreloadOnly /\ copies
               /\ \E v \in EvictFor(noted[k]) :
                    LET q == AfterEviction(v)
                        s == Min(q.free)
                    IN  /\ q.free # {}
                        /\ pool' = [q EXCEPT !.map = Put(@, k, s), !.free = @ \ {s}, !.seen = noted]
                        /\ bytes' = [bytes EXCEPT ![s] = k]
  /\ UNCHANGED <<cfg, reads, drain, eng, pf, kept, faults, strayed>>

\* After the final tile's reads the hint for the next layer is scheduled,
\* unless that was done early or the mailbox fans out.
LastTile == Len(eng.tiles) = 1
HintDue == LastTile /\ ~cfg.early /\ ~cfg.prefill
Promoted == At("promote") /\ tile.admit = {}
LateHint(plan) == Promoted /\ HintDue /\ BeginSchedule(eng.layer + 1, plan, "sched1")
NoLateHint ==
  /\ Promoted
  /\ eng' = [eng EXCEPT !.pc = "kernel"]
  /\ UNCHANGED <<cfg, pool, bytes, reads, drain, pf, tile, tier, kept, faults, strayed>>

\* ExpertTileLease::finish, then retain_expert_tile; after the last tile the
\* unclaimed fan-out is cancelled and drained.
FinishTile ==
  /\ At("kernel")
  /\ kept' = IF cfg.retain /\ tile.retained # {}
                THEN [kept EXCEPT ![eng.layer] = tile.retained] ELSE kept
  /\ tile' = NoTile
  /\ LET rest == Tail(eng.tiles)
     IN  IF rest # <<>>
           THEN eng' = [eng EXCEPT !.tiles = rest, !.pc = "tile"] /\ UNCHANGED <<reads, drain>>
           ELSE /\ eng' = [eng EXCEPT !.tiles = rest, !.fan = None,
                             !.layer = IF @ = NLayers THEN @ ELSE @ + 1,
                             !.pc = IF eng.layer = NLayers THEN "idle" ELSE "mailbox"]
                /\ reads' = Cancelled(Range(eng.fan))
                /\ drain' = Draining(Range(eng.fan))
  /\ UNCHANGED <<cfg, pool, bytes, pf, tier, faults, strayed>>

\* The provider refuses the tile: the prefetch is cancelled and drained, and
\* the pass ends.
KernelFails ==
  /\ At("kernel") /\ faults < MaxReadFaults[eng.pass]
  /\ faults' = faults + 1
  /\ strayed' = (strayed \/ Strays(Range(pf.tk)))
  /\ reads' = Cancelled(Held)
  /\ drain' = Draining(Range(pf.tk))
  /\ pf' = NoSet /\ tile' = NoTile
  /\ eng' = [eng EXCEPT !.pc = "idle", !.tiles = <<>>, !.fan = None]
  /\ UNCHANGED <<cfg, pool, bytes, tier, kept>>

\* summer_age_tick: between tokens, route counts are halved.
AgeTick ==
  /\ eng.pc = "idle" /\ cfg.model
  /\ \E k \in Keys : pool.seen[k] # 0
  /\ pool' = [pool EXCEPT !.seen = [k \in Keys |-> @[k] \div 2]]
  /\ UNCHANGED <<cfg, bytes, reads, drain, eng, pf, tile, tier, kept, faults, strayed>>

Finished == eng.pc = "idle" /\ eng.pass = MaxPasses /\ drain = {} /\ UNCHANGED evars

TileLists == {<<r>> : r \in Plans} \cup {<<r, q>> : r \in Plans, q \in Plans}

ENext ==
  \/ \E i \in DOMAIN reads : Claim(i) \/ \E ok \in BOOLEAN : EndRead(i, ok)
  \/ \E k \in Keys, ok \in BOOLEAN : SummerPreload(k, ok)
  \/ StartPass
  \/ \E plan \in Plans : PlanSequenceStart(plan) \/ EarlyHint(plan) \/ LateHint(plan)
  \/ ScheduleOne("sched0", "mailbox") \/ EndSchedule("sched0", "mailbox")
  \/ ScheduleOne("sched1", "kernel") \/ EndSchedule("sched1", "kernel")
  \/ ScheduleOne("sched2", "fan") \/ EndSchedule("sched2", "fan")
  \/ \E tiles \in TileLists : BeginMailbox(tiles)
  \/ Topup \/ HoistDue \/ NoEarlyHint \/ FanOne \/ FanDone
  \/ ReadTile \/ IntoOne \/ SplitTickets \/ DrainLoser \/ WaitHit \/ HitsWaited
  \/ WaitIntoSlot \/ SlotsWaited \/ WaitDemand
  \/ Promote \/ NoLateHint \/ FinishTile \/ KernelFails \/ AgeTick \/ Finished

ESpec == EInit /\ [][ENext]_evars

---------------------------------------------------------------------------
(* Properties.                                                              *)

Serving == eng.pc \in {"sched1", "kernel"}
Served(e) == IF tile.lease[e].slot = 0 THEN tile.lease[e].key ELSE bytes[tile.lease[e].slot]

\* The kernel of a tile runs over exactly the experts the layer routed to, and
\* every span it reads holds that expert's bytes, whichever of the five
\* sources served it and whatever was evicted, scheduled or read meanwhile, as
\* long as no reservation outlived its ticket nor a ticket its reservation
\* (read_expert_tile_with_prefetch, assemble_expert_spans, summer_evict_for).
ServedBytesAreRight ==
  Serving /\ ~strayed =>
    /\ DOMAIN tile.lease = tile.route
    /\ \A e \in tile.route : Served(e) = Key(e)

\* Every slot of the arena is free, published or reserved, and only one of
\* them, for one key: reservations, publications, aborts and evictions never
\* lose a slot nor hand one out twice (SummerPool).
SlotsAreOwnedOnce ==
  \A s \in Slots :
    Cardinality({k \in Resident : pool.map[k] = s})
      + Cardinality({k \in DOMAIN pool.pending : pool.pending[k] = s})
      + (IF s \in pool.free THEN 1 ELSE 0) = 1

\* What summer_into_slot_candidate says of the slot it pops ("this slot was on
\* the free list so no live entry or lease references it", engine.rs:7716): the
\* tile being served reads no free slot, and no read it waits for fills one.
FreeSlotsAreUnreferenced ==
  /\ pool.free \cap LeasedSlots = {}
  /\ \A i \in Held : i \in DOMAIN reads => reads[i].slot \notin pool.free

\* What summer_publish_pending says of what it publishes ("The read landed and
\* validated", engine.rs:7728): a published slot nobody is writing holds the
\* bytes of its key.
PublishedSlotsAreValid ==
  \A k \in Resident :
    \/ bytes[pool.map[k]] = k
    \/ \E i \in DOMAIN reads : Reading(i) /\ reads[i].slot = pool.map[k]

===========================================================================
