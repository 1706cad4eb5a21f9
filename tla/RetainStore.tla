----------------------------- MODULE RetainStore -----------------------------
(***************************************************************************)
(* Expert bytes kept for one more token (K3_EXPERT_RETAIN), and the memory   *)
(* under them: allocations leave their arena slot for the retained store,    *)
(* and later go to the donation pool or, through the graveyard, back to the  *)
(* allocator (engine.rs, retain_*; storage.rs, BufferArena).  The Metal       *)
(* provider caches no-copy wrappers over every span it computed from, so     *)
(* memory may be freed only after the wrappers over it are dropped.          *)
(***************************************************************************)
EXTENDS Naturals, FiniteSets, Sequences, FiniteSetsExt, SequencesExt

CONSTANTS
  Allocs,          \* addresses of allocations, enough for all at once
  NRouted,         \* routed layers, 92 in the code
  Experts,         \* expert ids
  TopK,            \* experts of one position
  TileWidth,       \* experts of a tile: TopK, or more with K3_RETAIN_DRAFTED
  CapTiles,        \* retained tiles the byte cap allows
  PoolLimit,       \* DONATION_POOL_LIMIT
  FlushThreshold,  \* buried allocations that trigger a flush
  MaxTiles,        \* bound: tiles computed
  MaxHookFaults    \* bound: hooks that fail

VARIABLES
  arena,    \* the readers' slots: 1 for demand, the others for prefetch
  lease,    \* the tile in hand
  store,    \* retained entries per layer, with their insertion sequence
  grave,    \* RetainGraveyard
  pool,     \* the donation pool
  env,      \* spans in each allocation
  wrapped,  \* spans the provider holds a wrapper over
  rst       \* progress: pc, tiles, faults, backend

rvars == <<arena, lease, store, grave, pool, env, wrapped, rst>>

CONSTANT NoBuf

ASSUME RetainAssumption ==
  /\ NRouted \in Nat \ {0} /\ TopK \in Nat \ {0} /\ TileWidth \in Nat \ {0}
  /\ CapTiles \in Nat \ {0}    \* retain_cap_bytes is 1 GiB at least
  /\ PoolLimit \in Nat /\ FlushThreshold \in Nat
  /\ MaxTiles \in Nat /\ MaxHookFaults \in Nat
  /\ NoBuf \notin Allocs /\ IsFiniteSet(Experts)

RLayers == 1..NRouted
ArenaSlots == 1..TileWidth
NoLease == [layer |-> 0, want |-> <<>>, got |-> <<>>, kept |-> {}]

RInit ==
  /\ arena = [s \in ArenaSlots |-> [buf |-> NoBuf, use |-> FALSE]]
  /\ lease = NoLease
  /\ store = [l \in RLayers |-> [entries |-> {}, seq |-> 0]]
  /\ grave = [pending |-> {}, blobs |-> {}]
  /\ pool = {} /\ wrapped = {}
  /\ env = [a \in Allocs |-> 0]
  /\ rst \in [pc : {"idle"}, n : {0}, bad : {0}, metal : BOOLEAN]

InEntries(es) == {e.buf : e \in es}
RetainedAllocs == UNION {InEntries(store[l].entries) : l \in RLayers}

\* Whoever keeps an allocation alive.
Alive == ({arena[s].buf : s \in ArenaSlots} \ {NoBuf}) \cup RetainedAllocs \cup grave.pending \cup pool
           \cup {lease.got[i].buf : i \in DOMAIN lease.got} \cup InEntries(lease.kept)

\* Hooks that fail, on Metal only.
Failures(os) == Cardinality({i \in DOMAIN os : ~os[i]})
Blame(os) == rst.bad + Failures(os) <= MaxHookFaults /\ (~rst.metal => Failures(os) = 0)
BadAfter(os) == rst.bad + Failures(os)

---------------------------------------------------------------------------
(* Reading a tile.                                                          *)

\* retain_layer_in_set: the deepest layers whose tiles fit the cap.
InSet(l) == l >= NRouted - Min({CapTiles, NRouted}) + 1

\* take_retained_hits
RetainedHits(l, wanted) == IF InSet(l) THEN {e \in store[l].entries : e.expert \in wanted} ELSE {}

\* A tile's experts: some prefetched one by one, some retained, the rest read
\* in one demand batch.
BeginTile(l, wanted, hits) ==
  /\ rst.pc = "idle" /\ rst.n < MaxTiles
  /\ LET kept == RetainedHits(l, wanted \ hits)
         missing == wanted \ (hits \cup {e.expert : e \in kept})
         single == [i \in 1..Cardinality(hits) |-> [slot |-> i + 1, ids |-> <<SetToSeq(hits)[i]>>]]
         want == IF missing = {} THEN single ELSE Append(single, [slot |-> 1, ids |-> SetToSeq(missing)])
     IN  lease' = [layer |-> l, want |-> want, got |-> <<>>, kept |-> kept]
  /\ rst' = [rst EXCEPT !.n = @ + 1, !.pc = "reading"]
  /\ UNCHANGED <<arena, store, grave, pool, env, wrapped>>

Spans(b) == IF b = NoBuf THEN 0 ELSE env[b]

\* take_fitting_donation: the smallest that fits.
Donations(n) == {b \in pool : env[b] >= n /\ \A c \in pool : env[c] >= n => env[b] <= env[c]}

\* BufferArena::acquire: a slot that is too small is retired first, after the
\* hook has flushed the wrappers; then a donation, or a fresh allocation.
Acquire(flushed) ==
  /\ rst.pc = "reading" /\ lease.want # <<>> /\ Blame(<<flushed>>)
  /\ LET w == Head(lease.want)
         old == arena[w.slot].buf
         n == Max({Len(w.ids), Spans(old)})
         regrow == Spans(old) < Len(w.ids)
         retire == regrow /\ old # NoBuf
         take(b) ==
           /\ arena' = [arena EXCEPT ![w.slot] = [buf |-> b, use |-> TRUE]]
           /\ lease' = [lease EXCEPT !.want = Tail(@),
                          !.got = Append(@, [slot |-> w.slot, buf |-> b, ids |-> w.ids])]
     IN  /\ ~flushed => retire
         /\ rst' = [rst EXCEPT !.bad = BadAfter(<<flushed>>), !.pc = IF flushed THEN @ ELSE "failed"]
         /\ wrapped' = IF retire /\ flushed THEN {} ELSE wrapped
         /\ IF ~flushed THEN UNCHANGED <<arena, lease, pool, env>>
            ELSE IF ~regrow THEN take(old) /\ UNCHANGED <<pool, env>>
            ELSE IF Donations(n) # {}
              THEN \E b \in Donations(n) : take(b) /\ pool' = pool \ {b} /\ UNCHANGED env
            ELSE LET b == CHOOSE c \in Allocs \ Alive : TRUE    \* which address is of no matter
                 IN  b \in Allocs \ Alive /\ take(b) /\ env' = [env EXCEPT ![b] = n] /\ UNCHANGED pool
  /\ UNCHANGED <<store, grave>>

\* lease.finish: the provider computes from the spans and, on Metal, keeps
\* wrappers over them.  A failure drops the lease.
Finish(ok) ==
  /\ rst.pc = "reading" /\ lease.want = <<>>
  /\ LET spans == (UNION {{<<g.buf, k>> : k \in 1..Len(g.ids)} : g \in Range(lease.got)})
                    \cup {<<e.buf, e.k>> : e \in lease.kept}
     IN  wrapped' = IF rst.metal THEN wrapped \cup spans ELSE wrapped
  /\ rst' = [rst EXCEPT !.pc = IF ok THEN "retain" ELSE "failed"]
  /\ UNCHANGED <<arena, lease, store, grave, pool, env>>

---------------------------------------------------------------------------
(* Retaining it.                                                            *)

\* The entries of the tile: every batch of at most TopK experts is detached from
\* its slot, but only the first TopK experts are entered; then the clones of
\* what was retained already.
Batches == {i \in DOMAIN lease.got : Len(lease.got[i].ids) <= TopK}
Places == {p \in Batches \X (1..TopK) : p[2] <= Len(lease.got[p[1]].ids)}
Before(p) == {q \in Places : q[1] < p[1] \/ (q[1] = p[1] /\ q[2] < p[2])}
EntryAt(p) ==
  LET g == lease.got[p[1]] IN [expert |-> g.ids[p[2]], buf |-> g.buf, k |-> p[2]]
NewEntries ==
  {EntryAt(p) : p \in {q \in Places : Cardinality(Before(q)) < TopK}} \cup lease.kept
Detached == IF InSet(lease.layer) THEN {lease.got[i].slot : i \in Batches} ELSE {}

\* Occupancy against the cap: the replaced tile goes, then the stalest ones.
Size(ls) == FoldSet(LAMBDA l, acc : acc + Cardinality(store[l].entries), 0, ls)
Newer(l, t) == {m \in RLayers \ {l} : store[m].seq > t}
WithinCap(l, n, t) == Size(Newer(l, t)) + n <= CapTiles * TopK
Survivors(l, n) ==
  Newer(l, CHOOSE t \in 0..rst.n : /\ WithinCap(l, n, t)
                                   /\ \A u \in 0..(t - 1) : ~WithinCap(l, n, u))

\* Mutant: only the spans the buried tile itself entered.
Bug_Surface(b) == {<<b, 1>>}

\* retained_allocation_wrapper_surface: every span of the allocation, not only
\* those of the last tile.
Surface(b) == {<<b, k>> : k \in 1..env[b]}

\* Mutant: an allocation the successor tile carries on is donated too.
Bug_SoleOwner(out, held) == out

\* Arc::try_unwrap and strong_count: nobody else holds the allocation.
SoleOwner(out, held) == out \ held

\* retain_bury_tile of the outgoing allocations: those nobody else holds are
\* donated while the pool has room, the rest buried; over the threshold the
\* wrappers are dropped by address, or all of them by the fallback.
Bury(out, held, donated, dropOk, flushOk) ==
  LET sole == SoleOwner(out, held)
      left == out \ donated
      pending == grave.pending \cup left
      blobs == grave.blobs \cup UNION {Surface(b) : b \in left}
      full == Cardinality(pending) >= FlushThreshold
      released == rst.metal /\ full /\ (dropOk \/ flushOk)
  IN  /\ donated \subseteq sole
      /\ Cardinality(donated) = Min({Cardinality(sole), PoolLimit - Cardinality(pool)})
      /\ (out # {} /\ rst.metal /\ full) \/ (dropOk /\ flushOk)
      /\ dropOk => flushOk
      /\ pool' = pool \cup donated
      /\ wrapped' = IF ~rst.metal \/ ~full \/ out = {} THEN wrapped
                    ELSE IF dropOk THEN wrapped \ blobs
                    ELSE IF flushOk THEN {} ELSE wrapped
      /\ grave' = IF ~rst.metal \/ out = {} THEN grave
                  ELSE IF released THEN [pending |-> {}, blobs |-> {}]
                  ELSE [pending |-> pending, blobs |-> blobs]

\* retain_expert_tile, then the lease goes and its slots are released.
RetainTile(donated, dropOk, flushOk) ==
  /\ rst.pc = "retain" /\ Blame(<<dropOk, flushOk>>)
  /\ LET l == lease.layer
         entries == NewEntries
         keep == InSet(l) /\ entries # {} /\ Cardinality(entries) <= CapTiles * TopK
         stay == IF keep THEN Survivors(l, Cardinality(entries)) ELSE RLayers
         gone == IF keep THEN RLayers \ stay ELSE {}
         out == UNION {InEntries(store[m].entries) : m \in gone}
         held == InEntries(entries) \cup (UNION {InEntries(store[m].entries) : m \in stay})
                   \cup grave.pending \cup {lease.got[i].buf : i \in DOMAIN lease.got} \cup InEntries(lease.kept)
     IN  /\ Bury(out, held, donated, dropOk, flushOk)
         /\ store' = [m \in RLayers |->
              IF keep /\ m = l THEN [entries |-> entries, seq |-> rst.n]
              ELSE IF m \in gone THEN [entries |-> {}, seq |-> 0] ELSE store[m]]
  /\ arena' = [s \in ArenaSlots |-> [buf |-> IF s \in Detached THEN NoBuf ELSE arena[s].buf, use |-> FALSE]]
  /\ lease' = NoLease
  /\ rst' = [rst EXCEPT !.pc = "idle", !.bad = BadAfter(<<dropOk, flushOk>>)]
  /\ UNCHANGED env

\* A tile that failed releases its slots; the engine is torn down.
Abandon ==
  /\ rst.pc = "failed"
  /\ lease' = NoLease
  /\ arena' = [s \in ArenaSlots |-> [arena[s] EXCEPT !.use = FALSE]]
  /\ rst' = [rst EXCEPT !.pc = "ending"]
  /\ UNCHANGED <<store, grave, pool, env, wrapped>>

---------------------------------------------------------------------------
(* NativeTargetEngine::drop.                                                *)

\* retain_teardown_bury_all, the global flush, retain_teardown_release; then the
\* arenas go, leaking their slabs when their own flush fails.
Teardown(flushOk, arenaOk) ==
  /\ rst.pc \in {"idle", "ending"} /\ Blame(<<flushOk, arenaOk>>)
  /\ store' = [l \in RLayers |-> [entries |-> {}, seq |-> 0]]
  /\ LET buried == grave.pending \cup RetainedAllocs
         slabs == {arena[s].buf : s \in ArenaSlots} \ {NoBuf}
     IN  \* a slab that is leaked stays buried for ever
         /\ slabs # {} \/ arenaOk
         /\ grave' = [grave EXCEPT !.pending = (IF flushOk THEN {} ELSE buried)
                                                 \cup IF arenaOk THEN {} ELSE slabs]
         /\ wrapped' = IF flushOk \/ (slabs # {} /\ arenaOk) THEN {} ELSE wrapped
  /\ arena' = [s \in ArenaSlots |-> [buf |-> NoBuf, use |-> FALSE]]
  /\ rst' = [rst EXCEPT !.pc = "closed", !.bad = BadAfter(<<flushOk, arenaOk>>)]
  /\ UNCHANGED <<lease, pool, env>>

RNext ==
  \/ \E l \in RLayers, wanted \in SUBSET Experts : \E hits \in SUBSET wanted :
       /\ wanted # {} /\ Cardinality(wanted) <= TileWidth /\ Cardinality(hits) < TileWidth
       /\ BeginTile(l, wanted, hits)
  \/ \E ok \in BOOLEAN : Acquire(ok) \/ Finish(ok)
  \/ \E donated \in SUBSET RetainedAllocs, a, b \in BOOLEAN : RetainTile(donated, a, b)
  \/ Abandon
  \/ \E a, b \in BOOLEAN : Teardown(a, b)

RSpec == RInit /\ [][RNext]_rvars

---------------------------------------------------------------------------
(* Properties.                                                              *)

\* However tiles are replaced, donated, buried and flushed, and whichever hook
\* fails, an allocation the provider still names is still held by someone
\* (retain_bury_tile, BufferArena::acquire, NativeTargetEngine::drop).
WrappersAreOverLiveMemory == \A w \in wrapped : w[1] \in Alive

\* Memory in the pool is nobody else's: a donated allocation is not also read
\* by a retained tile, a buried one or the tile in hand
\* (donate_expert_allocation_owned).
DonationsAreUnshared ==
  pool \cap (RetainedAllocs \cup grave.pending \cup ({arena[s].buf : s \in ArenaSlots})
               \cup {lease.got[i].buf : i \in DOMAIN lease.got} \cup InEntries(lease.kept)) = {}

\* No wrapper outlives the memory under it, and memory that is handed on is
\* nobody else's: where TileWidth <= TopK, which is the code without
\* K3_RETAIN_DRAFTED.  With wider tiles it is false: allocations are detached
\* from their tile before the ceiling that follows from TopK is applied.
NoWrapperOutlivesItsMemory == WrappersAreOverLiveMemory /\ DonationsAreUnshared
=============================================================================
