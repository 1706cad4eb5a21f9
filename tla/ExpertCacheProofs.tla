------------------------- MODULE ExpertCacheProofs -------------------------
(***************************************************************************)
(* Proofs about ExpertCache: the slots of the Summer arena are owned once,  *)
(* and the kernel of a tile reads the bytes of exactly the experts its      *)
(* layer routed to.                                                         *)
(***************************************************************************)
EXTENDS ExpertCache, SequenceLemmas

-----------------------------------------------------------------------------
(* The inductive invariant, by parts.                                        *)

Tag == (0..NLayers) \X (Experts \cup {0})
ReadType == [key : Tag, slot : 0..NSlots, class : {"prefetch", "demand"},
             st : {"queued", "reading", "done", "failed", "cancelled"}]

\* A map with keys in K and values in V.
IsMap(f, K, V) ==
  /\ f = [x \in DOMAIN f |-> f[x]]
  /\ DOMAIN f \subseteq K
  /\ \A x \in DOMAIN f : f[x] \in V

ReadsTyped == DOMAIN reads \subseteq Ids /\ reads \in [DOMAIN reads -> ReadType]
EngTyped ==
  /\ eng = [pc |-> eng.pc, pass |-> eng.pass, layer |-> eng.layer,
            tiles |-> eng.tiles, fan |-> eng.fan]
  /\ eng.layer \in 0..NLayers /\ (eng.pc # "boot" => eng.layer # 0)
  /\ eng.tiles \in Seq(SUBSET Experts)
  /\ IsMap(eng.fan, Experts, Ids)
PfTyped ==
  /\ pf = [layer |-> pf.layer, tk |-> pf.tk]
  /\ pf.layer \in 0..NLayers
  /\ IsMap(pf.tk, Experts, Ids)
TileTyped ==
  /\ tile = [route |-> tile.route, due |-> tile.due, todo |-> tile.todo,
             losers |-> tile.losers, into |-> tile.into, demand |-> tile.demand,
             misses |-> tile.misses, failed |-> tile.failed, alone |-> tile.alone,
             lease |-> tile.lease, retained |-> tile.retained, admit |-> tile.admit]
  /\ tile.route \subseteq Experts /\ tile.todo \subseteq Experts /\ tile.misses \subseteq Experts
  /\ tile.failed \in BOOLEAN /\ tile.alone \in BOOLEAN /\ tile.demand \in Ids \cup {0}
  /\ IsMap(tile.due, Experts, Ids) /\ IsMap(tile.losers, Experts, Ids)
  /\ IsMap(tile.into, Experts, Ids)
  /\ tile.admit \subseteq Experts
  /\ IsMap(tile.lease, Experts, [slot : 0..NSlots, key : Tag])

\* A pool in which every slot has one owner.
PoolTyped(p) ==
  /\ p = [map |-> p.map, pending |-> p.pending, free |-> p.free, seen |-> p.seen]
  /\ p.free \subseteq Slots
  /\ IsMap(p.map, Tag, Slots \ p.free)
  /\ IsMap(p.pending, Tag, Slots \ p.free)
PoolOwned(p) ==
  /\ DOMAIN p.map \cap DOMAIN p.pending = {}
  /\ \A j, k \in DOMAIN p.map : p.map[j] = p.map[k] => j = k
  /\ \A j, k \in DOMAIN p.pending : p.pending[j] = p.pending[k] => j = k
  /\ \A j \in DOMAIN p.map, k \in DOMAIN p.pending : p.map[j] # p.pending[k]
  /\ \A s \in Slots \ p.free : \/ \E k \in DOMAIN p.map : p.map[k] = s
                               \/ \E k \in DOMAIN p.pending : p.pending[k] = s
PoolOk(p) == PoolTyped(p) /\ PoolOwned(p)
\* Reservations exist only under K3_SUMMER_READ_INTO_SLOT, and none at start-up.
PlainPool == (~cfg.intoSlot \/ eng.pc = "boot") => DOMAIN pool.pending = {}
PInv == PoolOk(pool) /\ DOMAIN bytes = Slots /\ PlainPool

\* Every ticket is of a known read, of the right expert, and held in one place.
Known(f) == \A e \in DOMAIN f : f[e] \in DOMAIN reads
Once(f) == \A d, e \in DOMAIN f : f[d] = f[e] => d = e
Apart(f, g) == \A d \in DOMAIN f, e \in DOMAIN g : f[d] # g[e]
Aside(f) == \A e \in DOMAIN f : f[e] # tile.demand /\ f[e] \notin drain
TicketsKnown ==
  /\ Known(pf.tk) /\ Known(tile.due) /\ Known(tile.losers) /\ Known(tile.into) /\ Known(eng.fan)
  /\ tile.demand # 0 => tile.demand \in DOMAIN reads
TicketsLabelled ==
  /\ \A e \in DOMAIN pf.tk : reads[pf.tk[e]].key = <<pf.layer, e>>
  /\ \A e \in DOMAIN tile.due : reads[tile.due[e]].key = Key(e)
  /\ \A e \in DOMAIN tile.losers : reads[tile.losers[e]].key = Key(e)
  /\ \A e \in DOMAIN tile.into : reads[tile.into[e]].key = Key(e) /\ Into(tile.into[e])
  /\ \A e \in DOMAIN eng.fan : reads[eng.fan[e]].key = Key(e) /\ ~Into(eng.fan[e])
  /\ tile.demand # 0 => ~Into(tile.demand)
TicketsOnce ==
  /\ Once(pf.tk) /\ Once(tile.due) /\ Once(tile.losers) /\ Once(tile.into) /\ Once(eng.fan)
  /\ Apart(pf.tk, tile.due) /\ Apart(pf.tk, tile.losers) /\ Apart(pf.tk, tile.into)
  /\ Apart(pf.tk, eng.fan) /\ Apart(tile.due, tile.losers) /\ Apart(tile.due, tile.into)
  /\ Apart(tile.due, eng.fan) /\ Apart(tile.losers, tile.into) /\ Apart(tile.losers, eng.fan)
  /\ Apart(tile.into, eng.fan)
  /\ Aside(pf.tk) /\ Aside(tile.due) /\ Aside(tile.losers) /\ Aside(tile.into) /\ Aside(eng.fan)
  /\ tile.demand \notin drain /\ drain \subseteq Ids

\* Where the tickets are when.
Empty(f) == DOMAIN f = {}
Before == {"boot", "idle", "start", "sched0", "mailbox", "topup", "early", "hint2", "sched2",
           "fan", "tile"}
After == {"promote", "sched1", "kernel"}
\* What was due at this layer has been taken over by the tile.
DueTaken ==
  \/ eng.pc \in {"hint2", "sched2", "into", "losers", "slots", "demand"} \cup After
  \/ (eng.pc \in {"fan", "tile"} /\ cfg.early)
\* The tile has no due set, or none left.
DueFree ==
  \/ eng.pc \in {"boot", "idle", "start", "sched0", "mailbox", "topup", "early", "slots", "demand"}
                \cup After
  \/ (eng.pc \in {"fan", "tile"} /\ ~cfg.early)
IntoFree == eng.pc \in Before \cup After \/ (eng.pc = "demand" /\ ~tile.alone)
Control ==
  /\ eng.pc \in {"boot", "idle"} => Empty(eng.fan)
  /\ pf.layer = 0 => Empty(pf.tk)
  /\ eng.pc \in {"sched0", "sched1", "sched2"} => /\ pf.layer # 0
                                              /\ tile.todo \cap DOMAIN pf.tk = {}
  /\ eng.pc \in {"sched1", "sched2"} => pf.layer # eng.layer
  /\ eng.pc \notin {"boot", "idle", "start", "sched0", "mailbox"} => eng.tiles # <<>>
  /\ eng.pc \in {"early", "hint2", "sched2"} => cfg.early
  /\ DueTaken /\ pf.layer = eng.layer => Empty(pf.tk)
  /\ DueFree => Empty(tile.due)
  /\ IntoFree => Empty(tile.into)
  /\ eng.pc # "losers" => Empty(tile.losers)
  /\ eng.pc \in Before => Empty(tile.lease)

\* Every expert of the route is leased, or on its way from one source.
Coverage ==
  /\ eng.pc = "into" =>
       /\ ~tile.failed
       /\ tile.route = DOMAIN tile.lease \cup tile.todo \cup DOMAIN tile.into \cup tile.misses
       /\ tile.todo \cap (DOMAIN tile.into \cup tile.misses) = {}
       /\ DOMAIN tile.into \cap tile.misses = {}
  /\ eng.pc \in {"losers", "slots", "demand"} =>
       /\ DOMAIN tile.into \cap DOMAIN tile.due = {}
       /\ DOMAIN tile.losers \cap DOMAIN tile.due = {}
       /\ tile.failed \/ tile.route = DOMAIN tile.lease \cup DOMAIN tile.due
                                        \cup DOMAIN tile.into \cup tile.misses
       /\ tile.alone => ~tile.failed
  /\ eng.pc = "losers" => ~tile.alone
  /\ (eng.pc = "slots" /\ tile.alone) => tile.misses \subseteq DOMAIN tile.lease
  /\ eng.pc \in After => DOMAIN tile.lease = tile.route

\* Without reads into slots nothing strays.
PlainReads == ~cfg.intoSlot => ~strayed /\ \A i \in DOMAIN reads : ~Into(i)

\* While no reservation outlived its ticket nor a ticket its reservation.
HeldAt(i) ==
  \/ \E e \in DOMAIN pf.tk : pf.tk[e] = i
  \/ \E e \in DOMAIN tile.due : tile.due[e] = i
  \/ \E e \in DOMAIN tile.losers : tile.losers[e] = i
  \/ \E e \in DOMAIN tile.into : tile.into[e] = i
ReadsReserved ==
  \A i \in DOMAIN reads : Into(i) =>
    /\ reads[i].key \in DOMAIN pool.pending
    /\ pool.pending[reads[i].key] = reads[i].slot
    /\ HeldAt(i) /\ i \notin drain
ReadsDistinct ==
  \A i, j \in DOMAIN reads : Into(i) /\ Into(j) /\ reads[i].key = reads[j].key => i = j
ReservationsRead ==
  \A k \in DOMAIN pool.pending : \E i \in DOMAIN reads : Into(i) /\ reads[i].key = k
BytesRight ==
  /\ \A i \in DOMAIN reads : Into(i) /\ reads[i].st = "done" => bytes[reads[i].slot] = reads[i].key
  /\ \A k \in Resident : bytes[pool.map[k]] = k
LeasesRight ==
  \A e \in DOMAIN tile.lease :
    \/ tile.lease[e].slot = 0 /\ tile.lease[e].key = Key(e)
    \/ Key(e) \in Resident /\ pool.map[Key(e)] = tile.lease[e].slot
SInv == ReadsReserved /\ ReadsDistinct /\ ReservationsRead /\ BytesRight /\ LeasesRight

TypeInv == ReadsTyped /\ EngTyped /\ PfTyped /\ TileTyped
TicketsInv == TicketsKnown /\ TicketsLabelled /\ TicketsOnce
IInv ==
  /\ TypeInv /\ PInv /\ TicketsInv /\ Control /\ Coverage /\ PlainReads
  /\ ~strayed => SInv


-----------------------------------------------------------------------------
(* Maps.                                                                     *)

\* Put adds one entry or replaces it.
LEMMA PutIsMap ==
  ASSUME NEW f, NEW K, NEW V, IsMap(f, K, V), NEW e \in K, NEW x \in V
  PROVE  /\ IsMap(Put(f, e, x), K, V)
         /\ DOMAIN Put(f, e, x) = DOMAIN f \cup {e}
         /\ Put(f, e, x)[e] = x
         /\ \A d \in DOMAIN f : d # e => Put(f, e, x)[d] = f[d]
BY DEF IsMap, Put

\* Restrict keeps the entries it keeps.
LEMMA RestrictIsMap ==
  ASSUME NEW f, NEW K, NEW V, IsMap(f, K, V), NEW S, S \subseteq DOMAIN f
  PROVE  /\ IsMap(Restrict(f, S), K, V)
         /\ DOMAIN Restrict(f, S) = S
         /\ \A d \in S : Restrict(f, S)[d] = f[d]
BY DEF IsMap, Restrict

\* The empty map.
LEMMA NoneIsMap ==
  ASSUME NEW K, NEW V
  PROVE  IsMap(None, K, V) /\ DOMAIN None = {}
BY DEF IsMap, None

\* A map without entries is None.
LEMMA EmptyIsNone ==
  ASSUME NEW f, NEW K, NEW V, IsMap(f, K, V)
  PROVE  f = None <=> DOMAIN f = {}
BY DEF IsMap, None

\* The least member of a set of numbers is a member.
LEMMA MinMember ==
  ASSUME NEW T, T \subseteq Nat, T # {}
  PROVE  Min(T) \in T
BY LeastNatural DEF Min

-----------------------------------------------------------------------------
(* The operations of the Summer pool keep every slot with one owner.         *)

LEMMA SlotsAreNat == Slots \subseteq Nat /\ 0 \notin Slots
<1>1. NSlots \in Nat /\ Slots = 1..NSlots
  BY CacheAssumption DEF Slots
<1> QED BY <1>1

LEMMA IdsAreNat == Ids \subseteq Nat /\ 0 \notin Ids
<1>1. MaxReads \in Nat /\ Ids = 1..MaxReads
  BY CacheAssumption DEF Ids
<1> QED BY <1>1

\* Eviction gives the slot of a resident key back.
LEMMA EvictionKeeps ==
  ASSUME PoolOk(pool), NEW v, v = Torn \/ v \in Resident
  PROVE  /\ PoolOk(AfterEviction(v))
         /\ AfterEviction(v).pending = pool.pending
         /\ DOMAIN AfterEviction(v).map
              = IF v = Torn THEN Resident ELSE Resident \ {v}
         /\ \A k \in DOMAIN AfterEviction(v).map : AfterEviction(v).map[k] = pool.map[k]
<1>1. CASE v = Torn
  BY <1>1 DEF AfterEviction, Resident
<1>2. CASE v # Torn
  <2> DEFINE m == Restrict(pool.map, Resident \ {v})
             q == [map |-> m, pending |-> pool.pending, free |-> pool.free \cup {pool.map[v]},
                   seen |-> pool.seen]
  <2>1. AfterEviction(v) = q
    BY <1>2 DEF AfterEviction, PoolOk, PoolTyped
  <2>2. v \in Resident /\ Resident = DOMAIN pool.map /\ pool.map[v] \in Slots \ pool.free
    BY <1>2 DEF Resident, PoolOk, PoolTyped, IsMap
  <2>3. /\ IsMap(m, Tag, Slots \ pool.free) /\ DOMAIN m = Resident \ {v}
        /\ \A d \in Resident \ {v} : m[d] = pool.map[d]
    BY <2>2, RestrictIsMap DEF PoolOk, PoolTyped
  <2> HIDE DEF m
  <2>4. PoolTyped(q)
    <3>1. IsMap(m, Tag, Slots \ q.free)
      BY <2>2, <2>3 DEF IsMap, PoolOk, PoolOwned
    <3>2. IsMap(pool.pending, Tag, Slots \ q.free)
      BY <2>2 DEF IsMap, PoolOk, PoolOwned, PoolTyped
    <3> QED BY <2>2, <3>1, <3>2 DEF PoolTyped, PoolOk
  <2>5. PoolOwned(q)
    BY <2>2, <2>3 DEF PoolOwned, PoolOk
  <2> QED BY <1>2, <2>1, <2>3, <2>4, <2>5 DEF PoolOk
<1> QED BY <1>1, <1>2

\* A reservation takes a free slot for a key that has none.
LEMMA ReserveKeeps ==
  ASSUME NEW p, PoolOk(p), NEW k \in Tag, k \notin DOMAIN p.map, k \notin DOMAIN p.pending,
         NEW s \in p.free
  PROVE  PoolOk([p EXCEPT !.free = @ \ {s}, !.pending = Put(@, k, s)])
<1> DEFINE f == Put(p.pending, k, s)
<1>1. PICK q : q = [p EXCEPT !.free = @ \ {s}, !.pending = Put(@, k, s)]
  OBVIOUS
<1>2. /\ q = [map |-> q.map, pending |-> q.pending, free |-> q.free, seen |-> q.seen]
      /\ q.pending = f /\ q.map = p.map /\ q.free = p.free \ {s}
  BY <1>1 DEF PoolOk, PoolTyped
<1>3. s \in Slots \ q.free /\ Slots \ p.free \subseteq Slots \ q.free
  BY <1>2 DEF PoolOk, PoolTyped
<1>4. IsMap(p.pending, Tag, Slots \ q.free) /\ IsMap(p.map, Tag, Slots \ q.free)
  BY <1>3 DEF IsMap, PoolOk, PoolTyped
<1>5. /\ IsMap(f, Tag, Slots \ q.free) /\ DOMAIN f = DOMAIN p.pending \cup {k} /\ f[k] = s
      /\ \A d \in DOMAIN p.pending : d # k => f[d] = p.pending[d]
  BY <1>3, <1>4, PutIsMap
<1>6. /\ \A d \in DOMAIN p.map : p.map[d] # s
      /\ \A d \in DOMAIN p.pending : p.pending[d] # s
  BY DEF PoolOk, PoolTyped, IsMap
<1> HIDE DEF f
<1>7. PoolTyped(q)
  BY <1>2, <1>4, <1>5 DEF PoolTyped, PoolOk
<1>8. PoolOwned(q)
  BY <1>2, <1>5, <1>6 DEF PoolOwned, PoolOk
<1> QED BY <1>1, <1>7, <1>8 DEF PoolOk

\* A copy publishes a free slot for a key that has none.
LEMMA FillKeeps ==
  ASSUME NEW p, PoolOk(p), NEW k \in Tag, k \notin DOMAIN p.map, k \notin DOMAIN p.pending,
         NEW s \in p.free, NEW n
  PROVE  PoolOk([p EXCEPT !.map = Put(@, k, s), !.free = @ \ {s}, !.seen = n])
<1> DEFINE f == Put(p.map, k, s)
<1>1. PICK q : q = [p EXCEPT !.map = Put(@, k, s), !.free = @ \ {s}, !.seen = n]
  OBVIOUS
<1>2. /\ q = [map |-> q.map, pending |-> q.pending, free |-> q.free, seen |-> q.seen]
      /\ q.map = f /\ q.pending = p.pending /\ q.free = p.free \ {s}
  BY <1>1 DEF PoolOk, PoolTyped
<1>3. s \in Slots \ q.free /\ Slots \ p.free \subseteq Slots \ q.free
  BY <1>2 DEF PoolOk, PoolTyped
<1>4. IsMap(p.pending, Tag, Slots \ q.free) /\ IsMap(p.map, Tag, Slots \ q.free)
  BY <1>3 DEF IsMap, PoolOk, PoolTyped
<1>5. /\ IsMap(f, Tag, Slots \ q.free) /\ DOMAIN f = DOMAIN p.map \cup {k} /\ f[k] = s
      /\ \A d \in DOMAIN p.map : d # k => f[d] = p.map[d]
  BY <1>3, <1>4, PutIsMap
<1>6. /\ \A d \in DOMAIN p.map : p.map[d] # s
      /\ \A d \in DOMAIN p.pending : p.pending[d] # s
  BY DEF PoolOk, PoolTyped, IsMap
<1> HIDE DEF f
<1>7. PoolTyped(q)
  BY <1>2, <1>4, <1>5 DEF PoolTyped, PoolOk
<1>8. PoolOwned(q)
  BY <1>2, <1>5, <1>6 DEF PoolOwned, PoolOk
<1> QED BY <1>1, <1>7, <1>8 DEF PoolOk

\* A publication moves the slot of a key from the reservations to the map.
LEMMA PublishKeeps ==
  ASSUME NEW p, PoolOk(p), NEW k
  PROVE  LET q == PublishPending(p, k)
         IN  /\ PoolOk(q)
             /\ k \notin DOMAIN p.pending => q = p
             /\ k \in DOMAIN p.pending =>
                  /\ DOMAIN q.map = DOMAIN p.map \cup {k} /\ q.map[k] = p.pending[k]
                  /\ \A d \in DOMAIN p.map : q.map[d] = p.map[d]
                  /\ DOMAIN q.pending = DOMAIN p.pending \ {k}
                  /\ \A d \in DOMAIN q.pending : q.pending[d] = p.pending[d]
                  /\ q.free = p.free
<1>1. CASE k \notin DOMAIN p.pending
  BY <1>1 DEF PublishPending
<1>2. CASE k \in DOMAIN p.pending
  <2>0. PICK s : s = p.pending[k]
    OBVIOUS
  <2> DEFINE f == Put(p.map, k, s)
             g == Restrict(p.pending, DOMAIN p.pending \ {k})
  <2>1. PICK q : q = PublishPending(p, k)
    OBVIOUS
  <2>2. /\ q = [map |-> q.map, pending |-> q.pending, free |-> q.free, seen |-> q.seen]
        /\ q.map = f /\ q.pending = g /\ q.free = p.free
    BY <1>2, <2>0, <2>1 DEF PoolOk, PoolTyped, PublishPending
  <2>3. k \in Tag /\ s \in Slots \ p.free
    BY <1>2, <2>0 DEF PoolOk, PoolTyped, IsMap
  <2>4. /\ IsMap(f, Tag, Slots \ p.free) /\ DOMAIN f = DOMAIN p.map \cup {k}
        /\ f[k] = s /\ \A d \in DOMAIN p.map : d # k => f[d] = p.map[d]
    <3> DEFINE m == p.map
               V == Slots \ p.free
    <3>1. IsMap(m, Tag, V) /\ k \in Tag /\ s \in V
      BY <2>3 DEF PoolOk, PoolTyped
    <3> HIDE DEF m, V
    <3>2. /\ IsMap(Put(m, k, s), Tag, V) /\ DOMAIN Put(m, k, s) = DOMAIN m \cup {k}
          /\ Put(m, k, s)[k] = s /\ \A d \in DOMAIN m : d # k => Put(m, k, s)[d] = m[d]
      BY <3>1, PutIsMap
    <3> QED BY <3>2 DEF m, V
  <2>5. /\ IsMap(g, Tag, Slots \ p.free) /\ DOMAIN g = DOMAIN p.pending \ {k}
        /\ \A d \in DOMAIN g : g[d] = p.pending[d]
    BY RestrictIsMap DEF PoolOk, PoolTyped
  <2>6. k \notin DOMAIN p.map
    BY <1>2 DEF PoolOk, PoolOwned
  <2> HIDE DEF f, g
  <2>7. PoolTyped(q)
    BY <2>2, <2>4, <2>5 DEF PoolTyped, PoolOk
  <2>8. PoolOwned(q)
    BY <1>2, <2>0, <2>2, <2>4, <2>5, <2>6 DEF PoolOwned, PoolOk
  <2> QED BY <1>2, <2>0, <2>1, <2>2, <2>4, <2>5, <2>6, <2>7, <2>8 DEF PoolOk
<1> QED BY <1>1, <1>2

\* An abort gives the slots of reservations back.
LEMMA AbortKeeps ==
  ASSUME NEW p, PoolOk(p), NEW ks
  PROVE  LET q == AbortPending(p, ks)
         IN  /\ PoolOk(q)
             /\ q.map = p.map
             /\ DOMAIN q.pending = DOMAIN p.pending \ ks
             /\ \A d \in DOMAIN q.pending : q.pending[d] = p.pending[d]
<1> DEFINE g == Restrict(p.pending, DOMAIN p.pending \ ks)
           back == {p.pending[k] : k \in ks \cap DOMAIN p.pending}
<1>1. PICK q : q = AbortPending(p, ks)
  OBVIOUS
<1>2. /\ q = [map |-> q.map, pending |-> q.pending, free |-> q.free, seen |-> q.seen]
      /\ q.map = p.map /\ q.pending = g /\ q.free = p.free \cup back
  BY <1>1 DEF PoolOk, PoolTyped, AbortPending
<1>3. /\ IsMap(g, Tag, Slots \ p.free) /\ DOMAIN g = DOMAIN p.pending \ ks
      /\ \A d \in DOMAIN g : g[d] = p.pending[d]
  BY RestrictIsMap DEF PoolOk, PoolTyped
<1>4. /\ \A s \in back : \E k \in ks \cap DOMAIN p.pending : s = p.pending[k]
      /\ \A k \in ks \cap DOMAIN p.pending : p.pending[k] \in back
      /\ back \subseteq Slots
  BY DEF PoolOk, PoolTyped, IsMap
<1> HIDE DEF g, back
<1>5. PoolTyped(q)
  <2>1. \A d \in DOMAIN g : g[d] \notin back
    BY <1>3, <1>4 DEF PoolOk, PoolOwned
  <2>2. \A d \in DOMAIN p.map : p.map[d] \notin back
    BY <1>3, <1>4 DEF PoolOk, PoolOwned
  <2>3. IsMap(g, Tag, Slots \ q.free) /\ IsMap(p.map, Tag, Slots \ q.free)
    BY <1>2, <1>3, <2>1, <2>2 DEF IsMap, PoolOk, PoolTyped
  <2>4. q.free \subseteq Slots
    BY <1>2, <1>4 DEF PoolOk, PoolTyped
  <2> QED BY <1>2, <2>3, <2>4 DEF PoolTyped
<1>6. PoolOwned(q)
  BY <1>2, <1>3, <1>4 DEF PoolOwned, PoolOk
<1> QED BY <1>1, <1>2, <1>3, <1>5, <1>6 DEF PoolOk

\* Eviction takes a resident key whose slot no lease serves from, or none.
LEMMA VictimsAreUnleased ==
  ASSUME NEW seen, NEW v \in EvictFor(seen)
  PROVE  v = Torn \/ (v \in Resident /\ pool.map[v] \notin LeasedSlots)
<1>1. Victims(seen) \subseteq {j \in Resident : pool.map[j] \notin LeasedSlots}
  BY DEF Victims
<1> QED BY <1>1 DEF EvictFor

\* A read into a slot reserves it for a key that has none, and evicts at most
\* a key that is not leased; refused, it leaves the pool alone.
LEMMA TryReadKeeps ==
  ASSUME PoolOk(pool), NEW k \in Tag, NEW r \in TryReadIntoSlot(k)
  PROVE  /\ PoolOk(r.pool)
         /\ r.slot = 0 => r.pool = pool
         /\ r.slot # 0 =>
              /\ cfg.intoSlot /\ r.slot \in Slots
              /\ k \notin Resident /\ k \notin DOMAIN pool.pending
              /\ DOMAIN r.pool.pending = DOMAIN pool.pending \cup {k}
              /\ r.pool.pending[k] = r.slot
              /\ \A d \in DOMAIN pool.pending : r.pool.pending[d] = pool.pending[d]
              /\ \A d \in DOMAIN r.pool.map : d \in Resident /\ r.pool.map[d] = pool.map[d]
              /\ \A d \in Resident : d \notin DOMAIN r.pool.map => pool.map[d] \notin LeasedSlots
<1> DEFINE seen == pool.seen[k] + 1
           after == {AfterEviction(v) : v \in EvictFor(seen)}
           took(p) == [slot |-> Min(p.free),
                       pool |-> [p EXCEPT !.free = @ \ {Min(p.free)},
                                          !.pending = Put(@, k, Min(p.free))]]
<1>1. \/ r = [slot |-> 0, pool |-> pool]
      \/ /\ IntoSlotCandidate(k)
         /\ \E v \in EvictFor(seen) :
              AfterEviction(v).free # {} /\ r = took(AfterEviction(v))
  BY DEF TryReadIntoSlot
<1>2. CASE r = [slot |-> 0, pool |-> pool]
  BY <1>2
<1>3. ASSUME IntoSlotCandidate(k), NEW v \in EvictFor(seen),
             AfterEviction(v).free # {}, r = took(AfterEviction(v))
      PROVE  /\ PoolOk(r.pool) /\ r.slot # 0
             /\ cfg.intoSlot /\ r.slot \in Slots
             /\ k \notin Resident /\ k \notin DOMAIN pool.pending
             /\ DOMAIN r.pool.pending = DOMAIN pool.pending \cup {k}
             /\ r.pool.pending[k] = r.slot
             /\ \A d \in DOMAIN pool.pending : r.pool.pending[d] = pool.pending[d]
             /\ \A d \in DOMAIN r.pool.map : d \in Resident /\ r.pool.map[d] = pool.map[d]
             /\ \A d \in Resident : d \notin DOMAIN r.pool.map => pool.map[d] \notin LeasedSlots
  <2>1. PICK p : p = AfterEviction(v)
    OBVIOUS
  <2>2. v = Torn \/ (v \in Resident /\ pool.map[v] \notin LeasedSlots)
    BY VictimsAreUnleased
  <2>3. /\ PoolOk(p) /\ p.pending = pool.pending
        /\ DOMAIN p.map = IF v = Torn THEN Resident ELSE Resident \ {v}
        /\ \A d \in DOMAIN p.map : p.map[d] = pool.map[d]
    BY <2>1, <2>2, EvictionKeeps
  <2>4. PICK s : s = Min(p.free)
    OBVIOUS
  <2>5. s \in p.free /\ s \in Slots /\ s # 0
    BY <1>3, <2>1, <2>3, <2>4, MinMember, SlotsAreNat DEF PoolOk, PoolTyped
  <2>6. PICK q : q = [p EXCEPT !.free = @ \ {s}, !.pending = Put(@, k, s)]
    OBVIOUS
  <2>7. r = [slot |-> s, pool |-> q]
    BY <1>3, <2>1, <2>4, <2>6
  <2>8. cfg.intoSlot /\ k \notin Resident /\ k \notin DOMAIN pool.pending
    BY <1>3 DEF IntoSlotCandidate
  <2>9. PoolOk(q)
    BY <2>3, <2>5, <2>6, <2>8, ReserveKeeps
  <2>10. q.pending = Put(pool.pending, k, s) /\ q.map = p.map
    BY <2>3, <2>6 DEF PoolOk, PoolTyped
  <2>11. /\ DOMAIN q.pending = DOMAIN pool.pending \cup {k} /\ q.pending[k] = s
         /\ \A d \in DOMAIN pool.pending : d # k => q.pending[d] = pool.pending[d]
    <3>1. IsMap(pool.pending, Tag, Slots)
      BY DEF IsMap, PoolOk, PoolTyped
    <3> QED BY <2>5, <2>10, <3>1, PutIsMap
  <2>12. \A d \in Resident : d \notin DOMAIN q.map => d = v /\ v # Torn
    BY <2>3, <2>10
  <2>13. \A d \in DOMAIN q.map : d \in Resident /\ q.map[d] = pool.map[d]
    BY <2>3, <2>10
  <2> QED BY <2>2, <2>5, <2>7, <2>8, <2>9, <2>11, <2>12, <2>13
<1> QED
  <2>1. CASE /\ IntoSlotCandidate(k)
             /\ \E v \in EvictFor(seen) :
                  AfterEviction(v).free # {} /\ r = took(AfterEviction(v))
    BY <1>3, <2>1
  <2> QED BY <1>1, <1>2, <2>1

-----------------------------------------------------------------------------
(* What a step that submits nothing keeps.                                   *)

\* Part of a map.
Sub(g, f) == DOMAIN g \subseteq DOMAIN f /\ \A e \in DOMAIN g : g[e] = f[e]

\* The tickets that stay are where they were, and their reads are what they
\* were.
LEMMA TicketsStay ==
  ASSUME TicketsInv, EngTyped, PfTyped, TileTyped,
         Sub(pf.tk', pf.tk), Sub(tile.due', tile.due), Sub(tile.losers', tile.losers),
         Sub(tile.into', tile.into), Sub(eng.fan', eng.fan),
         tile.demand' \in {0, tile.demand},
         pf.layer' = pf.layer \/ DOMAIN pf.tk' = {},
         \/ eng.layer' = eng.layer
         \/ /\ DOMAIN tile.due' = {} /\ DOMAIN tile.losers' = {}
            /\ DOMAIN tile.into' = {} /\ DOMAIN eng.fan' = {},
         \A i \in Held' : i \in DOMAIN reads =>
           i \in DOMAIN reads' /\ reads'[i].key = reads[i].key /\ reads'[i].slot = reads[i].slot,
         drain' \cap Held' = {}, drain' \subseteq Ids
  PROVE  TicketsInv'
<1>1. /\ \A e \in DOMAIN pf.tk' : pf.tk'[e] \in Held'
      /\ \A e \in DOMAIN tile.due' : tile.due'[e] \in Held'
      /\ \A e \in DOMAIN tile.losers' : tile.losers'[e] \in Held'
      /\ \A e \in DOMAIN tile.into' : tile.into'[e] \in Held'
      /\ \A e \in DOMAIN eng.fan' : eng.fan'[e] \in Held'
      /\ tile.demand' # 0 => tile.demand' \in Held'
  BY DEF Held, Range
<1>2. 0 \notin Ids
  BY CacheAssumption DEF Ids
<1> HIDE DEF Held
<1>3. TicketsKnown'
  BY <1>1 DEF TicketsInv, TicketsKnown, Known, Sub
<1>4. TicketsLabelled'
  <2>1. \A e \in DOMAIN pf.tk' : reads'[pf.tk'[e]].key = <<pf.layer', e>>
    BY <1>1 DEF TicketsInv, TicketsKnown, TicketsLabelled, Known, Sub
  <2>2. \A e \in DOMAIN tile.due' : reads'[tile.due'[e]].key = Key(e)'
    BY <1>1 DEF TicketsInv, TicketsKnown, TicketsLabelled, Known, Sub, Key
  <2>3. \A e \in DOMAIN tile.losers' : reads'[tile.losers'[e]].key = Key(e)'
    BY <1>1 DEF TicketsInv, TicketsKnown, TicketsLabelled, Known, Sub, Key
  <2>4. \A e \in DOMAIN tile.into' :
          reads'[tile.into'[e]].key = Key(e)' /\ reads'[tile.into'[e]].slot # 0
    BY <1>1 DEF TicketsInv, TicketsKnown, TicketsLabelled, Known, Sub, Key, Into
  <2>5. \A e \in DOMAIN eng.fan' :
          reads'[eng.fan'[e]].key = Key(e)' /\ ~(reads'[eng.fan'[e]].slot # 0)
    BY <1>1 DEF TicketsInv, TicketsKnown, TicketsLabelled, Known, Sub, Key, Into
  <2>6. tile.demand' # 0 => ~(reads'[tile.demand'].slot # 0)
    BY <1>1 DEF TicketsInv, TicketsKnown, TicketsLabelled, Into
  <2> QED BY <2>1, <2>2, <2>3, <2>4, <2>5, <2>6 DEF TicketsLabelled, Into
<1>5. TicketsOnce'
  <2>1. /\ Once(pf.tk') /\ Once(tile.due') /\ Once(tile.losers') /\ Once(tile.into')
        /\ Once(eng.fan')
    BY DEF TicketsInv, TicketsOnce, Once, Sub
  <2>2. /\ Apart(pf.tk', tile.due') /\ Apart(pf.tk', tile.losers') /\ Apart(pf.tk', tile.into')
        /\ Apart(pf.tk', eng.fan') /\ Apart(tile.due', tile.losers')
    BY DEF TicketsInv, TicketsOnce, Apart, Sub
  <2>3. /\ Apart(tile.due', tile.into') /\ Apart(tile.due', eng.fan')
        /\ Apart(tile.losers', tile.into') /\ Apart(tile.losers', eng.fan')
        /\ Apart(tile.into', eng.fan')
    BY DEF TicketsInv, TicketsOnce, Apart, Sub
  <2>4. /\ \A e \in DOMAIN pf.tk' : pf.tk'[e] # tile.demand' /\ pf.tk'[e] \notin drain'
        /\ \A e \in DOMAIN tile.due' : tile.due'[e] # tile.demand' /\ tile.due'[e] \notin drain'
        /\ \A e \in DOMAIN tile.losers' :
             tile.losers'[e] # tile.demand' /\ tile.losers'[e] \notin drain'
        /\ \A e \in DOMAIN tile.into' :
             tile.into'[e] # tile.demand' /\ tile.into'[e] \notin drain'
        /\ \A e \in DOMAIN eng.fan' : eng.fan'[e] # tile.demand' /\ eng.fan'[e] \notin drain'
    BY <1>1, <1>2 DEF TicketsInv, TicketsOnce, Aside, Sub, EngTyped, PfTyped, TileTyped, IsMap
  <2>5. tile.demand' \notin drain'
    BY <1>1, <1>2
  <2> QED BY <2>1, <2>2, <2>3, <2>4, <2>5 DEF TicketsOnce, Once, Apart, Aside
<1> QED BY <1>3, <1>4, <1>5 DEF TicketsInv

\* A step after which every read into a slot is still there, still has its
\* reservation and its ticket, and has not ended in between.
LEMMA SoundStays ==
  ASSUME SInv,
         \A i \in DOMAIN reads' : reads'[i].slot # 0 =>
           /\ i \in DOMAIN reads /\ reads'[i].key = reads[i].key /\ reads'[i].slot = reads[i].slot
           /\ reads'[i].st = "done" => reads[i].st = "done"
           /\ HeldAt(i) => HeldAt(i)'
           /\ i \notin drain => i \notin drain',
         \A i \in DOMAIN reads : Into(i) => i \in DOMAIN reads' /\ reads'[i].slot = reads[i].slot,
         pool'.map = pool.map, pool'.pending = pool.pending, bytes' = bytes,
         LeasesRight'
  PROVE  SInv'
<1> DEFINE H(i) == HeldAt(i)
           G(i) == HeldAt(i)'
<1>1. \A i \in DOMAIN reads' : reads'[i].slot # 0 =>
        /\ i \in DOMAIN reads /\ Into(i)
        /\ reads'[i].key = reads[i].key /\ reads'[i].slot = reads[i].slot
        /\ reads'[i].st = "done" => reads[i].st = "done"
        /\ H(i) => G(i)
        /\ i \notin drain => i \notin drain'
  BY DEF Into
<1>2. \A i \in DOMAIN reads : Into(i) => i \in DOMAIN reads' /\ reads'[i].slot = reads[i].slot
  OBVIOUS
<1> HIDE DEF H, G
<1>3. \A i \in DOMAIN reads' : reads'[i].slot # 0 =>
        /\ reads'[i].key \in DOMAIN pool'.pending
        /\ pool'.pending[reads'[i].key] = reads'[i].slot
        /\ G(i) /\ i \notin drain'
  BY <1>1 DEF SInv, ReadsReserved, H
<1>4. ReadsReserved'
  BY <1>3 DEF ReadsReserved, Into, G
<1>5. ReadsDistinct'
  BY <1>1 DEF SInv, ReadsDistinct, Into
<1>6. ReservationsRead'
  <2>1. ASSUME NEW k \in DOMAIN pool'.pending
        PROVE  \E i \in DOMAIN reads' : reads'[i].slot # 0 /\ reads'[i].key = k
    <3>1. PICK i \in DOMAIN reads : Into(i) /\ reads[i].key = k
      BY <2>1 DEF SInv, ReservationsRead
    <3> QED BY <1>1, <1>2, <3>1 DEF Into
  <2> QED BY <2>1 DEF ReservationsRead, Into
<1>7. BytesRight'
  BY <1>1 DEF SInv, BytesRight, Resident, Into
<1> QED BY <1>4, <1>5, <1>6, <1>7 DEF SInv

\* The engine moves on: no ticket, read or slot is touched.
LEMMA EngineMoves ==
  ASSUME IInv, UNCHANGED <<cfg, pool, bytes, reads, drain, strayed>>,
         EngTyped', PfTyped', TileTyped',
         eng.fan' = eng.fan, pf.tk' = pf.tk, pf.layer' = pf.layer \/ Empty(pf.tk),
         tile.due' = tile.due, tile.losers' = tile.losers, tile.into' = tile.into,
         tile.demand' = tile.demand, tile.lease' = tile.lease,
         \/ eng.layer' = eng.layer
         \/ /\ Empty(tile.due) /\ Empty(tile.losers) /\ Empty(tile.into)
            /\ Empty(eng.fan) /\ Empty(tile.lease),
         eng.pc' = "boot" => eng.pc = "boot",
         Control', Coverage'
  PROVE  IInv'
<1>1. TypeInv'
  BY DEF IInv, TypeInv, ReadsTyped
<1>2. PInv'
  BY DEF IInv, PInv, PoolOk, PoolTyped, PoolOwned, PlainPool
<1>3. TicketsInv'
  <2>1. Held' = Held
    BY DEF Held, Range
  <2>2. drain \cap Held = {} /\ drain \subseteq Ids
    BY DEF IInv, TicketsInv, TicketsOnce, Aside, Held, Range
  <2> QED BY <2>1, <2>2, TicketsStay DEF IInv, TypeInv, Sub, Empty
<1>4. PlainReads'
  BY DEF IInv, PlainReads, Into
<1>5. ASSUME ~strayed' PROVE SInv'
  <2>1. SInv
    BY <1>5 DEF IInv
  <2>2. LeasesRight'
    BY <2>1 DEF SInv, LeasesRight, Key, Resident, Empty
  <2>3. \A i \in DOMAIN reads : HeldAt(i) => HeldAt(i)'
    BY DEF HeldAt
  <2> QED BY <2>1, <2>2, <2>3, SoundStays DEF Into
<1> QED BY <1>1, <1>2, <1>3, <1>4, <1>5 DEF IInv

-----------------------------------------------------------------------------
(* The steps that only move the engine on.                                   *)

LEMMA LayerNumbers ==
  /\ NLayers \in Nat /\ 1 \in 0..NLayers /\ 0..NLayers \subseteq Nat
  /\ \A l \in 1..NLayers : l \in 0..NLayers /\ l # 0
<1>1. NLayers \in Nat /\ NLayers # 0
  BY CacheAssumption
<1> QED BY <1>1

LEMMA StartPassKeeps ==
  ASSUME IInv, StartPass PROVE IInv'
<1>1. /\ eng'.pc = "start" /\ eng'.layer = 1 /\ eng'.tiles = eng.tiles /\ eng'.fan = eng.fan
      /\ eng' = [pc |-> eng'.pc, pass |-> eng'.pass, layer |-> eng'.layer,
                 tiles |-> eng'.tiles, fan |-> eng'.fan]
  BY DEF StartPass, IInv, TypeInv, EngTyped
<1>2. 1 \in 0..NLayers
  BY LayerNumbers
<1>3. EngTyped' /\ PfTyped' /\ TileTyped'
  BY <1>1, <1>2 DEF StartPass, IInv, TypeInv, EngTyped, PfTyped, TileTyped
<1>4. /\ Empty(tile.due) /\ Empty(tile.losers) /\ Empty(tile.into)
      /\ Empty(eng.fan) /\ Empty(tile.lease)
  BY DEF StartPass, IInv, Control, DueFree, IntoFree, Before
<1>5. Control'
  BY <1>1, <1>4 DEF StartPass, IInv, Control, DueFree, DueTaken, IntoFree, Before, After, Empty
<1>6. Coverage'
  BY <1>1 DEF Coverage, After
<1> QED BY <1>1, <1>3, <1>4, <1>5, <1>6, EngineMoves DEF StartPass

LEMMA BeginMailboxKeeps ==
  ASSUME IInv, NEW tiles \in TileLists, BeginMailbox(tiles) PROVE IInv'
<1>1. /\ eng'.pc = "topup" /\ eng'.layer = eng.layer /\ eng'.tiles = tiles /\ eng'.fan = eng.fan
      /\ eng' = [pc |-> eng'.pc, pass |-> eng'.pass, layer |-> eng'.layer,
                 tiles |-> eng'.tiles, fan |-> eng'.fan]
  BY DEF BeginMailbox, IInv, TypeInv, EngTyped
<1>2. tiles \in Seq(SUBSET Experts) /\ tiles # <<>>
  <2>1. CASE \E r \in Plans : tiles = <<r>>
    BY <2>1 DEF Plans
  <2>2. CASE \E r \in Plans, q \in Plans : tiles = <<r, q>>
    BY <2>2 DEF Plans
  <2> QED BY <2>1, <2>2 DEF TileLists
<1>3. eng.pc \in {"start", "mailbox"}
  BY DEF BeginMailbox, At
<1>4. EngTyped' /\ PfTyped' /\ TileTyped'
  BY <1>1, <1>2, <1>3 DEF BeginMailbox, IInv, TypeInv, EngTyped, PfTyped, TileTyped
<1>5. Control'
  BY <1>1, <1>2, <1>3
  DEF BeginMailbox, IInv, Control, DueFree, DueTaken, IntoFree, Before, After, Empty
<1>6. Coverage'
  BY <1>1 DEF Coverage, After
<1> QED BY <1>1, <1>4, <1>5, <1>6, EngineMoves DEF BeginMailbox

LEMMA BeginScheduleKeeps ==
  ASSUME IInv, NEW plan \in Plans, NEW l, NEW next, BeginSchedule(l, plan, next),
         \/ eng.pc = "start" /\ next = "sched0"
         \/ eng.pc = "hint2" /\ next = "sched2" /\ l = eng.layer + 1
         \/ eng.pc = "promote" /\ next = "sched1" /\ l = eng.layer + 1
  PROVE  IInv'
<1>1. /\ eng'.pc = next /\ eng'.layer = eng.layer /\ eng'.tiles = eng.tiles /\ eng'.fan = eng.fan
      /\ eng' = [pc |-> eng'.pc, pass |-> eng'.pass, layer |-> eng'.layer,
                 tiles |-> eng'.tiles, fan |-> eng'.fan]
  BY DEF BeginSchedule, IInv, TypeInv, EngTyped
<1>2. /\ pf.layer = 0 /\ Empty(pf.tk) /\ pf.tk = None
      /\ l \in 0..NLayers /\ l # 0 /\ pf'.layer = l /\ pf'.tk = None
      /\ pf' = [layer |-> pf'.layer, tk |-> pf'.tk]
  <2>1. pf.layer = 0 /\ l \in 1..NLayers /\ pf' = [layer |-> l, tk |-> None]
    BY DEF BeginSchedule, Layers
  <2>2. Empty(pf.tk)
    BY <2>1 DEF IInv, Control
  <2>3. pf.tk = None
    BY <2>2, EmptyIsNone DEF IInv, TypeInv, PfTyped, Empty
  <2>4. l \in 0..NLayers /\ l # 0
    BY <2>1, LayerNumbers
  <2> QED BY <2>1, <2>2, <2>3, <2>4
<1>3. /\ tile'.route = tile.route /\ tile'.due = tile.due /\ tile'.losers = tile.losers
      /\ tile'.into = tile.into /\ tile'.demand = tile.demand /\ tile'.misses = tile.misses
      /\ tile'.failed = tile.failed /\ tile'.alone = tile.alone /\ tile'.lease = tile.lease
      /\ tile'.admit = tile.admit /\ tile'.todo = Wanted(l, plan)
      /\ tile' = [route |-> tile'.route, due |-> tile'.due, todo |-> tile'.todo,
           losers |-> tile'.losers, into |-> tile'.into, demand |-> tile'.demand,
           misses |-> tile'.misses, failed |-> tile'.failed, alone |-> tile'.alone,
           lease |-> tile'.lease, retained |-> tile'.retained, admit |-> tile'.admit]
  BY DEF BeginSchedule, IInv, TypeInv, TileTyped
<1>4. Wanted(l, plan) \subseteq Experts
  BY DEF Wanted, Plans
<1>5. EngTyped'
  BY <1>1 DEF IInv, TypeInv, EngTyped
<1>6. PfTyped' /\ TileTyped'
  BY <1>2, <1>3, <1>4 DEF IInv, TypeInv, PfTyped, TileTyped
<1>7. eng.layer \in Nat /\ cfg' = cfg
  BY LayerNumbers DEF BeginSchedule, IInv, TypeInv, EngTyped
<1>8. Control'
  <2>1. CASE eng.pc = "start" /\ next = "sched0"
    BY <1>1, <1>2, <1>3, <1>7, <2>1
    DEF IInv, Control, DueFree, DueTaken, IntoFree, Before, After, Empty
  <2>2. CASE eng.pc = "hint2" /\ next = "sched2" /\ l = eng.layer + 1
    BY <1>1, <1>2, <1>3, <1>7, <2>2
    DEF IInv, Control, DueFree, DueTaken, IntoFree, Before, After, Empty
  <2>3. CASE eng.pc = "promote" /\ next = "sched1" /\ l = eng.layer + 1
    BY <1>1, <1>2, <1>3, <1>7, <2>3
    DEF IInv, Control, DueFree, DueTaken, IntoFree, Before, After, Empty
  <2> QED BY <2>1, <2>2, <2>3
<1>9. Coverage'
  BY <1>1, <1>3 DEF IInv, Coverage, After
<1>10. eng.pc' # "boot"
  BY <1>1
<1> QED BY <1>1, <1>2, <1>3, <1>5, <1>6, <1>8, <1>9, <1>10, EngineMoves DEF BeginSchedule

LEMMA EndScheduleKeeps ==
  ASSUME IInv, NEW pc, NEW done, EndSchedule(pc, done),
         \/ pc = "sched0" /\ done = "mailbox"
         \/ pc = "sched1" /\ done = "kernel"
         \/ pc = "sched2" /\ done = "fan"
  PROVE  IInv'
<1>1. /\ eng'.pc = done /\ eng'.layer = eng.layer /\ eng'.tiles = eng.tiles /\ eng'.fan = eng.fan
      /\ eng' = [pc |-> eng'.pc, pass |-> eng'.pass, layer |-> eng'.layer,
                 tiles |-> eng'.tiles, fan |-> eng'.fan]
  BY DEF EndSchedule, IInv, TypeInv, EngTyped
<1>2. /\ pf'.tk = pf.tk /\ (pf'.layer = pf.layer \/ (Empty(pf.tk) /\ pf'.layer = 0))
      /\ pf' = [layer |-> pf'.layer, tk |-> pf'.tk] /\ pf'.layer \in 0..NLayers
  <2>1. CASE pf.tk = None
    BY <2>1, NoneIsMap, LayerNumbers DEF EndSchedule, NoSet, Empty
  <2>2. CASE pf.tk # None
    BY <2>2 DEF EndSchedule, IInv, TypeInv, PfTyped
  <2> QED BY <2>1, <2>2
<1>3. EngTyped' /\ PfTyped' /\ TileTyped'
  <2>1. EngTyped'
    BY <1>1 DEF EndSchedule, At, IInv, TypeInv, EngTyped
  <2>2. PfTyped'
    BY <1>2 DEF IInv, TypeInv, PfTyped
  <2>3. TileTyped'
    BY DEF EndSchedule, IInv, TypeInv, TileTyped
  <2> QED BY <2>1, <2>2, <2>3
<1>4. Control'
  <2>1. CASE pc = "sched0" /\ done = "mailbox"
    BY <1>1, <1>2, <2>1
    DEF EndSchedule, At, IInv, Control, DueFree, DueTaken, IntoFree, Before, After, Empty
  <2>2. CASE pc = "sched1" /\ done = "kernel"
    BY <1>1, <1>2, <2>2
    DEF EndSchedule, At, IInv, Control, DueFree, DueTaken, IntoFree, Before, After, Empty
  <2>3. CASE pc = "sched2" /\ done = "fan"
    BY <1>1, <1>2, <2>3
    DEF EndSchedule, At, IInv, Control, DueFree, DueTaken, IntoFree, Before, After, Empty
  <2> QED BY <2>1, <2>2, <2>3
<1>5. Coverage'
  BY <1>1 DEF EndSchedule, At, IInv, Coverage, After
<1>6. eng.pc' # "boot"
  BY <1>1
<1> QED BY <1>1, <1>2, <1>3, <1>4, <1>5, <1>6, EngineMoves DEF EndSchedule

LEMMA NoEarlyHintKeeps ==
  ASSUME IInv, NoEarlyHint PROVE IInv'
<1>1. /\ eng'.pc = "fan" /\ eng'.layer = eng.layer /\ eng'.tiles = eng.tiles
      /\ eng'.fan = eng.fan
      /\ eng' = [pc |-> eng'.pc, pass |-> eng'.pass, layer |-> eng'.layer,
                 tiles |-> eng'.tiles, fan |-> eng'.fan]
  BY DEF NoEarlyHint, IInv, TypeInv, EngTyped
<1>2. EngTyped' /\ PfTyped' /\ TileTyped'
  BY <1>1 DEF NoEarlyHint, At, IInv, TypeInv, EngTyped, PfTyped, TileTyped
<1>3. Control'
  BY <1>1 DEF NoEarlyHint, At, IInv, Control, DueFree, DueTaken, IntoFree, Before, After, Empty
<1>4. Coverage'
  BY <1>1 DEF NoEarlyHint, At, IInv, Coverage, After
<1> QED BY <1>1, <1>2, <1>3, <1>4, EngineMoves DEF NoEarlyHint

LEMMA NoLateHintKeeps ==
  ASSUME IInv, NoLateHint PROVE IInv'
<1>1. /\ eng'.pc = "kernel" /\ eng'.layer = eng.layer /\ eng'.tiles = eng.tiles
      /\ eng'.fan = eng.fan
      /\ eng' = [pc |-> eng'.pc, pass |-> eng'.pass, layer |-> eng'.layer,
                 tiles |-> eng'.tiles, fan |-> eng'.fan]
  BY DEF NoLateHint, IInv, TypeInv, EngTyped
<1>2. EngTyped' /\ PfTyped' /\ TileTyped'
  BY <1>1 DEF NoLateHint, Promoted, At, IInv, TypeInv, EngTyped, PfTyped, TileTyped
<1>3. Control'
  BY <1>1
  DEF NoLateHint, Promoted, At, IInv, Control, DueFree, DueTaken, IntoFree, Before, After, Empty
<1>4. Coverage'
  BY <1>1 DEF NoLateHint, Promoted, At, IInv, Coverage, After
<1> QED BY <1>1, <1>2, <1>3, <1>4, EngineMoves DEF NoLateHint

LEMMA FanDoneKeeps ==
  ASSUME IInv, FanDone PROVE IInv'
<1>1. /\ eng'.pc = "tile" /\ eng'.layer = eng.layer /\ eng'.tiles = eng.tiles
      /\ eng'.fan = eng.fan
      /\ eng' = [pc |-> eng'.pc, pass |-> eng'.pass, layer |-> eng'.layer,
                 tiles |-> eng'.tiles, fan |-> eng'.fan]
  BY DEF FanDone, IInv, TypeInv, EngTyped
<1>2. /\ tile'.route = tile.route /\ tile'.due = tile.due /\ tile'.losers = tile.losers
      /\ tile'.into = tile.into /\ tile'.demand = tile.demand /\ tile'.misses = tile.misses
      /\ tile'.failed = tile.failed /\ tile'.alone = tile.alone /\ tile'.lease = tile.lease
      /\ tile'.admit = tile.admit /\ tile'.todo = {}
      /\ tile' = [route |-> tile'.route, due |-> tile'.due, todo |-> tile'.todo,
           losers |-> tile'.losers, into |-> tile'.into, demand |-> tile'.demand,
           misses |-> tile'.misses, failed |-> tile'.failed, alone |-> tile'.alone,
           lease |-> tile'.lease, retained |-> tile'.retained, admit |-> tile'.admit]
  BY DEF FanDone, IInv, TypeInv, TileTyped
<1>3. EngTyped' /\ PfTyped'
  BY <1>1 DEF FanDone, At, IInv, TypeInv, EngTyped, PfTyped
<1>4. TileTyped'
  BY <1>2 DEF IInv, TypeInv, TileTyped
<1>5. Control'
  BY <1>1, <1>2
  DEF FanDone, At, IInv, Control, DueFree, DueTaken, IntoFree, Before, After, Empty
<1>6. Coverage'
  BY <1>1 DEF Coverage, After
<1> QED BY <1>1, <1>2, <1>3, <1>4, <1>5, <1>6, EngineMoves DEF FanDone

LEMMA HitsWaitedKeeps ==
  ASSUME IInv, HitsWaited PROVE IInv'
<1>1. /\ eng'.pc = "slots" /\ eng'.layer = eng.layer /\ eng'.tiles = eng.tiles
      /\ eng'.fan = eng.fan
      /\ eng' = [pc |-> eng'.pc, pass |-> eng'.pass, layer |-> eng'.layer,
                 tiles |-> eng'.tiles, fan |-> eng'.fan]
  BY DEF HitsWaited, IInv, TypeInv, EngTyped
<1>2. EngTyped' /\ PfTyped' /\ TileTyped'
  BY <1>1 DEF HitsWaited, At, IInv, TypeInv, EngTyped, PfTyped, TileTyped
<1>3. Empty(tile.losers) /\ Empty(tile.due)
  BY EmptyIsNone DEF HitsWaited, IInv, TypeInv, TileTyped, Empty
<1>4. Control'
  BY <1>1, <1>3
  DEF HitsWaited, At, IInv, Control, DueFree, DueTaken, IntoFree, Before, After, Empty
<1>5. Coverage'
  BY <1>1 DEF HitsWaited, At, IInv, Coverage, After
<1> QED BY <1>1, <1>2, <1>4, <1>5, EngineMoves DEF HitsWaited

LEMMA SlotsWaitedKeeps ==
  ASSUME IInv, SlotsWaited PROVE IInv'
<1>1. /\ eng'.pc = IF tile.alone THEN "promote" ELSE "demand"
      /\ eng'.layer = eng.layer /\ eng'.tiles = eng.tiles /\ eng'.fan = eng.fan
      /\ eng' = [pc |-> eng'.pc, pass |-> eng'.pass, layer |-> eng'.layer,
                 tiles |-> eng'.tiles, fan |-> eng'.fan]
  BY DEF SlotsWaited, IInv, TypeInv, EngTyped
<1>2. eng.pc = "slots" /\ tile' = tile /\ pf' = pf /\ cfg' = cfg
  BY DEF SlotsWaited, At
<1>3. Empty(tile.into) /\ Empty(tile.due)
  BY <1>2, EmptyIsNone DEF SlotsWaited, IInv, TypeInv, TileTyped, Control, DueFree, Empty
<1>4. tile.alone \in BOOLEAN
  BY DEF IInv, TypeInv, TileTyped
<1>5. CASE tile.alone
  <2>1. EngTyped' /\ PfTyped' /\ TileTyped'
    BY <1>1, <1>2, <1>5 DEF IInv, TypeInv, EngTyped, PfTyped, TileTyped
  <2>2. Control'
    BY <1>1, <1>2, <1>3, <1>5
    DEF IInv, Control, DueFree, DueTaken, IntoFree, Before, After, Empty
  <2>3. Coverage'
    BY <1>1, <1>2, <1>3, <1>5 DEF IInv, Coverage, After, Empty
  <2> QED BY <1>1, <1>5, <2>1, <2>2, <2>3, EngineMoves DEF SlotsWaited
<1>6. CASE ~tile.alone
  <2>1. EngTyped' /\ PfTyped' /\ TileTyped'
    BY <1>1, <1>2, <1>6 DEF IInv, TypeInv, EngTyped, PfTyped, TileTyped
  <2>2. Control'
    BY <1>1, <1>2, <1>3, <1>6
    DEF IInv, Control, DueFree, DueTaken, IntoFree, Before, After, Empty
  <2>3. Coverage'
    BY <1>1, <1>2, <1>3, <1>6 DEF IInv, Coverage, After, Empty
  <2> QED BY <1>1, <1>6, <2>1, <2>2, <2>3, EngineMoves DEF SlotsWaited
<1> QED BY <1>4, <1>5, <1>6

-----------------------------------------------------------------------------
(* The reader threads, start-up and the aging of route counts.               *)

\* What a step leaves alone when the engine's own state is unchanged.
EngineRests == UNCHANGED <<cfg, eng, pf, tile, strayed>>

\* Reads into slots fill slots of their own, none of them published.
LEMMA SlotsApart ==
  ASSUME IInv, SInv, NEW i \in DOMAIN reads
  PROVE  /\ Into(i) => reads[i].slot \in Slots
         /\ \A j \in DOMAIN reads : Into(j) /\ j # i =>
              reads[j].slot \in Slots /\ (Into(i) => reads[j].slot # reads[i].slot)
         /\ \A k \in Resident : pool.map[k] \in Slots /\ (Into(i) => pool.map[k] # reads[i].slot)
<1>1. \A j \in DOMAIN reads : Into(j) => /\ reads[j].key \in DOMAIN pool.pending
                                      /\ pool.pending[reads[j].key] = reads[j].slot
                                      /\ reads[j].slot \in Slots
  BY DEF SInv, ReadsReserved, IInv, PInv, PoolOk, PoolTyped, IsMap
<1>2. ASSUME NEW j \in DOMAIN reads, Into(j), j # i, Into(i), reads[j].slot = reads[i].slot
      PROVE  FALSE
  <2>1. reads[j].key = reads[i].key
    BY <1>1, <1>2 DEF IInv, PInv, PoolOk, PoolOwned
  <2> QED BY <1>2, <2>1 DEF SInv, ReadsDistinct
<1>3. \A k \in Resident : pool.map[k] \in Slots /\ (Into(i) => pool.map[k] # reads[i].slot)
  BY <1>1 DEF IInv, PInv, PoolOk, PoolTyped, PoolOwned, IsMap, Resident
<1> QED BY <1>1, <1>2, <1>3

LEMMA ClaimKeeps ==
  ASSUME IInv, NEW i \in DOMAIN reads, Claim(i) PROVE IInv'
<1>1. /\ reads[i].st = "queued" /\ DOMAIN reads' = DOMAIN reads
      /\ reads'[i] = [reads[i] EXCEPT !.st = "reading"]
      /\ \A j \in DOMAIN reads : j # i => reads'[j] = reads[j]
      /\ reads' = [j \in DOMAIN reads' |-> reads'[j]]
  BY DEF Claim, IInv, TypeInv, ReadsTyped
<1>2. \A j \in DOMAIN reads : reads[j] \in ReadType
  BY DEF IInv, TypeInv, ReadsTyped
<1>3. /\ reads'[i] \in ReadType /\ reads'[i].key = reads[i].key /\ reads'[i].slot = reads[i].slot
      /\ reads'[i].st = "reading"
  BY <1>1, <1>2 DEF ReadType
<1>4. EngineRests /\ UNCHANGED <<pool, drain>>
  BY DEF Claim, EngineRests
<1>5. TypeInv'
  <2>1. ReadsTyped'
    BY <1>1, <1>2, <1>3 DEF IInv, TypeInv, ReadsTyped
  <2>2. EngTyped' /\ PfTyped' /\ TileTyped'
    BY <1>4 DEF IInv, TypeInv, EngTyped, PfTyped, TileTyped, EngineRests
  <2> QED BY <2>1, <2>2 DEF TypeInv
<1>6. /\ DOMAIN bytes' = DOMAIN bytes
      /\ \A s \in Slots : bytes'[s] # bytes[s] => Into(i) /\ s = reads[i].slot
  BY DEF Claim, IInv, PInv
<1>7. PInv'
  BY <1>4, <1>6 DEF IInv, PInv, PoolOk, PoolTyped, PoolOwned, PlainPool, EngineRests
<1>8. \A j \in DOMAIN reads :
        j \in DOMAIN reads' /\ reads'[j].key = reads[j].key /\ reads'[j].slot = reads[j].slot
  BY <1>1, <1>3
<1>9. TicketsInv'
  <2>1. Held' = Held
    BY <1>4 DEF Held, Range, EngineRests
  <2>2. drain \cap Held = {} /\ drain \subseteq Ids
    BY DEF IInv, TicketsInv, TicketsOnce, Aside, Held, Range
  <2> QED BY <1>4, <1>8, <2>1, <2>2, TicketsStay DEF IInv, TypeInv, Sub, EngineRests
<1>10. Control' /\ Coverage' /\ PlainReads'
  BY <1>1, <1>4, <1>8
  DEF IInv, Control, Coverage, PlainReads, DueFree, DueTaken, IntoFree, Empty, Into, EngineRests
<1>11. ASSUME ~strayed' PROVE SInv'
  <2>1. SInv
    BY <1>4, <1>11 DEF IInv, EngineRests
  <2>2. ReadsReserved'
    BY <1>1, <1>4, <1>8, <2>1 DEF SInv, ReadsReserved, HeldAt, Into, EngineRests
  <2>3. ReadsDistinct'
    BY <1>1, <1>8, <2>1 DEF SInv, ReadsDistinct, Into
  <2>4. ReservationsRead'
    BY <1>1, <1>4, <1>8, <2>1 DEF SInv, ReservationsRead, Into
  <2>5. LeasesRight'
    BY <1>4, <2>1 DEF SInv, LeasesRight, Key, Resident, EngineRests
  <2>7. \A j \in DOMAIN reads : Into(j) /\ j # i =>
          reads[j].slot \in Slots /\ (Into(i) => reads[j].slot # reads[i].slot)
    BY <2>1, SlotsApart
  <2>8. \A k \in Resident : pool.map[k] \in Slots /\ (Into(i) => pool.map[k] # reads[i].slot)
    BY <2>1, SlotsApart
  <2>9. BytesRight'
    <3>1. ASSUME NEW j \in DOMAIN reads', Into(j)', reads'[j].st = "done"
          PROVE  bytes'[reads'[j].slot] = reads'[j].key
      <4>1. j # i /\ j \in DOMAIN reads /\ reads'[j] = reads[j] /\ Into(j)
        BY <1>1, <1>3, <3>1 DEF Into
      <4>2. bytes[reads[j].slot] = reads[j].key
        BY <2>1, <3>1, <4>1 DEF SInv, BytesRight
      <4> QED BY <1>6, <2>7, <4>1, <4>2
    <3>2. ASSUME NEW k \in Resident PROVE bytes'[pool.map[k]] = k
      BY <1>6, <2>1, <2>8 DEF SInv, BytesRight
    <3> QED BY <1>4, <3>1, <3>2 DEF BytesRight, Resident
  <2> QED BY <2>2, <2>3, <2>4, <2>5, <2>9 DEF SInv
<1> QED BY <1>5, <1>7, <1>9, <1>10, <1>11 DEF IInv

LEMMA EndReadKeeps ==
  ASSUME IInv, NEW i \in DOMAIN reads, NEW ok \in BOOLEAN, EndRead(i, ok) PROVE IInv'
<1> DEFINE gone == i \in drain \/ i \notin Held
<1>1. /\ Reading(i) /\ DOMAIN reads' = (IF gone THEN DOMAIN reads \ {i} ELSE DOMAIN reads)
      /\ \A j \in DOMAIN reads' : j # i => reads'[j] = reads[j]
      /\ i \in DOMAIN reads' => reads'[i] = [reads[i] EXCEPT !.st = IF ok THEN "done" ELSE "failed"]
      /\ reads' = [j \in DOMAIN reads' |-> reads'[j]]
  BY DEF EndRead, Restrict, IInv, TypeInv, ReadsTyped
<1>2. \A j \in DOMAIN reads : reads[j] \in ReadType
  BY DEF IInv, TypeInv, ReadsTyped
<1>3. i \in DOMAIN reads' =>
        /\ reads'[i] \in ReadType /\ reads'[i].key = reads[i].key /\ reads'[i].slot = reads[i].slot
        /\ reads'[i].st = "done" => ok
  BY <1>1, <1>2 DEF ReadType
<1>4. EngineRests /\ pool' = pool /\ drain' = drain \ {i}
  BY DEF EndRead, EngineRests
<1>5. TypeInv'
  <2>1. ReadsTyped'
    BY <1>1, <1>2, <1>3 DEF IInv, TypeInv, ReadsTyped
  <2>2. EngTyped' /\ PfTyped' /\ TileTyped'
    BY <1>4 DEF IInv, TypeInv, EngTyped, PfTyped, TileTyped, EngineRests
  <2> QED BY <2>1, <2>2 DEF TypeInv
<1>6. /\ DOMAIN bytes' = DOMAIN bytes
      /\ \A s \in Slots : bytes'[s] # bytes[s] => Into(i) /\ s = reads[i].slot
      /\ Into(i) /\ ok /\ ~Shared(i) /\ reads[i].slot \in Slots =>
           bytes'[reads[i].slot] = reads[i].key
  BY DEF EndRead, IInv, PInv
<1>7. PInv'
  BY <1>4, <1>6 DEF IInv, PInv, PoolOk, PoolTyped, PoolOwned, PlainPool, EngineRests
<1>8. \A j \in DOMAIN reads' :
        j \in DOMAIN reads /\ reads'[j].key = reads[j].key /\ reads'[j].slot = reads[j].slot
  BY <1>1, <1>3
<1>9. TicketsInv'
  <2>1. Held' = Held
    BY <1>4 DEF Held, Range, EngineRests
  <2>2. drain \cap Held = {} /\ drain \subseteq Ids
    BY DEF IInv, TicketsInv, TicketsOnce, Aside, Held, Range
  <2>3. \A j \in Held : j \in DOMAIN reads => j \in DOMAIN reads'
    BY <1>1, <2>2
  <2> QED BY <1>4, <1>8, <2>1, <2>2, <2>3, TicketsStay DEF IInv, TypeInv, Sub, EngineRests
<1>10. Control' /\ Coverage' /\ PlainReads'
  BY <1>4, <1>8
  DEF IInv, Control, Coverage, PlainReads, DueFree, DueTaken, IntoFree, Empty, Into, EngineRests
<1>11. ASSUME ~strayed' PROVE SInv'
  <2>1. SInv
    BY <1>4, <1>11 DEF IInv, EngineRests
  <2>2. Into(i) => ~gone
    BY <2>1 DEF SInv, ReadsReserved, HeldAt, Held, Range
  <2>3. \A j \in DOMAIN reads : Into(j) => j \in DOMAIN reads'
    BY <1>1, <2>2
  <2>4. ReadsReserved'
    BY <1>4, <1>8, <2>1 DEF SInv, ReadsReserved, HeldAt, Into, EngineRests
  <2>5. ReadsDistinct'
    BY <1>8, <2>1 DEF SInv, ReadsDistinct, Into
  <2>6. ReservationsRead'
    <3>1. ASSUME NEW k \in DOMAIN pool.pending
          PROVE  \E j \in DOMAIN reads' : reads'[j].slot # 0 /\ reads'[j].key = k
      <4>1. PICK j \in DOMAIN reads : Into(j) /\ reads[j].key = k
        BY <2>1, <3>1 DEF SInv, ReservationsRead
      <4> QED BY <1>8, <2>3, <4>1 DEF Into
    <3> QED BY <1>4, <3>1 DEF ReservationsRead, Into
  <2>7. LeasesRight'
    BY <1>4, <2>1 DEF SInv, LeasesRight, Key, Resident, EngineRests
  <2>8. /\ Into(i) => reads[i].slot \in Slots
        /\ \A j \in DOMAIN reads : Into(j) /\ j # i =>
             reads[j].slot \in Slots /\ (Into(i) => reads[j].slot # reads[i].slot)
        /\ \A k \in Resident : pool.map[k] \in Slots /\ (Into(i) => pool.map[k] # reads[i].slot)
    BY <2>1, SlotsApart
  <2>9. Into(i) => ~Shared(i)
    BY <2>8 DEF Shared, Into
  <2>10. BytesRight'
    <3>1. ASSUME NEW j \in DOMAIN reads', Into(j)', reads'[j].st = "done"
          PROVE  bytes'[reads'[j].slot] = reads'[j].key
      <4>1. j \in DOMAIN reads /\ Into(j) /\ reads'[j].slot = reads[j].slot
            /\ reads'[j].key = reads[j].key
        BY <1>8, <3>1 DEF Into
      <4>2. CASE j # i
        <5>1. bytes[reads[j].slot] = reads[j].key
          BY <1>1, <2>1, <3>1, <4>1, <4>2 DEF SInv, BytesRight
        <5> QED BY <1>6, <2>8, <4>1, <4>2, <5>1
      <4>3. CASE j = i
        BY <1>3, <1>6, <2>8, <2>9, <3>1, <4>1, <4>3
      <4> QED BY <4>2, <4>3
    <3>2. ASSUME NEW k \in Resident PROVE bytes'[pool.map[k]] = k
      BY <1>6, <2>1, <2>8 DEF SInv, BytesRight
    <3> QED BY <1>4, <3>1, <3>2 DEF BytesRight, Resident
  <2> QED BY <2>4, <2>5, <2>6, <2>7, <2>10 DEF SInv
<1> QED BY <1>5, <1>7, <1>9, <1>10, <1>11 DEF IInv

LEMMA SummerPreloadKeeps ==
  ASSUME IInv, NEW k \in Keys, NEW ok \in BOOLEAN, SummerPreload(k, ok) PROVE IInv'
<1>1. EngineRests /\ UNCHANGED <<reads, drain>> /\ eng.pc = "boot" /\ k \notin Resident
  BY DEF SummerPreload, EngineRests
<1>2. DOMAIN pool.pending = {}
  BY <1>1 DEF IInv, PInv, PlainPool
<1>3. k \in Tag
  BY DEF Keys, Layers, Tag
<1>4. PICK s : s = Min(pool.free)
  OBVIOUS
<1>5. s \in pool.free /\ s \in Slots
  BY <1>4, MinMember, SlotsAreNat DEF SummerPreload, IInv, PInv, PoolOk, PoolTyped
<1>6. \/ UNCHANGED <<pool, bytes>>
      \/ /\ pool' = [pool EXCEPT !.map = Put(@, k, s), !.free = @ \ {s}]
         /\ bytes' = [bytes EXCEPT ![s] = k]
  BY <1>4 DEF SummerPreload
<1>7. /\ PoolOk(pool') /\ DOMAIN pool'.pending = {} /\ DOMAIN bytes' = Slots
      /\ \A j \in DOMAIN pool'.map : j = k \/ (j \in Resident /\ pool'.map[j] = pool.map[j])
      /\ \A j \in Resident : j \in DOMAIN pool'.map /\ pool'.map[j] = pool.map[j]
      /\ k \in DOMAIN pool'.map => pool'.map[k] = s /\ bytes'[s] = k
      /\ \A t \in Slots : bytes'[t] # bytes[t] => t = s
  <2>1. CASE UNCHANGED <<pool, bytes>>
    BY <1>1, <1>2, <2>1 DEF IInv, PInv, PoolOk, PoolTyped, PoolOwned, Resident
  <2>2. CASE /\ pool' = [pool EXCEPT !.map = Put(@, k, s), !.free = @ \ {s}]
             /\ bytes' = [bytes EXCEPT ![s] = k]
    <3>1. PICK n : n = pool.seen
      OBVIOUS
    <3>2. /\ pool'.map = Put(pool.map, k, s) /\ pool'.pending = pool.pending
          /\ pool' = [pool EXCEPT !.map = Put(@, k, s), !.free = @ \ {s}, !.seen = n]
      BY <2>2, <3>1 DEF IInv, PInv, PoolOk, PoolTyped
    <3>3. PoolOk(pool')
      <4>1. PoolOk(pool) /\ k \notin DOMAIN pool.map /\ k \notin DOMAIN pool.pending
        BY <1>1, <1>2 DEF IInv, PInv, Resident
      <4> QED BY <1>3, <1>5, <3>2, <4>1, FillKeeps
    <3>4. /\ DOMAIN pool'.map = Resident \cup {k} /\ pool'.map[k] = s
          /\ \A j \in Resident : j # k => pool'.map[j] = pool.map[j]
      <4>1. IsMap(pool.map, Tag, Slots)
        BY DEF IInv, PInv, PoolOk, PoolTyped, IsMap
      <4>2. PICK f : f = pool.map
        OBVIOUS
      <4>5. IsMap(f, Tag, Slots) /\ k \in Tag /\ s \in Slots
        BY <1>3, <1>5, <4>1, <4>2
      <4>3. /\ DOMAIN Put(f, k, s) = DOMAIN f \cup {k} /\ Put(f, k, s)[k] = s
            /\ \A j \in DOMAIN f : j # k => Put(f, k, s)[j] = f[j]
        BY Zenon DEF Put
      <4>4. pool'.map = Put(f, k, s) /\ Resident = DOMAIN f
        BY <3>2, <4>2 DEF Resident
      <4> QED BY <4>2, <4>3, <4>4
    <3>5. DOMAIN bytes' = Slots /\ bytes'[s] = k /\ \A t \in Slots : t # s => bytes'[t] = bytes[t]
      BY <1>5, <2>2 DEF IInv, PInv
    <3> QED BY <1>1, <1>2, <3>2, <3>3, <3>4, <3>5
  <2> QED BY <1>6, <2>1, <2>2
<1>8. PInv'
  BY <1>7 DEF PInv, PlainPool
<1>9. TypeInv'
  BY <1>1 DEF IInv, TypeInv, ReadsTyped, EngTyped, PfTyped, TileTyped, EngineRests
<1>10. TicketsInv'
  <2>1. Held' = Held
    BY <1>1 DEF Held, Range, EngineRests
  <2>2. drain \cap Held = {} /\ drain \subseteq Ids
    BY DEF IInv, TicketsInv, TicketsOnce, Aside, Held, Range
  <2> QED BY <1>1, <2>1, <2>2, TicketsStay DEF IInv, TypeInv, Sub, EngineRests
<1>11. Control' /\ Coverage' /\ PlainReads'
  BY <1>1
  DEF IInv, Control, Coverage, PlainReads, DueFree, DueTaken, IntoFree, Empty, Into, EngineRests
<1>12. ASSUME ~strayed' PROVE SInv'
  <2>1. SInv
    BY <1>1, <1>12 DEF IInv, EngineRests
  <2>2. \A i \in DOMAIN reads : ~Into(i)
    BY <1>2, <2>1 DEF SInv, ReadsReserved
  <2>3. ReadsReserved' /\ ReadsDistinct' /\ ReservationsRead'
    BY <1>1, <1>7, <2>2 DEF ReadsReserved, ReadsDistinct, ReservationsRead, Into
  <2>4. LeasesRight'
    BY <1>1, <1>7, <2>1 DEF SInv, LeasesRight, Key, Resident, EngineRests
  <2>5. \A j \in Resident : pool.map[j] \in Slots /\ pool.map[j] # s
    BY <1>5 DEF IInv, PInv, PoolOk, PoolTyped, IsMap, Resident
  <2>6. BytesRight'
    BY <1>1, <1>7, <2>1, <2>2, <2>5 DEF SInv, BytesRight, Resident, Into
  <2> QED BY <2>3, <2>4, <2>6 DEF SInv
<1> QED BY <1>8, <1>9, <1>10, <1>11, <1>12 DEF IInv

LEMMA AgeTickKeeps ==
  ASSUME IInv, AgeTick PROVE IInv'
<1>1. EngineRests /\ UNCHANGED <<reads, drain, bytes>>
  BY DEF AgeTick, EngineRests
<1>2. /\ pool'.map = pool.map /\ pool'.pending = pool.pending /\ pool'.free = pool.free
      /\ pool' = [map |-> pool'.map, pending |-> pool'.pending, free |-> pool'.free,
                  seen |-> pool'.seen]
  BY DEF AgeTick, IInv, PInv, PoolOk, PoolTyped
<1>3. PInv'
  BY <1>1, <1>2 DEF IInv, PInv, PoolOk, PoolTyped, PoolOwned, PlainPool, EngineRests
<1>4. TypeInv'
  BY <1>1 DEF IInv, TypeInv, ReadsTyped, EngTyped, PfTyped, TileTyped, EngineRests
<1>5. TicketsInv'
  <2>1. Held' = Held
    BY <1>1 DEF Held, Range, EngineRests
  <2>2. drain \cap Held = {} /\ drain \subseteq Ids
    BY DEF IInv, TicketsInv, TicketsOnce, Aside, Held, Range
  <2> QED BY <1>1, <2>1, <2>2, TicketsStay DEF IInv, TypeInv, Sub, EngineRests
<1>6. Control' /\ Coverage' /\ PlainReads'
  BY <1>1
  DEF IInv, Control, Coverage, PlainReads, DueFree, DueTaken, IntoFree, Empty, Into, EngineRests
<1>7. ASSUME ~strayed' PROVE SInv'
  <2>1. SInv
    BY <1>1, <1>7 DEF IInv, EngineRests
  <2>2. LeasesRight'
    BY <1>1, <1>2, <2>1 DEF SInv, LeasesRight, Key, Resident, EngineRests
  <2>3. \A i \in DOMAIN reads : HeldAt(i) => HeldAt(i)'
    BY <1>1 DEF HeldAt, EngineRests
  <2> QED BY <1>1, <1>2, <2>1, <2>2, <2>3, SoundStays DEF Into
<1> QED BY <1>3, <1>4, <1>5, <1>6, <1>7 DEF IInv

-----------------------------------------------------------------------------
(* Submissions.                                                              *)

\* A submission adds one read under an id no read has.
LEMMA SubmitGrows ==
  ASSUME ReadsTyped, HasRoom, NEW k \in Tag, NEW slot \in 0..NSlots,
         NEW class \in {"prefetch", "demand"}, NEW r, r = Submitted(k, slot, class)
  PROVE  /\ Fresh \in Ids /\ Fresh \notin DOMAIN reads
         /\ DOMAIN r = DOMAIN reads \cup {Fresh} /\ DOMAIN r \subseteq Ids
         /\ r \in [DOMAIN r -> ReadType]
         /\ r[Fresh].key = k /\ r[Fresh].slot = slot /\ r[Fresh].st = "queued"
         /\ \A j \in DOMAIN reads : r[j] = reads[j]
<1> DEFINE x == [key |-> k, slot |-> slot, class |-> class, st |-> "queued"]
<1>1. PICK i : i = Fresh
  OBVIOUS
<1>2. i \in Ids /\ i \notin DOMAIN reads
  <2> DEFINE T == Ids \ DOMAIN reads
  <2>1. T \subseteq Nat /\ T # {}
    <3>1. Ids \subseteq Nat
      BY IdsAreNat
    <3>2. T # {}
      BY DEF HasRoom
    <3> QED BY <3>1, <3>2
  <2>2. i = Min(T)
    BY <1>1 DEF Fresh
  <2>3. i \in T
    <3> HIDE DEF T
    <3> QED BY <2>1, <2>2, MinMember
  <2> QED BY <2>3
<1>3. r = Put(reads, i, x)
  BY <1>1 DEF Submitted
<1>4. x \in ReadType
  BY DEF ReadType
<1>5. IsMap(reads, Ids, ReadType)
  BY DEF ReadsTyped, IsMap
<1>6. /\ IsMap(r, Ids, ReadType) /\ DOMAIN r = DOMAIN reads \cup {i} /\ r[i] = x
      /\ \A d \in DOMAIN reads : d # i => r[d] = reads[d]
  <2> HIDE DEF x
  <2> QED BY <1>2, <1>3, <1>4, <1>5, PutIsMap
<1>7. r \in [DOMAIN r -> ReadType] /\ DOMAIN r \subseteq Ids
  BY <1>6 DEF IsMap
<1> QED BY <1>1, <1>2, <1>6, <1>7

\* A read with a buffer of its own.
LEMMA SubmitPlain ==
  ASSUME ReadsTyped, HasRoom, NEW k \in Tag, NEW class \in {"prefetch", "demand"},
         NEW r, r = Submitted(k, 0, class)
  PROVE  /\ Fresh \in Ids /\ Fresh \notin DOMAIN reads
         /\ DOMAIN r = DOMAIN reads \cup {Fresh} /\ DOMAIN r \subseteq Ids
         /\ r \in [DOMAIN r -> ReadType]
         /\ r[Fresh].key = k /\ r[Fresh].slot = 0 /\ r[Fresh].st = "queued"
         /\ \A j \in DOMAIN reads : r[j] = reads[j]
<1>1. PICK slot : slot = 0
  OBVIOUS
<1>2. slot \in 0..NSlots
  <2>1. NSlots \in Nat
    BY CacheAssumption
  <2> QED BY <1>1, <2>1
<1>3. r = Submitted(k, slot, class)
  BY <1>1
<1>4. /\ Fresh \in Ids /\ Fresh \notin DOMAIN reads
      /\ DOMAIN r = DOMAIN reads \cup {Fresh} /\ DOMAIN r \subseteq Ids
      /\ r \in [DOMAIN r -> ReadType]
      /\ r[Fresh].key = k /\ r[Fresh].slot = slot /\ r[Fresh].st = "queued"
      /\ \A j \in DOMAIN reads : r[j] = reads[j]
  BY <1>2, <1>3, SubmitGrows, SMTT(30)
<1> QED BY <1>1, <1>4

\* No ticket has the id of no read.
LEMMA TicketIsNew ==
  ASSUME TicketsInv, NEW i, i \notin DOMAIN reads, i # 0
  PROVE  /\ \A e \in DOMAIN pf.tk : pf.tk[e] # i
         /\ \A e \in DOMAIN tile.due : tile.due[e] # i
         /\ \A e \in DOMAIN tile.losers : tile.losers[e] # i
         /\ \A e \in DOMAIN tile.into : tile.into[e] # i
         /\ \A e \in DOMAIN eng.fan : eng.fan[e] # i
         /\ tile.demand # i
BY DEF TicketsInv, TicketsKnown, Known

\* A reservation with its read, for a key that had none, evicting at most a key
\* no lease serves from.
LEMMA ReserveSound ==
  ASSUME IInv, SInv, NEW k \in Tag, NEW r \in TryReadIntoSlot(k), r.slot # 0,
         pool' = r.pool, bytes' = bytes, drain' = drain, drain = {},
         NEW i, i \notin DOMAIN reads, DOMAIN reads' = DOMAIN reads \cup {i},
         reads'[i].key = k, reads'[i].slot = r.slot, reads'[i].st = "queued",
         \A j \in DOMAIN reads : reads'[j] = reads[j],
         HeldAt(i)', \A j \in DOMAIN reads : HeldAt(j) => HeldAt(j)',
         tile'.lease = tile.lease, eng'.layer = eng.layer
  PROVE  SInv'
<1> DEFINE H(j) == HeldAt(j)
           G(j) == HeldAt(j)'
<1>0. G(i) /\ \A j \in DOMAIN reads : H(j) => G(j)
  OBVIOUS
<1>1. /\ r.slot \in Slots
      /\ k \notin Resident /\ k \notin DOMAIN pool.pending
      /\ DOMAIN pool'.pending = DOMAIN pool.pending \cup {k}
      /\ pool'.pending[k] = r.slot
      /\ \A d \in DOMAIN pool.pending : pool'.pending[d] = pool.pending[d]
      /\ \A d \in DOMAIN pool'.map : d \in Resident /\ pool'.map[d] = pool.map[d]
      /\ \A d \in Resident : d \notin DOMAIN pool'.map => pool.map[d] \notin LeasedSlots
  BY TryReadKeeps DEF IInv, PInv
<1>2. \A j \in DOMAIN reads : Into(j) =>
        /\ reads[j].key \in DOMAIN pool.pending /\ pool.pending[reads[j].key] = reads[j].slot
        /\ H(j)
  BY DEF SInv, ReadsReserved
<1> HIDE DEF H, G
<1>3. ReadsReserved'
  <2>1. \A j \in DOMAIN reads' : reads'[j].slot # 0 =>
          /\ reads'[j].key \in DOMAIN pool'.pending
          /\ pool'.pending[reads'[j].key] = reads'[j].slot /\ G(j)
    BY <1>0, <1>1, <1>2 DEF Into
  <2> QED BY <2>1 DEF ReadsReserved, Into, G
<1>4. ReadsDistinct'
  BY <1>1, <1>2 DEF SInv, ReadsDistinct, Into
<1>5. ReservationsRead'
  <2>1. ASSUME NEW d \in DOMAIN pool'.pending
        PROVE  \E j \in DOMAIN reads' : reads'[j].slot # 0 /\ reads'[j].key = d
    <3>1. CASE d = k
      BY <3>1
    <3>2. CASE d # k
      <4>1. PICK j \in DOMAIN reads : Into(j) /\ reads[j].key = d
        BY <1>1, <2>1, <3>2 DEF SInv, ReservationsRead
      <4> QED BY <4>1 DEF Into
    <3> QED BY <3>1, <3>2
  <2> QED BY <2>1 DEF ReservationsRead, Into
<1>6. BytesRight'
  <2>1. \A j \in DOMAIN reads' : reads'[j].slot # 0 /\ reads'[j].st = "done" =>
          j \in DOMAIN reads /\ Into(j) /\ reads[j].st = "done" /\ reads'[j] = reads[j]
    BY DEF Into
  <2> QED BY <1>1, <2>1 DEF SInv, BytesRight, Into, Resident
<1>7. LeasesRight'
  <2>1. ASSUME NEW e \in DOMAIN tile.lease
        PROVE  \/ tile.lease[e].slot = 0 /\ tile.lease[e].key = Key(e)
               \/ Key(e) \in DOMAIN pool'.map /\ pool'.map[Key(e)] = tile.lease[e].slot
    <3>1. CASE tile.lease[e].slot = 0 /\ tile.lease[e].key = Key(e)
      BY <3>1
    <3>2. CASE Key(e) \in Resident /\ pool.map[Key(e)] = tile.lease[e].slot
      <4>1. pool.map[Key(e)] \in Slots
        BY <3>2 DEF IInv, PInv, PoolOk, PoolTyped, IsMap, Resident
      <4>2. pool.map[Key(e)] \in LeasedSlots
        BY <3>2, <4>1, SlotsAreNat DEF LeasedSlots, Range
      <4> QED BY <1>1, <3>2, <4>2
    <3> QED BY <3>1, <3>2 DEF SInv, LeasesRight
  <2> QED BY <2>1 DEF LeasesRight, Key, Resident
<1> QED BY <1>3, <1>4, <1>5, <1>6, <1>7 DEF SInv

\* The least of some experts is one of them.
LEMMA LeastExpert ==
  ASSUME NEW T, T \subseteq Experts, T # {}
  PROVE  Min(T) \in T
<1>1. \A x \in Experts : x \in 0..895
  BY CacheAssumption
<1>2. T \subseteq Nat
  BY <1>1
<1>3. T # {}
  OBVIOUS
<1> QED BY <1>2, <1>3, MinMember

\* A ticket joins the set for the next layer, or for this one.
LEMMA PfSubmits ==
  ASSUME IInv, drain = {}, HasRoom, NEW e \in Experts, NEW slot \in 0..NSlots,
         e \notin DOMAIN pf.tk,
         reads' = Submitted(<<pf.layer, e>>, slot, "prefetch"),
         pf' = [pf EXCEPT !.tk = Put(@, e, Fresh)],
         eng' = eng, drain' = drain, TileTyped',
         tile'.due = tile.due, tile'.losers = tile.losers, tile'.into = tile.into,
         tile'.demand = tile.demand
  PROVE  /\ TypeInv' /\ TicketsInv'
         /\ pf'.layer = pf.layer /\ DOMAIN pf'.tk = DOMAIN pf.tk \cup {e}
         /\ \A i : i = Fresh => HeldAt(i)'
         /\ \A j \in DOMAIN reads : HeldAt(j) => HeldAt(j)'
<1>0. PICK i : i = Fresh
  OBVIOUS
<1>k. PICK k : k = <<pf.layer, e>>
  OBVIOUS
<1>1. k \in Tag /\ reads' = Submitted(k, slot, "prefetch")
  BY <1>k DEF IInv, TypeInv, PfTyped, Tag
<1>2. /\ i \in Ids /\ i \notin DOMAIN reads
      /\ DOMAIN reads' = DOMAIN reads \cup {i} /\ DOMAIN reads' \subseteq Ids
      /\ reads' \in [DOMAIN reads' -> ReadType]
      /\ reads'[i].key = k /\ \A j \in DOMAIN reads : reads'[j] = reads[j]
  <2>1. ReadsTyped /\ "prefetch" \in {"prefetch", "demand"}
    BY DEF IInv, TypeInv
  <2>2. PICK r : r = reads'
    OBVIOUS
  <2>3. /\ Fresh \in Ids /\ Fresh \notin DOMAIN reads
        /\ DOMAIN r = DOMAIN reads \cup {Fresh} /\ DOMAIN r \subseteq Ids
        /\ r \in [DOMAIN r -> ReadType]
        /\ r[Fresh].key = k /\ \A j \in DOMAIN reads : r[j] = reads[j]
    BY <1>1, <2>1, <2>2, SubmitGrows
  <2> QED BY <1>0, <2>2, <2>3
<1>3. i # 0
  BY <1>2, IdsAreNat
<1>4. /\ pf' = [layer |-> pf'.layer, tk |-> pf'.tk] /\ pf'.layer = pf.layer
      /\ pf'.tk = Put(pf.tk, e, i)
  BY <1>0 DEF IInv, TypeInv, PfTyped
<1>5. /\ IsMap(pf'.tk, Experts, Ids) /\ DOMAIN pf'.tk = DOMAIN pf.tk \cup {e} /\ pf'.tk[e] = i
      /\ \A d \in DOMAIN pf.tk : pf'.tk[d] = pf.tk[d]
  <2>1. PICK f : f = pf.tk
    OBVIOUS
  <2>2. IsMap(f, Experts, Ids) /\ pf'.tk = Put(f, e, i)
    BY <1>4, <2>1 DEF IInv, TypeInv, PfTyped
  <2> QED BY <1>2, <2>1, <2>2, PutIsMap
<1>6. TypeInv'
  <2>1. PfTyped'
    BY <1>4, <1>5 DEF IInv, TypeInv, PfTyped
  <2>2. EngTyped' /\ ReadsTyped'
    BY <1>2 DEF IInv, TypeInv, EngTyped, ReadsTyped
  <2> QED BY <2>1, <2>2 DEF TypeInv
<1>7. /\ \A d \in DOMAIN pf.tk : pf.tk[d] # i
      /\ \A d \in DOMAIN tile.due : tile.due[d] # i
      /\ \A d \in DOMAIN tile.losers : tile.losers[d] # i
      /\ \A d \in DOMAIN tile.into : tile.into[d] # i
      /\ \A d \in DOMAIN eng.fan : eng.fan[d] # i
      /\ tile.demand # i
  BY <1>2, <1>3, TicketIsNew DEF IInv
<1>8. TicketsInv'
  <2>1. TicketsKnown'
    BY <1>2, <1>5 DEF IInv, TicketsInv, TicketsKnown, Known
  <2>2. TicketsLabelled'
    <3>1. \A d \in DOMAIN pf'.tk : reads'[pf'.tk[d]].key = <<pf'.layer, d>>
      BY <1>k, <1>2, <1>4, <1>5 DEF IInv, TicketsInv, TicketsKnown, TicketsLabelled, Known
    <3>2. /\ \A d \in DOMAIN tile.due : reads'[tile.due[d]] = reads[tile.due[d]]
          /\ \A d \in DOMAIN tile.losers : reads'[tile.losers[d]] = reads[tile.losers[d]]
          /\ \A d \in DOMAIN tile.into : reads'[tile.into[d]] = reads[tile.into[d]]
          /\ \A d \in DOMAIN eng.fan : reads'[eng.fan[d]] = reads[eng.fan[d]]
          /\ tile.demand # 0 => reads'[tile.demand] = reads[tile.demand]
      BY <1>2 DEF IInv, TicketsInv, TicketsKnown, Known
    <3>9. TicketsLabelled
      BY DEF IInv, TicketsInv
    <3>0. /\ TicketsLabelled /\ eng' = eng
          /\ tile'.due = tile.due /\ tile'.losers = tile.losers /\ tile'.into = tile.into
          /\ tile'.demand = tile.demand
      BY <3>9
    <3>3. \A d \in DOMAIN tile.due : reads'[tile.due[d]].key = <<eng.layer, d>>
      BY <3>0, <3>2, ZenonT(60) DEF TicketsLabelled, Key
    <3>4. \A d \in DOMAIN tile.losers : reads'[tile.losers[d]].key = <<eng.layer, d>>
      BY <3>0, <3>2, ZenonT(60) DEF TicketsLabelled, Key
    <3>5. \A d \in DOMAIN tile.into :
            reads'[tile.into[d]].key = <<eng.layer, d>> /\ reads'[tile.into[d]].slot # 0
      BY <3>0, <3>2 DEF TicketsLabelled, Into, Key
    <3>6. \A d \in DOMAIN eng.fan :
            reads'[eng.fan[d]].key = <<eng.layer, d>> /\ ~(reads'[eng.fan[d]].slot # 0)
      BY <3>0, <3>2 DEF TicketsLabelled, Key, Into
    <3>7. tile.demand # 0 => ~(reads'[tile.demand].slot # 0)
      BY <3>0, <3>2 DEF TicketsLabelled, Into
    <3> QED BY <3>0, <3>1, <3>3, <3>4, <3>5, <3>6, <3>7, ZenonT(60) DEF TicketsLabelled, Into, Key
  <2>3. TicketsOnce'
    <3>1. Once(pf'.tk)
      BY <1>5, <1>7 DEF IInv, TicketsInv, TicketsOnce, Once
    <3>2. /\ Apart(pf'.tk, tile.due) /\ Apart(pf'.tk, tile.losers) /\ Apart(pf'.tk, tile.into)
          /\ Apart(pf'.tk, eng.fan)
      BY <1>5, <1>7 DEF IInv, TicketsInv, TicketsOnce, Apart
    <3>3. \A d \in DOMAIN pf'.tk : pf'.tk[d] # tile.demand /\ pf'.tk[d] \notin drain
      BY <1>5, <1>7 DEF IInv, TicketsInv, TicketsOnce, Aside
    <3> QED BY <3>1, <3>2, <3>3 DEF IInv, TicketsInv, TicketsOnce, Aside
  <2> QED BY <2>1, <2>2, <2>3 DEF TicketsInv
<1>9. HeldAt(i)' /\ \A j \in DOMAIN reads : HeldAt(j) => HeldAt(j)'
  BY <1>5 DEF HeldAt
<1>10. \A j : j = Fresh => HeldAt(j)'
  BY <1>0, <1>9
<1> QED BY <1>4, <1>5, <1>6, <1>8, <1>9, <1>10

LEMMA ScheduleTakes ==
  ASSUME IInv, NEW pc \in {"sched0", "sched1", "sched2"}, At(pc), tile.todo # {}, HasRoom,
         NEW e, e = Min(tile.todo), NEW r \in TryReadIntoSlot(<<pf.layer, e>>), pool' = r.pool,
         reads' = Submitted(<<pf.layer, e>>, r.slot, "prefetch"),
         pf' = [pf EXCEPT !.tk = Put(@, e, Fresh)],
         tile' = [tile EXCEPT !.todo = @ \ {e}],
         UNCHANGED <<drain, eng, strayed, cfg, bytes>>
  PROVE  IInv'
<1>1. e \in tile.todo /\ e \in Experts
  BY LeastExpert DEF IInv, TypeInv, TileTyped
<1>2. eng.pc = pc /\ drain = {} /\ pf.layer # 0 /\ e \notin DOMAIN pf.tk
  BY <1>1 DEF At, IInv, Control
<1>3. /\ tile'.route = tile.route /\ tile'.due = tile.due /\ tile'.losers = tile.losers
      /\ tile'.into = tile.into /\ tile'.demand = tile.demand /\ tile'.misses = tile.misses
      /\ tile'.failed = tile.failed /\ tile'.alone = tile.alone /\ tile'.lease = tile.lease
      /\ tile'.admit = tile.admit /\ tile'.todo = tile.todo \ {e}
      /\ tile' = [route |-> tile'.route, due |-> tile'.due, todo |-> tile'.todo,
           losers |-> tile'.losers, into |-> tile'.into, demand |-> tile'.demand,
           misses |-> tile'.misses, failed |-> tile'.failed, alone |-> tile'.alone,
           lease |-> tile'.lease, retained |-> tile'.retained, admit |-> tile'.admit]
  BY DEF IInv, TypeInv, TileTyped
<1>4. TileTyped'
  BY <1>3 DEF IInv, TypeInv, TileTyped
<1>k. PICK k : k = <<pf.layer, e>>
  OBVIOUS
<1>5. k \in Tag /\ r \in TryReadIntoSlot(k) /\ reads' = Submitted(k, r.slot, "prefetch")
  BY <1>k, <1>1 DEF IInv, TypeInv, PfTyped, Tag
<1>6. /\ PoolOk(r.pool)
      /\ r.slot = 0 => r.pool = pool
      /\ r.slot # 0 => cfg.intoSlot /\ r.slot \in Slots
  BY <1>5, TryReadKeeps DEF IInv, PInv
<1>7. r.slot \in 0..NSlots
  <2>1. r.slot = 0 \/ r.slot \in Slots
    BY <1>6
  <2>2. NSlots \in Nat
    BY CacheAssumption
  <2> QED BY <2>1, <2>2 DEF Slots
<1>8. /\ TypeInv' /\ TicketsInv'
      /\ pf'.layer = pf.layer /\ DOMAIN pf'.tk = DOMAIN pf.tk \cup {e}
      /\ \A i : i = Fresh => HeldAt(i)'
      /\ \A j \in DOMAIN reads : HeldAt(j) => HeldAt(j)'
  BY <1>1, <1>2, <1>3, <1>4, <1>7, PfSubmits
<1>9. /\ Fresh \in Ids /\ Fresh \notin DOMAIN reads
      /\ DOMAIN reads' = DOMAIN reads \cup {Fresh}
      /\ reads'[Fresh].key = k /\ reads'[Fresh].slot = r.slot /\ reads'[Fresh].st = "queued"
      /\ \A j \in DOMAIN reads : reads'[j] = reads[j]
  <2>1. ReadsTyped /\ "prefetch" \in {"prefetch", "demand"}
    BY DEF IInv, TypeInv
  <2> QED BY <1>5, <1>7, <2>1, SubmitGrows
<1>10. PInv'
  BY <1>2, <1>6 DEF IInv, PInv, PlainPool
<1>11. Control' /\ Coverage'
  <2>1. Coverage'
    BY <1>2, <1>3 DEF IInv, Coverage, After
  <2>2. eng.pc \in {"sched1", "sched2"} => pf.layer # eng.layer
    BY DEF IInv, Control
  <2>3. /\ tile'.due = tile.due /\ tile'.into = tile.into
        /\ tile'.losers = tile.losers /\ tile'.lease = tile.lease
    BY <1>3
  <2>4. eng' = eng /\ cfg' = cfg /\ pf'.layer = pf.layer /\ pf.layer # 0
        /\ tile'.alone = tile.alone
    BY <1>2, <1>3, <1>8
  <2>5. tile'.todo \cap DOMAIN pf'.tk = {}
    BY <1>2, <1>3, <1>8 DEF IInv, Control
  <2>6. Control
    BY DEF IInv
  <2>7. CASE eng.pc = "sched0"
    BY <2>1, <2>3, <2>4, <2>5, <2>6, <2>7
    DEF Control, DueFree, DueTaken, IntoFree, Before, After, Empty
  <2>8. CASE eng.pc \in {"sched1", "sched2"}
    BY <2>1, <2>2, <2>3, <2>4, <2>5, <2>6, <2>8
    DEF Control, DueFree, DueTaken, IntoFree, Before, After, Empty
  <2> QED BY <1>2, <2>7, <2>8
<1>12. PlainReads'
  BY <1>6, <1>9 DEF IInv, PlainReads, Into
<1>13. ASSUME ~strayed' PROVE SInv'
  <2>1. SInv
    BY <1>13 DEF IInv
  <2>2. CASE r.slot = 0
    <3>1. \A i \in DOMAIN reads' : reads'[i].slot # 0 => i \in DOMAIN reads
      BY <1>9, <2>2
    <3>2. LeasesRight'
      BY <1>3, <1>6, <2>1, <2>2 DEF SInv, LeasesRight, Key, Resident
    <3>3. pool' = pool
      BY <1>6, <2>2
    <3> QED BY <1>8, <1>9, <2>1, <3>1, <3>2, <3>3, SoundStays DEF Into
  <2>3. CASE r.slot # 0
    <3>1. PICK i : i = Fresh
      OBVIOUS
    <3>2. /\ i \notin DOMAIN reads /\ DOMAIN reads' = DOMAIN reads \cup {i}
          /\ reads'[i].key = k /\ reads'[i].slot = r.slot /\ reads'[i].st = "queued"
          /\ HeldAt(i)'
      BY <1>8, <1>9, <3>1
    <3>3. /\ bytes' = bytes /\ drain' = drain /\ drain = {} /\ eng'.layer = eng.layer
          /\ tile'.lease = tile.lease
      BY <1>2, <1>3
    <3> QED BY <1>5, <1>8, <1>9, <2>1, <2>3, <3>2, <3>3, ReserveSound
  <2> QED BY <2>2, <2>3
<1> QED BY <1>8, <1>10, <1>11, <1>12, <1>13 DEF IInv

\* Unclaimed reads of the ids go, the others stay as they are.
LEMMA CancelledReads ==
  ASSUME ReadsTyped, NEW ids, NEW r, r = Cancelled(ids)
  PROVE  /\ DOMAIN r = {i \in DOMAIN reads : i \in ids => Reading(i)}
         /\ r \in [DOMAIN r -> ReadType] /\ DOMAIN r \subseteq Ids
         /\ \A j \in DOMAIN r : r[j] = reads[j]
<1> DEFINE S == {i \in DOMAIN reads : i \in ids => Reading(i)}
<1>1. r = [j \in S |-> reads[j]]
  BY DEF Cancelled, Restrict
<1>2. S \subseteq DOMAIN reads
  OBVIOUS
<1> HIDE DEF S
<1>3. DOMAIN r = S /\ \A j \in S : r[j] = reads[j]
  BY <1>1
<1>4. r \in [DOMAIN r -> ReadType]
  BY <1>1, <1>2 DEF ReadsTyped
<1> QED BY <1>2, <1>3, <1>4 DEF ReadsTyped, S

\* A refused submission: the set is cancelled, its claimed reads are drained.
LEMMA ScheduleUndone ==
  ASSUME IInv, NEW pc, NEW done, At(pc),
         \/ pc = "sched0" /\ done = "mailbox"
         \/ pc = "sched1" /\ done = "kernel"
         \/ pc = "sched2" /\ done = "fan",
         strayed' = (strayed \/ Strays(Range(pf.tk))),
         reads' = Cancelled(Range(pf.tk)), drain' = Draining(Range(pf.tk)),
         pf' = NoSet, tile' = [tile EXCEPT !.todo = {}], eng' = [eng EXCEPT !.pc = done],
         UNCHANGED <<cfg, pool, bytes>>
  PROVE  IInv'
<1> DEFINE ids == Range(pf.tk)
<1>1. /\ eng'.pc = done /\ eng'.layer = eng.layer /\ eng'.tiles = eng.tiles /\ eng'.fan = eng.fan
      /\ eng' = [pc |-> eng'.pc, pass |-> eng'.pass, layer |-> eng'.layer,
                 tiles |-> eng'.tiles, fan |-> eng'.fan]
  BY DEF IInv, TypeInv, EngTyped
<1>2. /\ tile'.route = tile.route /\ tile'.due = tile.due /\ tile'.losers = tile.losers
      /\ tile'.into = tile.into /\ tile'.demand = tile.demand /\ tile'.misses = tile.misses
      /\ tile'.failed = tile.failed /\ tile'.alone = tile.alone /\ tile'.lease = tile.lease
      /\ tile'.admit = tile.admit /\ tile'.todo = {}
      /\ tile' = [route |-> tile'.route, due |-> tile'.due, todo |-> tile'.todo,
           losers |-> tile'.losers, into |-> tile'.into, demand |-> tile'.demand,
           misses |-> tile'.misses, failed |-> tile'.failed, alone |-> tile'.alone,
           lease |-> tile'.lease, retained |-> tile'.retained, admit |-> tile'.admit]
  BY DEF IInv, TypeInv, TileTyped
<1>3. /\ pf'.layer = 0 /\ pf'.tk = None /\ DOMAIN pf'.tk = {} /\ IsMap(pf'.tk, Experts, Ids)
      /\ pf' = [layer |-> pf'.layer, tk |-> pf'.tk]
  BY NoneIsMap DEF NoSet
<1>4. /\ DOMAIN reads' = {i \in DOMAIN reads : i \in ids => Reading(i)}
      /\ reads' \in [DOMAIN reads' -> ReadType] /\ DOMAIN reads' \subseteq Ids
      /\ \A j \in DOMAIN reads' : reads'[j] = reads[j]
  <2>1. ReadsTyped
    BY DEF IInv, TypeInv
  <2>2. PICK s : s = ids
    OBVIOUS
  <2>3. PICK r : r = reads'
    OBVIOUS
  <2>4. r = Cancelled(s)
    BY <2>2, <2>3
  <2> HIDE DEF ids
  <2>5. /\ DOMAIN r = {i \in DOMAIN reads : i \in s => Reading(i)}
        /\ r \in [DOMAIN r -> ReadType] /\ DOMAIN r \subseteq Ids
        /\ \A j \in DOMAIN r : r[j] = reads[j]
    BY <2>1, <2>4, CancelledReads
  <2> QED BY <2>2, <2>3, <2>5
<1>5. TypeInv'
  <2>1. EngTyped' /\ ReadsTyped'
    BY <1>1, <1>4 DEF At, IInv, TypeInv, EngTyped, ReadsTyped
  <2>2. PfTyped' /\ TileTyped'
    BY <1>2, <1>3, LayerNumbers DEF IInv, TypeInv, PfTyped, TileTyped
  <2> QED BY <2>1, <2>2 DEF TypeInv
<1>6. PInv'
  BY <1>1 DEF IInv, PInv, PoolOk, PoolTyped, PoolOwned, PlainPool
<1>7. /\ ids \subseteq Ids /\ \A i \in ids : \E e \in DOMAIN pf.tk : pf.tk[e] = i
      /\ drain' \subseteq ids
  BY DEF IInv, TypeInv, PfTyped, IsMap, Range, Draining
<1>8. \A i \in Held' : i \notin ids
  <2>1. \A i \in Held' : \/ \E e \in DOMAIN tile.due : tile.due[e] = i
                         \/ \E e \in DOMAIN tile.losers : tile.losers[e] = i
                         \/ \E e \in DOMAIN tile.into : tile.into[e] = i
                         \/ \E e \in DOMAIN eng.fan : eng.fan[e] = i
                         \/ i = tile.demand
    BY <1>1, <1>2, <1>3 DEF Held, Range
  <2> QED BY <1>7, <2>1 DEF IInv, TicketsInv, TicketsOnce, Apart, Aside
<1>9. TicketsInv'
  <2>1. drain' \cap Held' = {} /\ drain' \subseteq Ids
    BY <1>7, <1>8
  <2>2. \A i \in Held' : i \in DOMAIN reads => i \in DOMAIN reads' /\ reads'[i] = reads[i]
    BY <1>4, <1>8
  <2> HIDE DEF ids
  <2> QED BY <1>1, <1>2, <1>3, <2>1, <2>2, TicketsStay DEF IInv, TypeInv, Sub
<1>10. Control'
  <2>1. Control /\ eng.pc = pc
    BY DEF IInv, At
  <2> QED BY <1>1, <1>2, <1>3, <2>1
    DEF Control, DueFree, DueTaken, IntoFree, Before, After, Empty
<1>11. Coverage'
  BY <1>1, <1>2 DEF IInv, Coverage, After, At
<1>12. (~cfg.intoSlot => ~Strays(ids)) /\ PlainReads'
  <2>1. ~cfg.intoSlot => ~Strays(ids)
    BY <1>7 DEF Strays, IInv, PlainReads, TicketsInv, TicketsKnown, Known
  <2> QED BY <1>4, <2>1 DEF IInv, PlainReads, Into
<1>13. ASSUME ~strayed' PROVE SInv'
  <2>1. SInv /\ ~Strays(ids)
    BY <1>13 DEF IInv
  <2>2. \A i \in DOMAIN reads : Into(i) => i \notin ids
    BY <2>1 DEF Strays, SInv, ReadsReserved
  <2>3. \A i \in DOMAIN reads : Into(i) => i \in DOMAIN reads' /\ reads'[i] = reads[i]
    BY <1>4, <2>2
  <2>4. \A i \in DOMAIN reads : Into(i) => i \notin drain' /\ (HeldAt(i) => HeldAt(i)')
    <3>1. \A i : i \notin ids => (HeldAt(i) => HeldAt(i)')
      BY <1>2 DEF HeldAt, Range
    <3> QED BY <1>7, <2>2, <3>1
  <2>5. LeasesRight'
    BY <1>1, <1>2, <2>1 DEF SInv, LeasesRight, Key, Resident
  <2>6. \A i \in DOMAIN reads' : reads'[i].slot # 0 => i \in DOMAIN reads /\ reads'[i] = reads[i]
                                                       /\ Into(i)
    BY <1>4 DEF Into
  <2> HIDE DEF ids
  <2> QED BY <2>1, <2>3, <2>4, <2>5, <2>6, SoundStays DEF Into
<1> QED BY <1>5, <1>6, <1>9, <1>10, <1>11, <1>12, <1>13 DEF IInv

LEMMA ScheduleOneKeeps ==
  ASSUME IInv, NEW pc, NEW done, ScheduleOne(pc, done),
         \/ pc = "sched0" /\ done = "mailbox"
         \/ pc = "sched1" /\ done = "kernel"
         \/ pc = "sched2" /\ done = "fan"
  PROVE  IInv'
<1>1. PICK e : e = Min(tile.todo)
  OBVIOUS
<1>2. PICK k : k = <<pf.layer, e>>
  OBVIOUS
<1>3. At(pc) /\ tile.todo # {} /\ HasRoom /\ UNCHANGED <<cfg, bytes>>
  BY DEF ScheduleOne
<1>4. PICK r \in TryReadIntoSlot(k) :
        /\ pool' = r.pool
        /\ \/ /\ r.slot = 0
              /\ strayed' = (strayed \/ Strays(Range(pf.tk)))
              /\ reads' = Cancelled(Range(pf.tk)) /\ drain' = Draining(Range(pf.tk))
              /\ pf' = NoSet /\ tile' = [tile EXCEPT !.todo = {}] /\ eng' = [eng EXCEPT !.pc = done]
           \/ /\ reads' = Submitted(k, r.slot, "prefetch")
              /\ pf' = [pf EXCEPT !.tk = Put(@, e, Fresh)]
              /\ tile' = [tile EXCEPT !.todo = @ \ {e}]
              /\ UNCHANGED <<drain, eng, strayed>>
  BY <1>1, <1>2, Zenon DEF ScheduleOne
<1>5. CASE /\ r.slot = 0
           /\ strayed' = (strayed \/ Strays(Range(pf.tk)))
           /\ reads' = Cancelled(Range(pf.tk)) /\ drain' = Draining(Range(pf.tk))
           /\ pf' = NoSet /\ tile' = [tile EXCEPT !.todo = {}] /\ eng' = [eng EXCEPT !.pc = done]
  <2>1. k \in Tag
    <3>1. e \in Experts
      BY <1>1, <1>3, LeastExpert DEF IInv, TypeInv, TileTyped
    <3> QED BY <1>2, <3>1 DEF IInv, TypeInv, PfTyped, Tag
  <2>2. pool' = pool
    BY <1>4, <1>5, <2>1, TryReadKeeps DEF IInv, PInv
  <2> QED BY <1>3, <1>5, <2>2, ScheduleUndone
<1>6. CASE /\ reads' = Submitted(k, r.slot, "prefetch")
           /\ pf' = [pf EXCEPT !.tk = Put(@, e, Fresh)]
           /\ tile' = [tile EXCEPT !.todo = @ \ {e}]
           /\ UNCHANGED <<drain, eng, strayed>>
  <2>1. pc \in {"sched0", "sched1", "sched2"} /\ pool' = r.pool
    BY <1>4
  <2>2. /\ r \in TryReadIntoSlot(<<pf.layer, e>>)
        /\ reads' = Submitted(<<pf.layer, e>>, r.slot, "prefetch")
    BY <1>2, <1>4, <1>6
  <2> QED BY <1>1, <1>3, <1>6, <2>1, <2>2, ScheduleTakes
<1> QED BY <1>4, <1>5, <1>6

\* The experts routed by tiles are experts.
LEMMA RoutedExperts ==
  ASSUME EngTyped
  PROVE  Routed(eng.tiles) \subseteq Experts /\ Missing \subseteq Experts
<1>1. \A r \in Range(eng.tiles) : r \subseteq Experts
  <2>1. eng.tiles \in Seq(SUBSET Experts)
    BY DEF EngTyped
  <2>2. \A j \in DOMAIN eng.tiles : eng.tiles[j] \in SUBSET Experts
    BY <2>1
  <2> QED BY <2>2 DEF Range
<1>2. Routed(eng.tiles) \subseteq Experts
  BY <1>1 DEF Routed
<1> QED BY <1>2 DEF Missing, Wanted

LEMMA TopupKeeps ==
  ASSUME IInv, Topup PROVE IInv'
<1>0. eng.pc = "topup" /\ drain = {} /\ eng.layer # 0 /\ UNCHANGED <<cfg, pool, bytes, drain, strayed>>
  BY DEF Topup, At, IInv, TypeInv, EngTyped
<1>e. PICK e : e = Min(Missing)
  OBVIOUS
<1>1. CASE /\ pf.layer = eng.layer /\ Missing # {} /\ HasRoom
           /\ reads' = Submitted(Key(e), 0, "prefetch")
           /\ pf' = [pf EXCEPT !.tk = Put(@, e, Fresh)]
           /\ UNCHANGED <<eng, tile>>
  <2>1. e \in Missing /\ e \in Experts /\ e \notin DOMAIN pf.tk
    <3>1. Missing \subseteq Experts
      BY RoutedExperts DEF IInv, TypeInv
    <3>2. e \in Missing
      BY <1>e, <1>1, <3>1, LeastExpert
    <3> QED BY <3>1, <3>2 DEF Missing
  <2>2. 0 \in 0..NSlots
    <3>1. NSlots \in Nat
      BY CacheAssumption
    <3> QED BY <3>1
  <2>3. PICK k : k = <<pf.layer, e>>
    OBVIOUS
  <2>4. k = Key(e) /\ k \in Tag
    BY <1>1, <2>1, <2>3 DEF Key, IInv, TypeInv, PfTyped, Tag
  <2>5. TileTyped'
    BY <1>1 DEF IInv, TypeInv, TileTyped
  <2>6. /\ TypeInv' /\ TicketsInv'
        /\ pf'.layer = pf.layer /\ DOMAIN pf'.tk = DOMAIN pf.tk \cup {e}
        /\ \A j \in DOMAIN reads : HeldAt(j) => HeldAt(j)'
    <3>1. reads' = Submitted(<<pf.layer, e>>, 0, "prefetch")
      BY <1>1, <2>3, <2>4
    <3> QED BY <1>0, <1>1, <2>1, <2>2, <2>5, <3>1, PfSubmits
  <2>7. /\ Fresh \notin DOMAIN reads /\ DOMAIN reads' = DOMAIN reads \cup {Fresh}
        /\ reads'[Fresh].slot = 0 /\ \A j \in DOMAIN reads : reads'[j] = reads[j]
    <3>1. ReadsTyped /\ "prefetch" \in {"prefetch", "demand"}
      BY DEF IInv, TypeInv
    <3>2. reads' = Submitted(k, 0, "prefetch")
      BY <1>1, <2>4
    <3>3. PICK r : r = reads'
      OBVIOUS
    <3>4. /\ Fresh \notin DOMAIN reads /\ DOMAIN r = DOMAIN reads \cup {Fresh}
          /\ r[Fresh].slot = 0 /\ \A j \in DOMAIN reads : r[j] = reads[j]
      BY <1>1, <2>4, <3>1, <3>2, <3>3, SubmitPlain
    <3> QED BY <3>3, <3>4
  <2>8. PInv'
    BY <1>0, <1>1 DEF IInv, PInv, PoolOk, PoolTyped, PoolOwned, PlainPool
  <2>9. Control'
    BY <1>0, <1>1, <2>6
    DEF IInv, Control, DueFree, DueTaken, IntoFree, Before, After, Empty
  <2>10. Coverage' /\ PlainReads'
    BY <1>0, <1>1, <2>7 DEF IInv, Coverage, PlainReads, Into, After
  <2>11. ASSUME ~strayed' PROVE SInv'
    <3>1. SInv
      BY <1>0, <2>11 DEF IInv
    <3>2. LeasesRight'
      BY <1>0, <1>1, <3>1 DEF SInv, LeasesRight, Key, Resident
    <3>3. \A i \in DOMAIN reads' : reads'[i].slot # 0 => i \in DOMAIN reads
      BY <2>7
    <3> QED BY <1>0, <2>6, <2>7, <3>1, <3>2, <3>3, SoundStays DEF Into
  <2> QED BY <2>6, <2>8, <2>9, <2>10, <2>11 DEF IInv
<1>2. CASE /\ eng' = [eng EXCEPT !.pc = IF cfg.early THEN "early" ELSE "fan"]
           /\ tile' = [tile EXCEPT !.todo = IF Len(eng.tiles) > 1 /\ ~cfg.early
                                             THEN Routed(eng.tiles) ELSE {}]
           /\ UNCHANGED <<reads, pf>>
  <2>1. /\ (eng'.pc = "early" /\ cfg.early) \/ (eng'.pc = "fan" /\ ~cfg.early)
        /\ eng'.layer = eng.layer
        /\ eng'.tiles = eng.tiles /\ eng'.fan = eng.fan
        /\ eng' = [pc |-> eng'.pc, pass |-> eng'.pass, layer |-> eng'.layer,
                   tiles |-> eng'.tiles, fan |-> eng'.fan]
    BY <1>2 DEF IInv, TypeInv, EngTyped
  <2>2. PICK todo : /\ tile' = [tile EXCEPT !.todo = todo]
                    /\ todo = Routed(eng.tiles) \/ todo = {}
    BY <1>2
  <2>3. todo \subseteq Experts
    BY <2>2, RoutedExperts DEF IInv, TypeInv
  <2>4. /\ tile'.route = tile.route /\ tile'.due = tile.due /\ tile'.losers = tile.losers
        /\ tile'.into = tile.into /\ tile'.demand = tile.demand /\ tile'.misses = tile.misses
        /\ tile'.failed = tile.failed /\ tile'.alone = tile.alone /\ tile'.lease = tile.lease
        /\ tile'.admit = tile.admit /\ tile'.todo = todo
        /\ tile' = [route |-> tile'.route, due |-> tile'.due, todo |-> tile'.todo,
             losers |-> tile'.losers, into |-> tile'.into, demand |-> tile'.demand,
             misses |-> tile'.misses, failed |-> tile'.failed, alone |-> tile'.alone,
             lease |-> tile'.lease, retained |-> tile'.retained, admit |-> tile'.admit]
    BY <2>2 DEF IInv, TypeInv, TileTyped
  <2>5. EngTyped' /\ PfTyped' /\ TileTyped'
    BY <1>0, <1>2, <2>1, <2>3, <2>4 DEF IInv, TypeInv, EngTyped, PfTyped, TileTyped
  <2>6. Control'
    BY <1>0, <1>2, <2>1, <2>4
    DEF IInv, Control, DueFree, DueTaken, IntoFree, Before, After, Empty
  <2>7. Coverage'
    BY <2>1 DEF Coverage, After
  <2>8. eng'.pc # "boot"
    BY <2>1
  <2> QED BY <1>0, <1>2, <2>1, <2>4, <2>5, <2>6, <2>7, <2>8, EngineMoves
<1> QED BY <1>e, <1>1, <1>2, Zenon DEF Topup

\* The due set of this layer moves from the prefetch to the tile.
LEMMA HoistDueKeeps ==
  ASSUME IInv, HoistDue PROVE IInv'
<1>0. eng.pc = "early" /\ drain = {} /\ eng.layer # 0 /\ cfg.early
      /\ UNCHANGED <<cfg, pool, bytes, reads, drain, strayed>>
  BY DEF HoistDue, At, IInv, TypeInv, EngTyped, Control
<1>1. /\ eng'.pc = "hint2" /\ eng'.layer = eng.layer /\ eng'.tiles = eng.tiles
      /\ eng'.fan = eng.fan
      /\ eng' = [pc |-> eng'.pc, pass |-> eng'.pass, layer |-> eng'.layer,
                 tiles |-> eng'.tiles, fan |-> eng'.fan]
  BY DEF HoistDue, IInv, TypeInv, EngTyped
<1>2. /\ tile'.route = tile.route /\ tile'.due = DueSet /\ tile'.losers = tile.losers
      /\ tile'.into = tile.into /\ tile'.demand = tile.demand /\ tile'.misses = tile.misses
      /\ tile'.failed = tile.failed /\ tile'.alone = tile.alone /\ tile'.lease = tile.lease
      /\ tile'.admit = tile.admit /\ tile'.todo = tile.todo
      /\ tile' = [route |-> tile'.route, due |-> tile'.due, todo |-> tile'.todo,
           losers |-> tile'.losers, into |-> tile'.into, demand |-> tile'.demand,
           misses |-> tile'.misses, failed |-> tile'.failed, alone |-> tile'.alone,
           lease |-> tile'.lease, retained |-> tile'.retained, admit |-> tile'.admit]
  BY DEF HoistDue, IInv, TypeInv, TileTyped
<1>3. /\ DOMAIN tile.due = {} /\ DOMAIN tile.losers = {} /\ DOMAIN tile.into = {}
      /\ DOMAIN tile.lease = {}
  BY <1>0 DEF IInv, Control, DueFree, IntoFree, Before, Empty
<1>4. \/ /\ pf.layer = eng.layer /\ tile'.due = pf.tk
         /\ pf'.layer = 0 /\ DOMAIN pf'.tk = {}
      \/ /\ pf.layer # eng.layer /\ DOMAIN tile'.due = {} /\ pf' = pf
  BY <1>2, NoneIsMap DEF HoistDue, DueSet, NoSet
<1>5. PfTyped' /\ IsMap(tile'.due, Experts, Ids)
  BY <1>2, <1>4, NoneIsMap, LayerNumbers DEF HoistDue, DueSet, NoSet, IInv, TypeInv, PfTyped
<1>6. TypeInv'
  BY <1>0, <1>1, <1>2, <1>5 DEF IInv, TypeInv, ReadsTyped, EngTyped, TileTyped
<1>7. PInv'
  BY <1>0, <1>1 DEF IInv, PInv, PoolOk, PoolTyped, PoolOwned, PlainPool
<1>8. TicketsInv'
  <2>1. CASE pf.layer # eng.layer /\ DOMAIN tile'.due = {} /\ pf' = pf
    <3>1. drain' \cap Held' = {} /\ drain' \subseteq Ids
      BY <1>0
    <3> QED BY <1>0, <1>1, <1>2, <2>1, <3>1, TicketsStay DEF IInv, TypeInv, Sub
  <2>2. CASE pf.layer = eng.layer /\ tile'.due = pf.tk /\ pf'.layer = 0 /\ DOMAIN pf'.tk = {}
    <3>1. TicketsKnown'
      BY <1>0, <1>1, <1>2, <2>2 DEF IInv, TicketsInv, TicketsKnown, Known
    <3>2. TicketsLabelled'
      <4>0. /\ \A d \in DOMAIN pf.tk : reads[pf.tk[d]].key = <<pf.layer, d>>
            /\ \A d \in DOMAIN eng.fan : reads[eng.fan[d]].key = Key(d) /\ ~Into(eng.fan[d])
            /\ tile.demand # 0 => ~Into(tile.demand)
        BY DEF IInv, TicketsInv, TicketsLabelled
      <4>1. \A d \in DOMAIN tile'.due : reads'[tile'.due[d]].key = <<eng'.layer, d>>
        BY <1>0, <1>1, <2>2, <4>0
      <4>2. /\ \A d \in DOMAIN eng'.fan : reads'[eng'.fan[d]].key = <<eng'.layer, d>>
                                         /\ ~(reads'[eng'.fan[d]].slot # 0)
            /\ tile'.demand # 0 => ~(reads'[tile'.demand].slot # 0)
        BY <1>0, <1>1, <1>2, <4>0 DEF Key, Into
      <4> QED BY <1>2, <1>3, <2>2, <4>1, <4>2 DEF TicketsLabelled, Key, Into
    <3>3. TicketsOnce'
      BY <1>0, <1>1, <1>2, <1>3, <2>2 DEF IInv, TicketsInv, TicketsOnce, Once, Apart, Aside
    <3> QED BY <3>1, <3>2, <3>3 DEF TicketsInv
  <2> QED BY <1>4, <2>1, <2>2
<1>9. Control'
  BY <1>0, <1>1, <1>2, <1>3, <1>4
  DEF IInv, Control, DueFree, DueTaken, IntoFree, Before, After, Empty
<1>10. Coverage' /\ PlainReads'
  BY <1>0, <1>1 DEF IInv, Coverage, PlainReads, Into, After
<1>11. ASSUME ~strayed' PROVE SInv'
  <2>1. SInv
    BY <1>0, <1>11 DEF IInv
  <2>2. LeasesRight'
    BY <1>2, <1>3 DEF LeasesRight
  <2>3. \A i \in DOMAIN reads : HeldAt(i) => HeldAt(i)'
    BY <1>2, <1>3, <1>4 DEF HeldAt
  <2> QED BY <1>0, <2>1, <2>2, <2>3, SoundStays DEF Into
<1> QED BY <1>6, <1>7, <1>8, <1>9, <1>10, <1>11 DEF IInv

LEMMA FanOneKeeps ==
  ASSUME IInv, FanOne PROVE IInv'
<1>0. /\ eng.pc = "fan" /\ drain = {} /\ HasRoom
      /\ UNCHANGED <<cfg, pool, bytes, drain, pf, strayed>>
  BY DEF FanOne, At
<1>e. PICK e : e = Min(FanTargets)
  OBVIOUS
<1>1. e \in tile.todo /\ e \in Experts
  <2>1. FanTargets \subseteq tile.todo /\ tile.todo \subseteq Experts /\ FanTargets # {}
    BY DEF FanTargets, FanOne, IInv, TypeInv, TileTyped
  <2> QED BY <1>e, <2>1, LeastExpert
<1>i. PICK i : i = Fresh
  OBVIOUS
<1>2. /\ eng'.pc = "fan" /\ eng'.layer = eng.layer /\ eng'.tiles = eng.tiles
      /\ eng'.fan = Put(eng.fan, e, i)
      /\ eng' = [pc |-> eng'.pc, pass |-> eng'.pass, layer |-> eng'.layer,
                 tiles |-> eng'.tiles, fan |-> eng'.fan]
  BY <1>0, <1>e, <1>i DEF FanOne, IInv, TypeInv, EngTyped
<1>3. /\ tile'.route = tile.route /\ tile'.due = tile.due /\ tile'.losers = tile.losers
      /\ tile'.into = tile.into /\ tile'.demand = tile.demand /\ tile'.misses = tile.misses
      /\ tile'.failed = tile.failed /\ tile'.alone = tile.alone /\ tile'.lease = tile.lease
      /\ tile'.admit = tile.admit /\ tile'.todo = tile.todo \ {e}
      /\ tile' = [route |-> tile'.route, due |-> tile'.due, todo |-> tile'.todo,
           losers |-> tile'.losers, into |-> tile'.into, demand |-> tile'.demand,
           misses |-> tile'.misses, failed |-> tile'.failed, alone |-> tile'.alone,
           lease |-> tile'.lease, retained |-> tile'.retained, admit |-> tile'.admit]
  BY <1>e DEF FanOne, IInv, TypeInv, TileTyped
<1>k. PICK k : k = Key(e)
  OBVIOUS
<1>4. /\ i \in Ids /\ i \notin DOMAIN reads
      /\ DOMAIN reads' = DOMAIN reads \cup {i} /\ DOMAIN reads' \subseteq Ids
      /\ reads' \in [DOMAIN reads' -> ReadType]
      /\ reads'[i].key = k /\ reads'[i].slot = 0 /\ \A j \in DOMAIN reads : reads'[j] = reads[j]
  <2>1. ReadsTyped /\ "prefetch" \in {"prefetch", "demand"}
    BY DEF IInv, TypeInv
  <2>2. k \in Tag
    BY <1>k, <1>1 DEF Key, IInv, TypeInv, EngTyped, Tag
  <2>3. PICK r : r = reads'
    OBVIOUS
  <2>4. r = Submitted(k, 0, "prefetch")
    BY <1>e, <1>k, <2>3 DEF FanOne
  <2>5. /\ Fresh \in Ids /\ Fresh \notin DOMAIN reads
        /\ DOMAIN r = DOMAIN reads \cup {Fresh} /\ DOMAIN r \subseteq Ids
        /\ r \in [DOMAIN r -> ReadType]
        /\ r[Fresh].key = k /\ r[Fresh].slot = 0 /\ \A j \in DOMAIN reads : r[j] = reads[j]
    BY <1>0, <2>1, <2>2, <2>4, SubmitPlain
  <2> QED BY <1>i, <2>3, <2>5
<1>5. i # 0
  BY <1>4, IdsAreNat
<1>6. /\ IsMap(eng'.fan, Experts, Ids) /\ DOMAIN eng'.fan = DOMAIN eng.fan \cup {e}
      /\ eng'.fan[e] = i /\ \A d \in DOMAIN eng.fan : d # e => eng'.fan[d] = eng.fan[d]
  <2>1. PICK f : f = eng.fan
    OBVIOUS
  <2>2. IsMap(f, Experts, Ids) /\ eng'.fan = Put(f, e, i)
    BY <1>2, <2>1 DEF IInv, TypeInv, EngTyped
  <2> QED BY <1>1, <1>4, <2>1, <2>2, PutIsMap
<1>7. TypeInv'
  <2>1. ReadsTyped' /\ PfTyped'
    BY <1>0, <1>4 DEF IInv, TypeInv, ReadsTyped, PfTyped
  <2>2. EngTyped'
    BY <1>0, <1>2, <1>6 DEF IInv, TypeInv, EngTyped
  <2>3. TileTyped'
    BY <1>3 DEF IInv, TypeInv, TileTyped
  <2> QED BY <2>1, <2>2, <2>3 DEF TypeInv
<1>8. PInv'
  BY <1>0, <1>2 DEF IInv, PInv, PoolOk, PoolTyped, PoolOwned, PlainPool
<1>9. /\ \A d \in DOMAIN pf.tk : pf.tk[d] # i
      /\ \A d \in DOMAIN tile.due : tile.due[d] # i
      /\ \A d \in DOMAIN tile.losers : tile.losers[d] # i
      /\ \A d \in DOMAIN tile.into : tile.into[d] # i
      /\ \A d \in DOMAIN eng.fan : eng.fan[d] # i
      /\ tile.demand # i
  BY <1>4, <1>5, TicketIsNew DEF IInv
<1>10. TicketsInv'
  <2>1. TicketsKnown'
    BY <1>0, <1>3, <1>4, <1>6 DEF IInv, TicketsInv, TicketsKnown, Known
  <2>2. TicketsLabelled'
    <3>0. TicketsLabelled
      BY DEF IInv, TicketsInv
    <3>2. /\ \A d \in DOMAIN pf.tk : reads'[pf.tk[d]] = reads[pf.tk[d]]
          /\ \A d \in DOMAIN tile.due : reads'[tile.due[d]] = reads[tile.due[d]]
          /\ \A d \in DOMAIN tile.losers : reads'[tile.losers[d]] = reads[tile.losers[d]]
          /\ \A d \in DOMAIN tile.into : reads'[tile.into[d]] = reads[tile.into[d]]
          /\ \A d \in DOMAIN eng.fan : reads'[eng.fan[d]] = reads[eng.fan[d]]
          /\ tile.demand # 0 => reads'[tile.demand] = reads[tile.demand]
      BY <1>4 DEF IInv, TicketsInv, TicketsKnown, Known
    <3>1. eng'.layer = eng.layer
      BY <1>2
    <3>3. \A d \in DOMAIN tile.due : reads'[tile.due[d]].key = <<eng'.layer, d>>
      BY <3>0, <3>1, <3>2, ZenonT(60) DEF TicketsLabelled, Key
    <3>4. \A d \in DOMAIN tile.losers : reads'[tile.losers[d]].key = <<eng'.layer, d>>
      BY <3>0, <3>1, <3>2, ZenonT(60) DEF TicketsLabelled, Key
    <3>5. \A d \in DOMAIN tile.into :
            reads'[tile.into[d]].key = <<eng'.layer, d>> /\ reads'[tile.into[d]].slot # 0
      BY <3>0, <3>1, <3>2 DEF TicketsLabelled, Key, Into
    <3>6. ASSUME NEW d \in DOMAIN eng'.fan
          PROVE  reads'[eng'.fan[d]].key = <<eng'.layer, d>> /\ ~(reads'[eng'.fan[d]].slot # 0)
      <4>1. CASE d = e
        BY <1>k, <1>2, <1>4, <1>6, <4>1 DEF Key
      <4>2. CASE d # e
        <5>1. d \in DOMAIN eng.fan /\ eng'.fan[d] = eng.fan[d]
          BY <1>6, <4>2
        <5>2. reads[eng.fan[d]].key = <<eng.layer, d>> /\ ~(reads[eng.fan[d]].slot # 0)
          BY <3>0, <5>1 DEF TicketsLabelled, Key, Into
        <5> QED BY <1>2, <3>2, <5>1, <5>2
      <4> QED BY <4>1, <4>2
    <3>7. tile.demand # 0 => ~(reads'[tile.demand].slot # 0)
      BY <3>0, <3>2 DEF TicketsLabelled, Into
    <3>8. \A d \in DOMAIN pf'.tk : reads'[pf'.tk[d]].key = <<pf'.layer, d>>
      BY <1>0, <3>0, <3>2 DEF TicketsLabelled
    <3> QED BY <1>3, <3>3, <3>4, <3>5, <3>6, <3>7, <3>8 DEF TicketsLabelled, Into, Key
  <2>3. TicketsOnce'
    <3>1. Once(eng'.fan)
      BY <1>6, <1>9 DEF IInv, TicketsInv, TicketsOnce, Once
    <3>2. /\ Apart(pf.tk, eng'.fan) /\ Apart(tile.due, eng'.fan) /\ Apart(tile.losers, eng'.fan)
          /\ Apart(tile.into, eng'.fan)
      BY <1>6, <1>9 DEF IInv, TicketsInv, TicketsOnce, Apart
    <3>3. \A d \in DOMAIN eng'.fan : eng'.fan[d] # tile.demand /\ eng'.fan[d] \notin drain
      BY <1>0, <1>6, <1>9 DEF IInv, TicketsInv, TicketsOnce, Aside
    <3> QED BY <1>0, <1>3, <3>1, <3>2, <3>3 DEF IInv, TicketsInv, TicketsOnce, Aside
  <2> QED BY <2>1, <2>2, <2>3 DEF TicketsInv
<1>11. Control'
  BY <1>0, <1>2, <1>3
  DEF IInv, Control, DueFree, DueTaken, IntoFree, Before, After, Empty
<1>12. Coverage' /\ PlainReads'
  BY <1>0, <1>2, <1>4 DEF IInv, Coverage, PlainReads, Into, After
<1>13. ASSUME ~strayed' PROVE SInv'
  <2>1. SInv
    BY <1>0, <1>13 DEF IInv
  <2>2. LeasesRight'
    BY <1>0, <1>2, <1>3, <2>1 DEF SInv, LeasesRight, Key, Resident
  <2>3. \A j \in DOMAIN reads' : reads'[j].slot # 0 => j \in DOMAIN reads
    BY <1>4
  <2>4. \A j \in DOMAIN reads : HeldAt(j) => HeldAt(j)'
    BY <1>0, <1>3 DEF HeldAt
  <2> QED BY <1>0, <1>4, <2>1, <2>2, <2>3, <2>4, SoundStays DEF Into
<1> QED BY <1>7, <1>8, <1>10, <1>11, <1>12, <1>13 DEF IInv

LEMMA IntoOneKeeps ==
  ASSUME IInv, IntoOne PROVE IInv'
<1>0. /\ eng.pc = "into" /\ drain = {} /\ HasRoom /\ eng' = eng
      /\ UNCHANGED <<cfg, bytes, drain, pf, strayed>>
  BY DEF IntoOne, At
<1>e. PICK e : e = Min(tile.todo)
  OBVIOUS
<1>1. e \in tile.todo /\ e \in Experts
  <2>1. tile.todo \subseteq Experts /\ tile.todo # {}
    BY DEF IntoOne, IInv, TypeInv, TileTyped
  <2> QED BY <1>e, <2>1, LeastExpert
<1>i. PICK i : i = Fresh
  OBVIOUS
<1>k. PICK k : k = Key(e)
  OBVIOUS
<1>2. k \in Tag
  BY <1>k, <1>1 DEF Key, IInv, TypeInv, EngTyped, Tag
<1>3. PICK r \in TryReadIntoSlot(k) :
        /\ pool' = r.pool
        /\ \/ /\ r.slot = 0 /\ reads' = reads
              /\ tile' = [tile EXCEPT !.misses = @ \cup {e}, !.todo = @ \ {e}]
           \/ /\ r.slot # 0 /\ reads' = Submitted(k, r.slot, "demand")
              /\ tile' = [tile EXCEPT !.into = Put(@, e, i), !.todo = @ \ {e}]
  BY <1>e, <1>i, <1>k, Zenon DEF IntoOne
<1>4. /\ PoolOk(r.pool)
      /\ r.slot = 0 => r.pool = pool
      /\ r.slot # 0 => cfg.intoSlot /\ r.slot \in Slots
  BY <1>2, <1>3, TryReadKeeps DEF IInv, PInv
<1>5. PInv'
  BY <1>0, <1>3, <1>4 DEF IInv, PInv, PlainPool
<1>6. CASE /\ r.slot = 0 /\ reads' = reads
           /\ tile' = [tile EXCEPT !.misses = @ \cup {e}, !.todo = @ \ {e}]
  <2>1. /\ tile'.route = tile.route /\ tile'.due = tile.due /\ tile'.losers = tile.losers
        /\ tile'.into = tile.into /\ tile'.demand = tile.demand
        /\ tile'.misses = tile.misses \cup {e}
        /\ tile'.failed = tile.failed /\ tile'.alone = tile.alone /\ tile'.lease = tile.lease
        /\ tile'.admit = tile.admit /\ tile'.todo = tile.todo \ {e}
        /\ tile' = [route |-> tile'.route, due |-> tile'.due, todo |-> tile'.todo,
             losers |-> tile'.losers, into |-> tile'.into, demand |-> tile'.demand,
             misses |-> tile'.misses, failed |-> tile'.failed, alone |-> tile'.alone,
             lease |-> tile'.lease, retained |-> tile'.retained, admit |-> tile'.admit]
    BY <1>6 DEF IInv, TypeInv, TileTyped
  <2>2. EngTyped' /\ PfTyped' /\ TileTyped'
    BY <1>0, <1>1, <2>1 DEF IInv, TypeInv, EngTyped, PfTyped, TileTyped
  <2>3. Control'
    BY <1>0, <2>1 DEF IInv, Control, DueFree, DueTaken, IntoFree, Before, After, Empty
  <2>4. Coverage'
    BY <1>0, <1>1, <2>1 DEF IInv, Coverage, After
  <2>5. pool' = pool
    BY <1>3, <1>4, <1>6
  <2> QED BY <1>0, <1>6, <2>1, <2>2, <2>3, <2>4, <2>5, EngineMoves
<1>7. CASE /\ r.slot # 0 /\ reads' = Submitted(k, r.slot, "demand")
           /\ tile' = [tile EXCEPT !.into = Put(@, e, i), !.todo = @ \ {e}]
  <2>1. /\ tile'.route = tile.route /\ tile'.due = tile.due /\ tile'.losers = tile.losers
        /\ tile'.into = Put(tile.into, e, i) /\ tile'.demand = tile.demand
        /\ tile'.misses = tile.misses
        /\ tile'.failed = tile.failed /\ tile'.alone = tile.alone /\ tile'.lease = tile.lease
        /\ tile'.admit = tile.admit /\ tile'.todo = tile.todo \ {e}
        /\ tile' = [route |-> tile'.route, due |-> tile'.due, todo |-> tile'.todo,
             losers |-> tile'.losers, into |-> tile'.into, demand |-> tile'.demand,
             misses |-> tile'.misses, failed |-> tile'.failed, alone |-> tile'.alone,
             lease |-> tile'.lease, retained |-> tile'.retained, admit |-> tile'.admit]
    BY <1>7 DEF IInv, TypeInv, TileTyped
  <2>s. PICK slot : slot = r.slot
    OBVIOUS
  <2>2. slot \in 0..NSlots /\ slot # 0
    <3>1. NSlots \in Nat
      BY CacheAssumption
    <3> QED BY <1>4, <1>7, <2>s, <3>1 DEF Slots
  <2>3. /\ i \in Ids /\ i \notin DOMAIN reads
        /\ DOMAIN reads' = DOMAIN reads \cup {i} /\ DOMAIN reads' \subseteq Ids
        /\ reads' \in [DOMAIN reads' -> ReadType]
        /\ reads'[i].key = k /\ reads'[i].slot = slot /\ reads'[i].st = "queued"
        /\ \A j \in DOMAIN reads : reads'[j] = reads[j]
    <3>1. ReadsTyped /\ "demand" \in {"prefetch", "demand"}
      BY DEF IInv, TypeInv
    <3>2. PICK q : q = reads'
      OBVIOUS
    <3>3. q = Submitted(k, slot, "demand")
      BY <1>7, <2>s, <3>2
    <3>4. /\ Fresh \in Ids /\ Fresh \notin DOMAIN reads
          /\ DOMAIN q = DOMAIN reads \cup {Fresh} /\ DOMAIN q \subseteq Ids
          /\ q \in [DOMAIN q -> ReadType]
          /\ q[Fresh].key = k /\ q[Fresh].slot = slot /\ q[Fresh].st = "queued"
          /\ \A j \in DOMAIN reads : q[j] = reads[j]
      <4>1. PICK c : c = "demand"
        OBVIOUS
      <4>2. HasRoom /\ ReadsTyped /\ c \in {"prefetch", "demand"} /\ q = Submitted(k, slot, c)
        BY <1>0, <3>1, <3>3, <4>1
      <4>3. slot \in 0..NSlots
        BY <2>2
      <4>4. /\ Fresh \in Ids /\ Fresh \notin DOMAIN reads
            /\ q[Fresh].key = k /\ q[Fresh].slot = slot /\ q[Fresh].st = "queued"
        BY <1>2, <4>2, <4>3, SubmitGrows
      <4>7. DOMAIN q = DOMAIN reads \cup {Fresh} /\ DOMAIN q \subseteq Ids
        BY <1>2, <4>2, <4>3, SubmitGrows
      <4>5. q \in [DOMAIN q -> ReadType]
        BY <1>2, <4>2, <4>3, SubmitGrows
      <4>6. \A j \in DOMAIN reads : q[j] = reads[j]
        BY <1>2, <4>2, <4>3, SubmitGrows
      <4> QED BY <4>4, <4>5, <4>6, <4>7
    <3> QED BY <1>i, <3>2, <3>4
  <2>4. i # 0
    BY <2>3, IdsAreNat
  <2>5. /\ IsMap(tile'.into, Experts, Ids) /\ DOMAIN tile'.into = DOMAIN tile.into \cup {e}
        /\ tile'.into[e] = i /\ \A d \in DOMAIN tile.into : d # e => tile'.into[d] = tile.into[d]
    <3>1. PICK f : f = tile.into
      OBVIOUS
    <3>2. IsMap(f, Experts, Ids) /\ tile'.into = Put(f, e, i)
      BY <2>1, <3>1 DEF IInv, TypeInv, TileTyped
    <3> QED BY <1>1, <2>3, <3>1, <3>2, PutIsMap
  <2>e. e \notin DOMAIN tile.into
    BY <1>0, <1>1 DEF IInv, Coverage
  <2>6. TypeInv'
    <3>1. ReadsTyped' /\ PfTyped' /\ EngTyped'
      BY <1>0, <2>3 DEF IInv, TypeInv, ReadsTyped, PfTyped, EngTyped
    <3>2. TileTyped'
      BY <2>1, <2>5 DEF IInv, TypeInv, TileTyped
    <3> QED BY <3>1, <3>2 DEF TypeInv
  <2>7. /\ \A d \in DOMAIN pf.tk : pf.tk[d] # i
        /\ \A d \in DOMAIN tile.due : tile.due[d] # i
        /\ \A d \in DOMAIN tile.losers : tile.losers[d] # i
        /\ \A d \in DOMAIN tile.into : tile.into[d] # i
        /\ \A d \in DOMAIN eng.fan : eng.fan[d] # i
        /\ tile.demand # i
    BY <2>3, <2>4, TicketIsNew DEF IInv
  <2>8. TicketsInv'
    <3>1. TicketsKnown'
      BY <1>0, <2>1, <2>3, <2>5 DEF IInv, TicketsInv, TicketsKnown, Known
    <3>2. TicketsLabelled'
      <4>0. TicketsLabelled
        BY DEF IInv, TicketsInv
      <4>2. /\ \A d \in DOMAIN pf.tk : reads'[pf.tk[d]] = reads[pf.tk[d]]
            /\ \A d \in DOMAIN tile.due : reads'[tile.due[d]] = reads[tile.due[d]]
            /\ \A d \in DOMAIN tile.losers : reads'[tile.losers[d]] = reads[tile.losers[d]]
            /\ \A d \in DOMAIN tile.into : reads'[tile.into[d]] = reads[tile.into[d]]
            /\ \A d \in DOMAIN eng.fan : reads'[eng.fan[d]] = reads[eng.fan[d]]
            /\ tile.demand # 0 => reads'[tile.demand] = reads[tile.demand]
        BY <2>3 DEF IInv, TicketsInv, TicketsKnown, Known
      <4>3. \A d \in DOMAIN tile.due : reads'[tile.due[d]].key = <<eng.layer, d>>
        BY <4>0, <4>2, ZenonT(60) DEF TicketsLabelled, Key
      <4>4. \A d \in DOMAIN tile.losers : reads'[tile.losers[d]].key = <<eng.layer, d>>
        BY <4>0, <4>2 DEF TicketsLabelled, Key
      <4>5. ASSUME NEW d \in DOMAIN tile'.into
            PROVE  reads'[tile'.into[d]].key = <<eng.layer, d>> /\ reads'[tile'.into[d]].slot # 0
        <5>1. CASE d = e
          BY <1>k, <2>2, <2>3, <2>5, <5>1 DEF Key
        <5>2. CASE d # e
          <6>1. d \in DOMAIN tile.into /\ tile'.into[d] = tile.into[d]
            BY <2>5, <5>2
          <6>2. reads[tile.into[d]].key = <<eng.layer, d>> /\ reads[tile.into[d]].slot # 0
            BY <4>0, <6>1 DEF TicketsLabelled, Key, Into
          <6> QED BY <4>2, <6>1, <6>2
        <5> QED BY <5>1, <5>2
      <4>6. \A d \in DOMAIN eng.fan :
              reads'[eng.fan[d]].key = <<eng.layer, d>> /\ ~(reads'[eng.fan[d]].slot # 0)
        BY <4>0, <4>2 DEF TicketsLabelled, Key, Into
      <4>7. tile.demand # 0 => ~(reads'[tile.demand].slot # 0)
        BY <4>0, <4>2 DEF TicketsLabelled, Into
      <4>8. \A d \in DOMAIN pf'.tk : reads'[pf'.tk[d]].key = <<pf'.layer, d>>
        BY <1>0, <4>0, <4>2 DEF TicketsLabelled
      <4> QED BY <1>0, <2>1, <4>3, <4>4, <4>5, <4>6, <4>7, <4>8 DEF TicketsLabelled, Into, Key
    <3>3. TicketsOnce'
      <4>1. Once(tile'.into)
        BY <2>5, <2>7 DEF IInv, TicketsInv, TicketsOnce, Once
      <4>2. /\ Apart(pf.tk, tile'.into) /\ Apart(tile.due, tile'.into)
            /\ Apart(tile.losers, tile'.into) /\ Apart(tile'.into, eng.fan)
        BY <2>5, <2>7 DEF IInv, TicketsInv, TicketsOnce, Apart
      <4>3. \A d \in DOMAIN tile'.into : tile'.into[d] # tile.demand /\ tile'.into[d] \notin drain
        BY <1>0, <2>5, <2>7 DEF IInv, TicketsInv, TicketsOnce, Aside
      <4> QED BY <1>0, <2>1, <4>1, <4>2, <4>3 DEF IInv, TicketsInv, TicketsOnce, Aside
    <3> QED BY <3>1, <3>2, <3>3 DEF TicketsInv
  <2>9. Control'
    BY <1>0, <2>1 DEF IInv, Control, DueFree, DueTaken, IntoFree, Before, After, Empty
  <2>10. Coverage'
    BY <1>0, <1>1, <2>1, <2>5 DEF IInv, Coverage, After
  <2>11. PlainReads'
    BY <1>0, <1>4, <1>7 DEF IInv, PlainReads
  <2>12. ASSUME ~strayed' PROVE SInv'
    <3>1. SInv
      BY <1>0, <2>12 DEF IInv
    <3>2. \A j \in DOMAIN reads : HeldAt(j) => HeldAt(j)'
      BY <1>0, <2>1, <2>5, <2>e DEF HeldAt
    <3>3. HeldAt(i)'
      BY <2>5 DEF HeldAt
    <3>4. eng'.layer = eng.layer /\ tile'.lease = tile.lease
      BY <1>0, <2>1
    <3> QED BY <1>0, <1>2, <1>3, <1>7, <2>s, <2>3, <3>1, <3>2, <3>3, <3>4, ReserveSound
  <2> QED BY <1>5, <2>6, <2>8, <2>9, <2>10, <2>11, <2>12 DEF IInv
<1> QED BY <1>3, <1>6, <1>7

\* Reads go together with their reservations: those of the keys given up, and
\* no other read into a slot.
LEMMA SoundDrops ==
  ASSUME SInv, NEW ks, bytes' = bytes, LeasesRight',
         DOMAIN pool'.pending = DOMAIN pool.pending \ ks,
         \A k \in DOMAIN pool'.pending : pool'.pending[k] = pool.pending[k],
         \A k \in DOMAIN pool'.map : bytes[pool'.map[k]] = k,
         DOMAIN reads' \subseteq DOMAIN reads, \A j \in DOMAIN reads' : reads'[j] = reads[j],
         \A j \in DOMAIN reads : Into(j) =>
           \/ reads[j].key \in ks /\ j \notin DOMAIN reads'
           \/ /\ reads[j].key \notin ks /\ j \in DOMAIN reads'
              /\ j \notin drain' /\ HeldAt(j)'
  PROVE  SInv'
<1> DEFINE G(j) == HeldAt(j)'
<1>1. \A j \in DOMAIN reads : Into(j) =>
        \/ reads[j].key \in ks /\ j \notin DOMAIN reads'
        \/ /\ reads[j].key \notin ks /\ j \in DOMAIN reads'
           /\ j \notin drain' /\ G(j)
  OBVIOUS
<1> HIDE DEF G
<1>2. \A j \in DOMAIN reads' : reads'[j].slot # 0 => j \in DOMAIN reads /\ Into(j)
  BY DEF Into
<1>3. ReadsReserved'
  <2>1. \A j \in DOMAIN reads' : reads'[j].slot # 0 =>
          /\ reads'[j].key \in DOMAIN pool'.pending
          /\ pool'.pending[reads'[j].key] = reads'[j].slot /\ G(j) /\ j \notin drain'
    BY <1>1, <1>2 DEF SInv, ReadsReserved
  <2> QED BY <2>1 DEF ReadsReserved, Into, G
<1>4. ReadsDistinct'
  BY <1>2 DEF SInv, ReadsDistinct, Into
<1>5. ReservationsRead'
  <2>1. ASSUME NEW d \in DOMAIN pool'.pending
        PROVE  \E j \in DOMAIN reads' : reads'[j].slot # 0 /\ reads'[j].key = d
    <3>1. PICK j \in DOMAIN reads : Into(j) /\ reads[j].key = d
      BY <2>1 DEF SInv, ReservationsRead
    <3> QED BY <1>1, <2>1, <3>1 DEF Into
  <2> QED BY <2>1 DEF ReservationsRead, Into
<1>6. BytesRight'
  BY <1>2 DEF SInv, BytesRight, Into, Resident
<1> QED BY <1>3, <1>4, <1>5, <1>6 DEF SInv

\* A map with what another adds.
LEMMA OverIsMap ==
  ASSUME NEW f, NEW g, NEW K, NEW V, IsMap(f, K, V), IsMap(g, K, V)
  PROVE  /\ IsMap(Over(f, g), K, V)
         /\ DOMAIN Over(f, g) = DOMAIN f \cup DOMAIN g
         /\ \A d \in DOMAIN f : Over(f, g)[d] = f[d]
         /\ \A d \in DOMAIN g : d \notin DOMAIN f => Over(f, g)[d] = g[d]
BY DEF IsMap, Over

\* The tile starts: its hits are leased, its tickets taken over, stale
\* reservations swept.
LEMMA ReadTileKeeps ==
  ASSUME IInv, ReadTile PROVE IInv'
<1> DEFINE route == Head(eng.tiles)
           pinned == {e \in route : Key(e) \in tier}
           summer == {e \in route \ pinned : Key(e) \in Resident}
           retained == {e \in (route \ pinned) \ summer : e \in kept[eng.layer]}
           streamed == ((route \ pinned) \ summer) \ retained
           stale == {k \in DOMAIN pool.pending : k[1] < eng.layer}
           sweeps == cfg.intoSlot /\ streamed # {}
           old == IF cfg.early THEN tile.due ELSE DueSet
           new == Restrict(eng.fan, route \cap DOMAIN eng.fan)
           due == Over(old, new)
           lease == [e \in (pinned \cup retained) \cup summer |->
                       IF e \in summer THEN InSlot(pool.map[Key(e)]) ELSE Own(e)]
<1>0. eng.pc = "tile" /\ drain = {} /\ eng.layer # 0
      /\ UNCHANGED <<cfg, bytes, reads, drain, tier, kept>>
  BY DEF ReadTile, At, IInv, TypeInv, EngTyped
<1>1. route \subseteq Experts
  BY <1>0 DEF IInv, TypeInv, EngTyped, Control
<1>2. /\ tile' = [NoTile EXCEPT !.route = route, !.due = due, !.todo = streamed,
                    !.retained = retained, !.lease = lease]
      /\ pool' = IF sweeps THEN SweepPendingBefore(pool, eng.layer) ELSE pool
      /\ strayed' = (strayed \/ (sweeps /\ StraysByAbort(stale, 0)))
      /\ eng' = [eng EXCEPT !.pc = "into", !.fan = Restrict(@, DOMAIN @ \ route)]
      /\ pf' = IF pf.layer = eng.layer THEN NoSet ELSE pf
  BY DEF ReadTile
<1>a. PICK rt : rt = route
  OBVIOUS
<1>b. PICK st : st = streamed
  OBVIOUS
<1>c. PICK le : le = lease
  OBVIOUS
<1>d. PICK du : du = due
  OBVIOUS
<1>3. rt \subseteq Experts /\ st \subseteq rt /\ DOMAIN le \cup st = rt
  <2>1. DOMAIN le = (pinned \cup retained) \cup summer
    BY <1>c
  <2>2. (pinned \cup retained) \cup summer \cup streamed = route
    BY Zenon
  <2> QED BY <1>1, <1>a, <1>b, <2>1, <2>2
<1>4. /\ tile'.route = rt /\ tile'.due = du /\ tile'.losers = None /\ tile'.into = None
      /\ tile'.demand = 0 /\ tile'.misses = {} /\ tile'.failed = FALSE /\ tile'.alone = FALSE
      /\ tile'.lease = le /\ tile'.admit = {} /\ tile'.todo = st
      /\ tile' = [route |-> tile'.route, due |-> tile'.due, todo |-> tile'.todo,
           losers |-> tile'.losers, into |-> tile'.into, demand |-> tile'.demand,
           misses |-> tile'.misses, failed |-> tile'.failed, alone |-> tile'.alone,
           lease |-> tile'.lease, retained |-> tile'.retained, admit |-> tile'.admit]
  <2>1. PICK re : re = retained
    OBVIOUS
  <2>2. tile' = [NoTile EXCEPT !.route = rt, !.due = du, !.todo = st, !.retained = re,
                   !.lease = le]
    BY <1>2, <1>a, <1>b, <1>c, <1>d, <2>1
  <2> HIDE DEF route, streamed, due, lease, retained
  <2> QED BY <2>2 DEF NoTile
<1>5. PICK fan : /\ fan = Restrict(eng.fan, DOMAIN eng.fan \ rt)
                 /\ IsMap(fan, Experts, Ids) /\ DOMAIN fan = DOMAIN eng.fan \ rt
                 /\ \A d \in DOMAIN fan : fan[d] = eng.fan[d]
  BY RestrictIsMap DEF IInv, TypeInv, EngTyped
<1>6. /\ eng'.pc = "into" /\ eng'.layer = eng.layer /\ eng'.tiles = eng.tiles
      /\ eng'.fan = fan
      /\ eng' = [pc |-> eng'.pc, pass |-> eng'.pass, layer |-> eng'.layer,
                 tiles |-> eng'.tiles, fan |-> eng'.fan]
  BY <1>2, <1>a, <1>5 DEF IInv, TypeInv, EngTyped
<1>7. /\ IsMap(old, Experts, Ids)
      /\ \A d \in DOMAIN old : /\ reads[old[d]].key = Key(d) /\ old[d] \in DOMAIN reads
                               /\ \A e \in DOMAIN eng.fan : old[d] # eng.fan[e]
                               /\ \A e \in DOMAIN pf'.tk : old[d] # pf'.tk[e]
      /\ Once(old)
      /\ \A e \in DOMAIN tile.due : e \in DOMAIN old /\ old[e] = tile.due[e]
      /\ pf' = pf \/ (pf.layer = eng.layer /\ pf'.layer = 0 /\ DOMAIN pf'.tk = {}
                       /\ \A e \in DOMAIN pf.tk : e \in DOMAIN old /\ old[e] = pf.tk[e])
  <2>1. TicketsKnown /\ TicketsLabelled /\ TicketsOnce
    BY DEF IInv, TicketsInv
  <2>2. pf' = pf \/ (pf.layer = eng.layer /\ pf'.layer = 0 /\ DOMAIN pf'.tk = {})
    BY <1>2, NoneIsMap DEF NoSet
  <2>3. CASE cfg.early
    <3>1. pf.layer = eng.layer => DOMAIN pf.tk = {}
      BY <1>0, <2>3 DEF IInv, Control, DueTaken, Empty
    <3>2. old = tile.due
      BY <2>3
    <3>3. \A d \in DOMAIN old : /\ reads[old[d]].key = Key(d) /\ old[d] \in DOMAIN reads
                                /\ \A e \in DOMAIN eng.fan : old[d] # eng.fan[e]
                                /\ \A e \in DOMAIN pf'.tk : old[d] # pf'.tk[e]
      BY <2>1, <2>2, <3>2
      DEF TicketsKnown, TicketsLabelled, TicketsOnce, Known, Apart
    <3>4. Once(old)
      BY <2>1, <3>2 DEF TicketsOnce
    <3> QED BY <2>2, <3>1, <3>2, <3>3, <3>4 DEF IInv, TypeInv, TileTyped
  <2>4. CASE ~cfg.early
    <3>1. DOMAIN tile.due = {} /\ old = DueSet
      BY <1>0, <2>4 DEF IInv, Control, DueFree, Empty
    <3>2. CASE pf.layer = eng.layer
      <4>1. old = pf.tk
        BY <3>1, <3>2 DEF DueSet
      <4>2. IsMap(old, Experts, Ids) /\ Once(old)
        BY <2>1, <4>1 DEF IInv, TypeInv, PfTyped, TicketsOnce
      <4>3. DOMAIN pf'.tk = {} /\ pf'.layer = 0
        BY <1>2, <3>2, NoneIsMap DEF NoSet
      <4>4. \A d \in DOMAIN old : /\ reads[old[d]].key = Key(d) /\ old[d] \in DOMAIN reads
                                  /\ \A e \in DOMAIN eng.fan : old[d] # eng.fan[e]
        BY <2>1, <3>2, <4>1 DEF TicketsKnown, TicketsLabelled, TicketsOnce, Known, Apart, Key
      <4> QED BY <3>1, <3>2, <4>1, <4>2, <4>3, <4>4
    <3>3. CASE pf.layer # eng.layer
      <4>1. old = None /\ pf' = pf
        BY <1>2, <3>1, <3>3 DEF DueSet
      <4> QED BY <3>1, <4>1, NoneIsMap DEF Once
    <3> QED BY <3>2, <3>3
  <2>5. cfg.early \/ ~cfg.early
    OBVIOUS
  <2> QED BY <2>3, <2>4, <2>5
<1>8. /\ IsMap(du, Experts, Ids)
      /\ \A d \in DOMAIN du : \/ d \in DOMAIN old /\ du[d] = old[d]
                              \/ d \in DOMAIN eng.fan /\ d \in rt /\ du[d] = eng.fan[d]
      /\ \A d \in DOMAIN old : d \in DOMAIN du /\ du[d] = old[d]
  <2>1. /\ IsMap(new, Experts, Ids) /\ DOMAIN new = rt \cap DOMAIN eng.fan
        /\ \A d \in DOMAIN new : new[d] = eng.fan[d]
    <3>1. rt \cap DOMAIN eng.fan \subseteq DOMAIN eng.fan /\ IsMap(eng.fan, Experts, Ids)
      BY DEF IInv, TypeInv, EngTyped
    <3>2. new = Restrict(eng.fan, rt \cap DOMAIN eng.fan)
      BY <1>a
    <3> HIDE DEF new
    <3> QED BY <3>1, <3>2, RestrictIsMap
  <2>o. PICK o : o = old
    OBVIOUS
  <2>n. PICK n : n = new
    OBVIOUS
  <2>2. du = Over(o, n) /\ IsMap(o, Experts, Ids) /\ IsMap(n, Experts, Ids)
    BY <1>7, <1>d, <2>1, <2>o, <2>n
  <2> HIDE DEF old, new
  <2>3. /\ IsMap(du, Experts, Ids) /\ DOMAIN du = DOMAIN o \cup DOMAIN n
        /\ \A d \in DOMAIN o : du[d] = o[d]
        /\ \A d \in DOMAIN n : d \notin DOMAIN o => du[d] = n[d]
    <3>1. /\ IsMap(Over(o, n), Experts, Ids) /\ DOMAIN Over(o, n) = DOMAIN o \cup DOMAIN n
          /\ \A d \in DOMAIN o : Over(o, n)[d] = o[d]
          /\ \A d \in DOMAIN n : d \notin DOMAIN o => Over(o, n)[d] = n[d]
      BY <2>2, OverIsMap
    <3> QED BY <2>2, <3>1
  <2>4. /\ DOMAIN n = rt \cap DOMAIN eng.fan
        /\ \A d \in DOMAIN n : n[d] = eng.fan[d]
    BY <2>1, <2>n
  <2>5. /\ \A d \in DOMAIN du : \/ d \in DOMAIN o /\ du[d] = o[d]
                                \/ d \in DOMAIN eng.fan /\ d \in rt /\ du[d] = eng.fan[d]
        /\ \A d \in DOMAIN o : d \in DOMAIN du /\ du[d] = o[d]
    BY <2>3, <2>4
  <2> QED BY <2>o, <2>3, <2>5, Zenon
<1>9. /\ DOMAIN tile.losers = {} /\ DOMAIN tile.into = {} /\ DOMAIN tile.lease = {}
      /\ DOMAIN None = {}
  BY <1>0, NoneIsMap DEF IInv, Control, IntoFree, Before, Empty
<1>10. /\ IsMap(le, Experts, [slot : 0..NSlots, key : Tag])
       /\ \A e \in DOMAIN le : \/ le[e] = Own(e)
                               \/ Key(e) \in Resident /\ le[e] = InSlot(pool.map[Key(e)])
  <2>1. \A e \in DOMAIN le : \/ le[e] = Own(e)
                             \/ Key(e) \in Resident /\ le[e] = InSlot(pool.map[Key(e)])
    BY <1>c
  <2>2. \A e \in Experts : Own(e) \in [slot : 0..NSlots, key : Tag]
    <3>1. 0 \in 0..NSlots
      <4>1. NSlots \in Nat
        BY CacheAssumption
      <4> QED BY <4>1
    <3> QED BY <3>1 DEF Own, Key, Tag, IInv, TypeInv, EngTyped
  <2>3. \A k \in Resident : InSlot(pool.map[k]) \in [slot : 0..NSlots, key : Tag]
    <3>1. Torn \in Tag
      BY LayerNumbers DEF Torn, Tag
    <3>2. Slots \subseteq 0..NSlots
      <4>1. NSlots \in Nat
        BY CacheAssumption
      <4> QED BY <4>1 DEF Slots
    <3>3. \A k \in Resident : pool.map[k] \in Slots
      BY DEF IInv, PInv, PoolOk, PoolTyped, IsMap, Resident
    <3> QED BY <3>1, <3>2, <3>3 DEF InSlot
  <2>4. DOMAIN le \subseteq Experts /\ le = [e \in DOMAIN le |-> le[e]]
    BY <1>3, <1>c
  <2> QED BY <2>1, <2>2, <2>3, <2>4 DEF IsMap
<1> HIDE DEF route, pinned, summer, retained, streamed, due, lease, new
<1>11. TypeInv'
  <2>1. ReadsTyped' /\ PfTyped'
    BY <1>0, <1>2, NoneIsMap, LayerNumbers DEF NoSet, IInv, TypeInv, ReadsTyped, PfTyped
  <2>2. EngTyped'
    BY <1>0, <1>5, <1>6 DEF IInv, TypeInv, EngTyped
  <2>3. TileTyped'
    <3>1. IsMap(tile'.losers, Experts, Ids) /\ IsMap(tile'.into, Experts, Ids)
      BY <1>4, NoneIsMap
    <3>2. /\ IsMap(tile'.due, Experts, Ids)
          /\ IsMap(tile'.lease, Experts, [slot : 0..NSlots, key : Tag])
      BY <1>4, <1>8, <1>10
    <3>3. tile'.route \subseteq Experts /\ tile'.todo \subseteq Experts
      BY <1>3, <1>4
    <3> QED BY <1>4, <3>1, <3>2, <3>3 DEF TileTyped
  <2> QED BY <2>1, <2>2, <2>3 DEF TypeInv
<1>12. /\ PoolOk(pool') /\ pool'.map = pool.map
       /\ DOMAIN pool'.pending = DOMAIN pool.pending \ (IF sweeps THEN stale ELSE {})
       /\ \A d \in DOMAIN pool'.pending : pool'.pending[d] = pool.pending[d]
  <2>1. CASE sweeps
    <3>1. PICK s : s = stale
      OBVIOUS
    <3>2. pool' = AbortPending(pool, s) /\ PoolOk(pool)
      BY <1>2, <2>1, <3>1 DEF SweepPendingBefore, IInv, PInv
    <3>3. /\ PoolOk(pool') /\ pool'.map = pool.map
          /\ DOMAIN pool'.pending = DOMAIN pool.pending \ s
          /\ \A d \in DOMAIN pool'.pending : pool'.pending[d] = pool.pending[d]
      <4> HIDE DEF stale
      <4> QED BY <3>2, AbortKeeps
    <3> QED BY <2>1, <3>1, <3>3
  <2>2. CASE ~sweeps
    BY <1>2, <2>2 DEF IInv, PInv
  <2> QED BY <2>1, <2>2
<1>13. PInv'
  BY <1>0, <1>6, <1>12 DEF IInv, PInv, PlainPool
<1>14. TicketsInv'
  <2>0. TicketsKnown /\ TicketsLabelled /\ TicketsOnce
    BY DEF IInv, TicketsInv
  <2> HIDE DEF old
  <2>1. TicketsKnown'
    <3>1. Known(pf.tk)' /\ Known(eng.fan)'
      BY <1>0, <1>5, <1>6, <1>7, <2>0, ZenonT(60) DEF TicketsKnown, Known
    <3>2. Known(tile.due)'
      BY <1>0, <1>4, <1>7, <1>8, <2>0 DEF TicketsKnown, Known
    <3> QED BY <1>4, <1>9, <3>1, <3>2 DEF TicketsKnown, Known
  <2>2. TicketsLabelled'
    <3>1. \A d \in DOMAIN du : reads[du[d]].key = Key(d)
      BY <1>7, <1>8, <2>0 DEF TicketsLabelled
    <3>2. \A d \in DOMAIN fan : reads[fan[d]].key = Key(d) /\ ~Into(fan[d])
      BY <1>5, <2>0 DEF TicketsLabelled
    <3>3. \A d \in DOMAIN pf'.tk : reads[pf'.tk[d]].key = <<pf'.layer, d>>
      BY <1>7, <2>0 DEF TicketsLabelled
    <3> QED BY <1>0, <1>4, <1>6, <1>9, <3>1, <3>2, <3>3 DEF TicketsLabelled, Key, Into
  <2>3. TicketsOnce'
    <3>1. Once(du)
      BY <1>7, <1>8, <2>0 DEF TicketsOnce, Once
    <3>2. Once(fan) /\ Apart(du, fan)
      <4>1. Once(eng.fan)
        BY <2>0 DEF TicketsOnce
      <4>2. Once(fan)
        BY <1>5, <4>1 DEF Once
      <4>3. ASSUME NEW d \in DOMAIN du, NEW e \in DOMAIN fan PROVE du[d] # fan[e]
        <5>1. e \in DOMAIN eng.fan /\ e \notin rt /\ fan[e] = eng.fan[e]
          BY <1>5
        <5>2. CASE d \in DOMAIN old /\ du[d] = old[d]
          BY <1>7, <5>1, <5>2
        <5>3. CASE d \in DOMAIN eng.fan /\ d \in rt /\ du[d] = eng.fan[d]
          BY <4>1, <5>1, <5>3 DEF Once
        <5> QED BY <1>8, <5>2, <5>3
      <4> QED BY <4>2, <4>3 DEF Apart
    <3>3. Once(pf'.tk) /\ Apart(pf'.tk, du) /\ Apart(pf'.tk, fan)
      <4>1. pf' = pf \/ DOMAIN pf'.tk = {}
        BY <1>7
      <4>2. Once(pf'.tk)
        BY <2>0, <4>1 DEF TicketsOnce, Once
      <4>3. Apart(pf'.tk, eng.fan)
        BY <2>0, <4>1 DEF TicketsOnce, Apart
      <4>4. ASSUME NEW d \in DOMAIN pf'.tk, NEW e \in DOMAIN du PROVE pf'.tk[d] # du[e]
        <5>1. CASE e \in DOMAIN old /\ du[e] = old[e]
          BY <1>7, <5>1
        <5>2. CASE e \in DOMAIN eng.fan /\ du[e] = eng.fan[e]
          BY <4>3, <5>2 DEF Apart
        <5> QED BY <1>8, <5>1, <5>2
      <4>5. Apart(pf'.tk, fan)
        BY <1>5, <4>3 DEF Apart
      <4> QED BY <4>2, <4>4, <4>5 DEF Apart
    <3>4. /\ \A d \in DOMAIN du : du[d] # 0
          /\ \A d \in DOMAIN fan : fan[d] # 0
          /\ \A d \in DOMAIN pf'.tk : pf'.tk[d] # 0
      <4>1. IsMap(du, Experts, Ids) /\ IsMap(fan, Experts, Ids) /\ IsMap(pf'.tk, Experts, Ids)
        BY <1>5, <1>8, <1>11 DEF TypeInv, PfTyped
      <4> QED BY <4>1, IdsAreNat DEF IsMap
    <3>5. drain \subseteq Ids /\ 0 \notin drain
      BY <1>0
    <3> QED BY <1>0, <1>4, <1>6, <1>9, <3>1, <3>2, <3>3, <3>4, <3>5
      DEF TicketsOnce, Once, Apart, Aside
  <2> QED BY <2>1, <2>2, <2>3 DEF TicketsInv
<1>15. Control'
  <2>1. pf'.layer = eng.layer => DOMAIN pf'.tk = {}
    BY <1>0, <1>2, <1>7, NoneIsMap DEF NoSet
  <2>2. pf'.layer = 0 => DOMAIN pf'.tk = {}
    BY <1>7 DEF IInv, Control, Empty
  <2>3. eng'.tiles # <<>>
    BY <1>0, <1>6 DEF IInv, Control
  <2> QED BY <1>4, <1>6, <1>9, <2>1, <2>2, <2>3
    DEF Control, DueFree, DueTaken, IntoFree, Before, After, Empty
<1>16. Coverage'
  BY <1>3, <1>4, <1>6, <1>9 DEF Coverage, After
<1>17. PlainReads'
  BY <1>0, <1>2 DEF IInv, PlainReads, Into
<1>18. ASSUME ~strayed' PROVE SInv'
  <2>1. SInv /\ (sweeps => ~StraysByAbort(stale, 0))
    BY <1>2, <1>18 DEF IInv
  <2> DEFINE ks == IF sweeps THEN stale ELSE {}
  <2>2. \A j \in DOMAIN reads : Into(j) => reads[j].key \notin ks
    <3>1. \A j \in DOMAIN reads : j # 0
      BY IdsAreNat DEF IInv, TypeInv, ReadsTyped
    <3> QED BY <2>1, <3>1 DEF StraysByAbort
  <2>3. LeasesRight'
    BY <1>4, <1>6, <1>10, <1>12 DEF LeasesRight, Key, Resident, Own, InSlot
  <2>4. \A j \in DOMAIN reads : HeldAt(j) => HeldAt(j)'
    BY <1>4, <1>7, <1>8, <1>9 DEF HeldAt
  <2>5. \A k \in DOMAIN pool'.map : bytes[pool'.map[k]] = k
    BY <1>12, <2>1 DEF SInv, BytesRight, Resident
  <2>6. \A j \in DOMAIN reads : Into(j) => j \notin drain' /\ HeldAt(j)'
    BY <1>0, <2>1, <2>4 DEF SInv, ReadsReserved
  <2>7. PICK s : s = ks
    OBVIOUS
  <2>8. DOMAIN pool'.pending = DOMAIN pool.pending \ s
    BY <1>12, <2>7
  <2>9. \A j \in DOMAIN reads : Into(j) => reads[j].key \notin s
    BY <2>2, <2>7
  <2> HIDE DEF ks
  <2> QED BY <1>0, <1>12, <2>1, <2>3, <2>5, <2>6, <2>8, <2>9, SoundDrops
<1> QED BY <1>11, <1>13, <1>14, <1>15, <1>16, <1>17, <1>18 DEF IInv

\* The end of a pass on an error: every ticket is dropped.
LEMMA AllDropped ==
  ASSUME IInv, eng.pc # "boot", UNCHANGED <<cfg, bytes>>,
         reads' = Cancelled(Held), pf' = NoSet, tile' = NoTile,
         eng' = [eng EXCEPT !.pc = "idle", !.tiles = <<>>, !.fan = None],
         drain' \subseteq Ids,
         PoolOk(pool'), pool'.map = pool.map,
         DOMAIN pool'.pending \subseteq DOMAIN pool.pending,
         ~cfg.intoSlot => ~strayed',
         ~strayed' => /\ SInv /\ DOMAIN pool'.pending = {}
                      /\ \A i \in DOMAIN reads : Into(i) => ~Reading(i)
  PROVE  IInv'
<1>1. /\ eng'.pc = "idle" /\ eng'.layer = eng.layer /\ eng'.tiles = <<>> /\ eng'.fan = None
      /\ eng' = [pc |-> eng'.pc, pass |-> eng'.pass, layer |-> eng'.layer,
                 tiles |-> eng'.tiles, fan |-> eng'.fan]
  BY DEF IInv, TypeInv, EngTyped
<1>2. /\ pf'.layer = 0 /\ pf'.tk = None /\ pf' = [layer |-> pf'.layer, tk |-> pf'.tk]
  BY DEF NoSet
<1>3. /\ tile'.route = {} /\ tile'.due = None /\ tile'.losers = None /\ tile'.into = None
      /\ tile'.demand = 0 /\ tile'.misses = {} /\ tile'.failed = FALSE /\ tile'.alone = FALSE
      /\ tile'.lease = None /\ tile'.admit = {} /\ tile'.todo = {}
      /\ tile' = [route |-> tile'.route, due |-> tile'.due, todo |-> tile'.todo,
           losers |-> tile'.losers, into |-> tile'.into, demand |-> tile'.demand,
           misses |-> tile'.misses, failed |-> tile'.failed, alone |-> tile'.alone,
           lease |-> tile'.lease, retained |-> tile'.retained, admit |-> tile'.admit]
  BY DEF NoTile
<1>4. DOMAIN None = {}
  BY NoneIsMap
<1>5. PICK r : r = reads'
  OBVIOUS
<1>6. PICK ids : ids = Held
  OBVIOUS
<1>7. /\ DOMAIN r = {i \in DOMAIN reads : i \in ids => Reading(i)}
      /\ r \in [DOMAIN r -> ReadType] /\ DOMAIN r \subseteq Ids
      /\ \A j \in DOMAIN r : r[j] = reads[j]
  <2>1. ReadsTyped /\ r = Cancelled(ids)
    BY <1>5, <1>6 DEF IInv, TypeInv
  <2> QED BY <2>1, CancelledReads, ZenonT(60)
<1>8. TypeInv'
  <2>1. ReadsTyped'
    BY <1>5, <1>7 DEF ReadsTyped
  <2>2. EngTyped'
    <3>1. <<>> \in Seq(SUBSET Experts) /\ IsMap(None, Experts, Ids)
      BY NoneIsMap
    <3> QED BY <1>1, <3>1 DEF IInv, TypeInv, EngTyped
  <2>3. PfTyped'
    BY <1>2, NoneIsMap, LayerNumbers DEF PfTyped
  <2>4. TileTyped'
    <3>1. IsMap(None, Experts, Ids) /\ IsMap(None, Experts, [slot : 0..NSlots, key : Tag])
      BY NoneIsMap
    <3> QED BY <1>3, <3>1 DEF TileTyped
  <2> QED BY <2>1, <2>2, <2>3, <2>4 DEF TypeInv
<1>9. PInv'
  BY <1>1 DEF IInv, PInv, PlainPool
<1>10. TicketsInv'
  <2>1. /\ DOMAIN pf'.tk = {} /\ DOMAIN tile'.due = {} /\ DOMAIN tile'.losers = {}
        /\ DOMAIN tile'.into = {} /\ DOMAIN eng'.fan = {} /\ tile'.demand = 0
        /\ 0 \notin drain'
    BY <1>1, <1>2, <1>3, <1>4, IdsAreNat
  <2>2. TicketsKnown'
    BY <2>1 DEF TicketsKnown, Known
  <2>3. TicketsLabelled'
    BY <2>1 DEF TicketsLabelled
  <2>4. TicketsOnce'
    BY <2>1 DEF TicketsOnce, Once, Apart, Aside
  <2> QED BY <2>2, <2>3, <2>4 DEF TicketsInv
<1>11. Control' /\ Coverage'
  BY <1>1, <1>2, <1>3, <1>4
  DEF Control, Coverage, DueFree, DueTaken, IntoFree, Before, After, Empty
<1>12. PlainReads'
  BY <1>5, <1>7 DEF IInv, PlainReads, Into
<1>13. ASSUME ~strayed' PROVE SInv'
  <2>1. \A i \in DOMAIN reads : Into(i) => i \in ids
    BY <1>6, <1>13 DEF SInv, ReadsReserved, HeldAt, Held, Range
  <2>2. \A i \in DOMAIN reads' : ~(reads'[i].slot # 0)
    BY <1>5, <1>7, <1>13, <2>1 DEF Into
  <2>3. ReadsReserved' /\ ReadsDistinct' /\ ReservationsRead'
    BY <1>13, <2>2 DEF ReadsReserved, ReadsDistinct, ReservationsRead, Into
  <2>4. BytesRight'
    BY <1>13, <2>2 DEF SInv, BytesRight, Resident, Into
  <2>5. LeasesRight'
    BY <1>3, <1>4 DEF LeasesRight
  <2> QED BY <2>3, <2>4, <2>5 DEF SInv
<1> QED BY <1>8, <1>9, <1>10, <1>11, <1>12, <1>13 DEF IInv

\* Dropping tickets strays nothing without reads into slots.
LEMMA PlainStrays ==
  ASSUME IInv, ~cfg.intoSlot, NEW ids, ids \subseteq Held
  PROVE  ~Strays(ids)
<1>1. \A i \in Held : i \in DOMAIN reads
  BY DEF IInv, TicketsInv, TicketsKnown, Known, Held, Range
<1> QED BY <1>1 DEF Strays, IInv, PlainReads

LEMMA KernelFailsKeeps ==
  ASSUME IInv, KernelFails PROVE IInv'
<1>1. /\ eng.pc = "kernel" /\ UNCHANGED <<cfg, pool, bytes>>
      /\ reads' = Cancelled(Held) /\ pf' = NoSet /\ tile' = NoTile
      /\ eng' = [eng EXCEPT !.pc = "idle", !.tiles = <<>>, !.fan = None]
      /\ strayed' = (strayed \/ Strays(Range(pf.tk)))
      /\ drain' = Draining(Range(pf.tk))
  BY DEF KernelFails, At
<1>2. Range(pf.tk) \subseteq Held /\ Range(pf.tk) \subseteq Ids
  <2>1. Range(pf.tk) \subseteq Held
    BY DEF Held
  <2>2. Range(pf.tk) \subseteq Ids
    BY DEF Range, IInv, TypeInv, PfTyped, IsMap
  <2> QED BY <2>1, <2>2
<1>3. drain' \subseteq Ids
  BY <1>1, <1>2 DEF Draining
<1>4. ~cfg.intoSlot => ~strayed'
  BY <1>1, <1>2, PlainStrays DEF IInv, PlainReads
<1>5. DOMAIN tile.due = {} /\ DOMAIN tile.losers = {} /\ DOMAIN tile.into = {}
  BY <1>1 DEF IInv, Control, DueFree, IntoFree, After, Empty
<1>6. ASSUME ~strayed' PROVE /\ SInv /\ DOMAIN pool'.pending = {}
                             /\ \A i \in DOMAIN reads : Into(i) => ~Reading(i)
  <2>1. SInv /\ ~Strays(Range(pf.tk))
    BY <1>1, <1>6 DEF IInv
  <2>2. \A i \in DOMAIN reads : ~Into(i)
    <3>1. ASSUME NEW i \in DOMAIN reads, Into(i) PROVE FALSE
      <4>1. i \in Range(pf.tk) /\ reads[i].key \in DOMAIN pool.pending
        BY <1>5, <2>1, <3>1 DEF SInv, ReadsReserved, HeldAt, Range
      <4> QED BY <2>1, <3>1, <4>1 DEF Strays
    <3> QED BY <3>1
  <2>3. DOMAIN pool.pending = {}
    BY <2>1, <2>2 DEF SInv, ReservationsRead
  <2> QED BY <1>1, <2>1, <2>2, <2>3
<1>7. PoolOk(pool') /\ pool'.map = pool.map /\ DOMAIN pool'.pending \subseteq DOMAIN pool.pending
  BY <1>1 DEF IInv, PInv
<1>8. eng.pc # "boot" /\ UNCHANGED <<cfg, bytes>>
  BY <1>1
<1> QED BY <1>1, <1>3, <1>4, <1>6, <1>7, <1>8, AllDropped

\* All experts of a failed tile are given up with their reservations.
LEMMA FailsKeeps ==
  ASSUME IInv, eng.pc # "boot", drain = {}, Fails(Held), pool' = pool PROVE IInv'
<1>1. /\ UNCHANGED <<cfg, bytes>> /\ drain' \subseteq Ids
      /\ reads' = Cancelled(Held) /\ pf' = NoSet /\ tile' = NoTile
      /\ eng' = [eng EXCEPT !.pc = "idle", !.tiles = <<>>, !.fan = None]
      /\ strayed' = (strayed \/ Strays(Held))
  BY DEF Fails
<1>2. ~cfg.intoSlot => ~strayed'
  BY <1>1, PlainStrays DEF IInv, PlainReads
<1>3. ASSUME ~strayed' PROVE /\ SInv /\ DOMAIN pool'.pending = {}
                             /\ \A i \in DOMAIN reads : Into(i) => ~Reading(i)
  <2>1. SInv /\ ~Strays(Held)
    BY <1>1, <1>3 DEF IInv
  <2>2. \A i \in DOMAIN reads : ~Into(i)
    <3>1. ASSUME NEW i \in DOMAIN reads, Into(i) PROVE FALSE
      <4>1. i \in Held /\ reads[i].key \in DOMAIN pool.pending
        BY <2>1, <3>1 DEF SInv, ReadsReserved, HeldAt, Range, Held
      <4> QED BY <2>1, <3>1, <4>1 DEF Strays
    <3> QED BY <3>1
  <2>3. DOMAIN pool.pending = {}
    BY <2>1, <2>2 DEF SInv, ReservationsRead
  <2> QED BY <2>1, <2>2, <2>3
<1>4. PoolOk(pool') /\ pool'.map = pool.map /\ DOMAIN pool'.pending \subseteq DOMAIN pool.pending
  BY DEF IInv, PInv
<1> QED BY <1>1, <1>2, <1>3, <1>4, AllDropped

-----------------------------------------------------------------------------
(* Tickets that are waited for.                                              *)

\* The first ticket of a set that is not empty.
LEMMA FirstTicket ==
  ASSUME NEW f, IsMap(f, Experts, Ids), f # None, NEW e, e = Min(DOMAIN f)
  PROVE  e \in DOMAIN f /\ e \in Experts /\ f[e] \in Ids
<1>1. DOMAIN f \subseteq Experts /\ \A d \in DOMAIN f : f[d] \in Ids
  BY DEF IsMap
<1>2. DOMAIN f # {}
  BY EmptyIsNone
<1>3. e \in DOMAIN f
  <2>1. PICK T : T = DOMAIN f
    OBVIOUS
  <2>2. T \subseteq Experts /\ T # {} /\ e = Min(T)
    BY <1>1, <1>2, <2>1
  <2>3. e \in T
    BY <2>2, LeastExpert
  <2> QED BY <2>1, <2>3
<1> QED BY <1>1, <1>3

LEMMA ForgetDrops ==
  ASSUME ReadsTyped, NEW i, NEW r, r = Forget(i)
  PROVE  /\ DOMAIN r = DOMAIN reads \ {i} /\ DOMAIN r \subseteq Ids
         /\ r \in [DOMAIN r -> ReadType] /\ \A j \in DOMAIN r : r[j] = reads[j]
<1> DEFINE S == DOMAIN reads \ {i}
<1>1. r = [j \in S |-> reads[j]]
  BY DEF Forget, Restrict
<1>2. S \subseteq DOMAIN reads
  OBVIOUS
<1>3. DOMAIN r = S /\ \A j \in S : r[j] = reads[j]
  BY <1>1
<1>4. r \in [DOMAIN r -> ReadType]
  BY <1>1, <1>2 DEF ReadsTyped
<1> QED BY <1>2, <1>3, <1>4 DEF ReadsTyped

LEMMA DrainLoserKeeps ==
  ASSUME IInv, DrainLoser PROVE IInv'
<1>0. /\ eng.pc = "losers" /\ drain = {} /\ tile.losers # None /\ eng' = eng
      /\ UNCHANGED <<cfg, bytes, drain, pf>>
  BY DEF DrainLoser, At
<1>e. PICK e : e = Min(DOMAIN tile.losers)
  OBVIOUS
<1>i. PICK i : i = tile.losers[e]
  OBVIOUS
<1>k. PICK k : k = Key(e)
  OBVIOUS
<1>1. e \in DOMAIN tile.losers /\ i \in Ids /\ i \in DOMAIN reads /\ reads[i].key = k
  <2>1. IsMap(tile.losers, Experts, Ids)
    BY DEF IInv, TypeInv, TileTyped
  <2>2. e \in DOMAIN tile.losers /\ tile.losers[e] \in Ids
    BY <1>0, <1>e, <2>1, FirstTicket
  <2> QED BY <1>i, <1>k, <2>2 DEF IInv, TicketsInv, TicketsKnown, TicketsLabelled, Known
<1>2. /\ reads' = (IF Reading(i) THEN reads ELSE Forget(i))
      /\ tile' = [tile EXCEPT !.losers = Restrict(@, DOMAIN @ \ {e})]
      /\ pool' = AbortPending(pool, {k})
      /\ strayed' = (strayed \/ StraysByAbort({k}, i))
  BY <1>e, <1>i, <1>k DEF DrainLoser
<1>3. PICK g : /\ g = Restrict(tile.losers, DOMAIN tile.losers \ {e})
               /\ IsMap(g, Experts, Ids) /\ DOMAIN g = DOMAIN tile.losers \ {e}
               /\ \A d \in DOMAIN g : g[d] = tile.losers[d]
  BY RestrictIsMap DEF IInv, TypeInv, TileTyped
<1>4. /\ tile'.route = tile.route /\ tile'.due = tile.due /\ tile'.losers = g
      /\ tile'.into = tile.into /\ tile'.demand = tile.demand /\ tile'.misses = tile.misses
      /\ tile'.failed = tile.failed /\ tile'.alone = tile.alone /\ tile'.lease = tile.lease
      /\ tile'.admit = tile.admit /\ tile'.todo = tile.todo
      /\ tile' = [route |-> tile'.route, due |-> tile'.due, todo |-> tile'.todo,
           losers |-> tile'.losers, into |-> tile'.into, demand |-> tile'.demand,
           misses |-> tile'.misses, failed |-> tile'.failed, alone |-> tile'.alone,
           lease |-> tile'.lease, retained |-> tile'.retained, admit |-> tile'.admit]
  BY <1>2, <1>3 DEF IInv, TypeInv, TileTyped
<1>5. /\ DOMAIN reads' = (IF Reading(i) THEN DOMAIN reads ELSE DOMAIN reads \ {i})
      /\ DOMAIN reads' \subseteq Ids
      /\ reads' \in [DOMAIN reads' -> ReadType] /\ \A j \in DOMAIN reads' : reads'[j] = reads[j]
  <2>1. CASE Reading(i)
    BY <1>2, <2>1 DEF IInv, TypeInv, ReadsTyped
  <2>2. CASE ~Reading(i)
    <3>1. PICK r : r = reads'
      OBVIOUS
    <3>2. r = Forget(i) /\ ReadsTyped
      BY <1>2, <2>2, <3>1 DEF IInv, TypeInv
    <3>3. /\ DOMAIN r = DOMAIN reads \ {i} /\ DOMAIN r \subseteq Ids
          /\ r \in [DOMAIN r -> ReadType] /\ \A j \in DOMAIN r : r[j] = reads[j]
      BY <3>2, ForgetDrops
    <3> QED BY <2>2, <3>1, <3>3
  <2> QED BY <2>1, <2>2
<1>6. TypeInv'
  <2>1. ReadsTyped' /\ EngTyped' /\ PfTyped'
    BY <1>0, <1>5 DEF IInv, TypeInv, ReadsTyped, EngTyped, PfTyped
  <2>2. TileTyped'
    BY <1>3, <1>4 DEF IInv, TypeInv, TileTyped
  <2> QED BY <2>1, <2>2 DEF TypeInv
<1>7. /\ PoolOk(pool') /\ pool'.map = pool.map
      /\ DOMAIN pool'.pending = DOMAIN pool.pending \ {k}
      /\ \A d \in DOMAIN pool'.pending : pool'.pending[d] = pool.pending[d]
  <2>1. PoolOk(pool)
    BY DEF IInv, PInv
  <2>2. PICK s : s = {k}
    OBVIOUS
  <2>3. pool' = AbortPending(pool, s)
    BY <1>2, <2>2
  <2>4. /\ PoolOk(pool') /\ pool'.map = pool.map
        /\ DOMAIN pool'.pending = DOMAIN pool.pending \ s
        /\ \A d \in DOMAIN pool'.pending : pool'.pending[d] = pool.pending[d]
    BY <2>1, <2>3, AbortKeeps
  <2> QED BY <2>2, <2>4
<1>8. PInv'
  BY <1>0, <1>7 DEF IInv, PInv, PlainPool
<1>9. i \notin Held'
  <2>3. \A j \in Range(g) : \E d \in DOMAIN tile.losers : d # e /\ tile.losers[d] = j
    BY <1>3 DEF Range
  <2>4. \A j \in Held' : \/ \E d \in DOMAIN pf.tk : pf.tk[d] = j
                         \/ \E d \in DOMAIN tile.due : tile.due[d] = j
                         \/ j \in Range(g)
                         \/ \E d \in DOMAIN tile.into : tile.into[d] = j
                         \/ \E d \in DOMAIN eng.fan : eng.fan[d] = j
                         \/ j = tile.demand
    BY <1>0, <1>4 DEF Held, Range
  <2>1. \A j \in Held' : \/ \E d \in DOMAIN pf.tk : pf.tk[d] = j
                         \/ \E d \in DOMAIN tile.due : tile.due[d] = j
                         \/ \E d \in DOMAIN tile.losers : d # e /\ tile.losers[d] = j
                         \/ \E d \in DOMAIN tile.into : tile.into[d] = j
                         \/ \E d \in DOMAIN eng.fan : eng.fan[d] = j
                         \/ j = tile.demand
    BY <2>3, <2>4
  <2>2. TicketsOnce
    BY DEF IInv, TicketsInv
  <2> QED BY <1>1, <1>i, <2>1, <2>2 DEF TicketsOnce, Once, Apart, Aside
<1>10. TicketsInv'
  <2>1. \A j \in Held' : j \in DOMAIN reads => j \in DOMAIN reads' /\ reads'[j] = reads[j]
    BY <1>5, <1>9
  <2>2. drain' \cap Held' = {} /\ drain' \subseteq Ids
    BY <1>0
  <2> QED BY <1>0, <1>3, <1>4, <2>1, <2>2, TicketsStay DEF IInv, TypeInv, Sub
<1>11. Control'
  BY <1>0, <1>3, <1>4 DEF IInv, Control, DueFree, DueTaken, IntoFree, Before, After, Empty
<1>12. Coverage'
  BY <1>0, <1>3, <1>4 DEF IInv, Coverage, After
<1>13. PlainReads'
  BY <1>2, <1>5 DEF StraysByAbort, IInv, PlainReads, Into, DrainLoser
<1>14. ASSUME ~strayed' PROVE SInv'
  <2>1. SInv /\ ~StraysByAbort({k}, i)
    BY <1>2, <1>14 DEF IInv
  <2>2. \A j \in DOMAIN reads : Into(j) =>
          reads[j].key \in DOMAIN pool.pending /\ HeldAt(j)
    BY <2>1 DEF SInv, ReadsReserved
  <2>3. \A j \in DOMAIN reads : Into(j) /\ reads[j].key = k => j = i /\ ~Reading(i)
    BY <2>1, <2>2 DEF StraysByAbort
  <2>4. Into(i) => ~Reading(i)
    BY <1>1, <2>3
  <2>5. \A j \in DOMAIN reads : HeldAt(j) => j = i \/ HeldAt(j)'
    BY <1>0, <1>3, <1>4, <1>i DEF HeldAt
  <2>6. ASSUME NEW j \in DOMAIN reads, Into(j)
        PROVE  \/ reads[j].key \in {k} /\ j \notin DOMAIN reads'
               \/ /\ reads[j].key \notin {k} /\ j \in DOMAIN reads'
                  /\ j \notin drain' /\ HeldAt(j)'
    <3>1. CASE j = i
      BY <1>1, <1>5, <2>4, <2>6, <3>1
    <3>2. CASE j # i
      BY <1>0, <1>5, <2>2, <2>3, <2>5, <2>6, <3>2
    <3> QED BY <3>1, <3>2
  <2>7. LeasesRight'
    BY <1>0, <1>4, <1>7, <2>1 DEF SInv, LeasesRight, Key, Resident
  <2>8. \A d \in DOMAIN pool'.map : bytes[pool'.map[d]] = d
    BY <1>7, <2>1 DEF SInv, BytesRight, Resident
  <2>9. DOMAIN reads' \subseteq DOMAIN reads
    BY <1>5
  <2>10. PICK s : s = {k}
    OBVIOUS
  <2>11. /\ DOMAIN pool'.pending = DOMAIN pool.pending \ s
         /\ \A j \in DOMAIN reads : Into(j) =>
              \/ reads[j].key \in s /\ j \notin DOMAIN reads'
              \/ /\ reads[j].key \notin s /\ j \in DOMAIN reads'
                 /\ j \notin drain' /\ HeldAt(j)'
    BY <1>7, <2>6, <2>10
  <2> QED BY <1>0, <1>5, <1>7, <2>1, <2>7, <2>8, <2>9, <2>11, SoundDrops
<1> QED BY <1>6, <1>8, <1>10, <1>11, <1>12, <1>13, <1>14 DEF IInv

\* A claimed hit: it is leased and its reservation published, or the whole
\* union will be read again.
LEMMA WaitHitKeeps ==
  ASSUME IInv, WaitHit PROVE IInv'
<1>0. /\ eng.pc = "losers" /\ drain = {} /\ tile.losers = None /\ tile.due # None /\ eng' = eng
      /\ UNCHANGED <<cfg, bytes, drain, pf>>
  BY DEF WaitHit, At
<1>e. PICK e : e = Min(DOMAIN tile.due)
  OBVIOUS
<1>i. PICK i : i = tile.due[e]
  OBVIOUS
<1>k. PICK k : k = Key(e)
  OBVIOUS
<1>x. PICK x : x = IF Into(i) THEN InSlot(reads[i].slot) ELSE Own(e)
  OBVIOUS
<1>1. /\ e \in DOMAIN tile.due /\ e \in Experts /\ i \in Ids /\ i \in DOMAIN reads
      /\ reads[i].key = k
  <2>1. IsMap(tile.due, Experts, Ids)
    BY DEF IInv, TypeInv, TileTyped
  <2>2. e \in DOMAIN tile.due /\ e \in Experts /\ tile.due[e] \in Ids
    BY <1>0, <1>e, <2>1, FirstTicket
  <2> QED BY <1>i, <1>k, <2>2 DEF IInv, TicketsInv, TicketsKnown, TicketsLabelled, Known
<1>2. PICK ok \in BOOLEAN :
        /\ ok = (reads[i].st = "done")
        /\ reads' = Forget(i)
        /\ pool' = IF ok THEN PublishPending(pool, k) ELSE pool
        /\ strayed' = (strayed \/ (~ok /\ k \in DOMAIN pool.pending))
        /\ tile' = [tile EXCEPT !.due = Restrict(@, DOMAIN @ \ {e}),
                       !.failed = @ \/ ~ok,
                       !.admit = IF ok THEN @ \cup {e} ELSE @,
                       !.lease = IF ok THEN Put(@, e, x) ELSE @]
  <2>1. (reads[i].st = "done") \in BOOLEAN
    OBVIOUS
  <2> QED BY <1>e, <1>i, <1>k, <1>x, <2>1 DEF WaitHit
<1>3. PICK g : /\ g = Restrict(tile.due, DOMAIN tile.due \ {e})
               /\ IsMap(g, Experts, Ids) /\ DOMAIN g = DOMAIN tile.due \ {e}
               /\ \A d \in DOMAIN g : g[d] = tile.due[d]
  BY RestrictIsMap DEF IInv, TypeInv, TileTyped
<1>4. PICK le : le = IF ok THEN Put(tile.lease, e, x) ELSE tile.lease
  OBVIOUS
<1>5. PICK ad : ad = IF ok THEN tile.admit \cup {e} ELSE tile.admit
  OBVIOUS
<1>6. PICK fa : fa = (tile.failed \/ ~ok)
  OBVIOUS
<1>7. /\ tile'.route = tile.route /\ tile'.due = g /\ tile'.losers = tile.losers
      /\ tile'.into = tile.into /\ tile'.demand = tile.demand /\ tile'.misses = tile.misses
      /\ tile'.failed = fa /\ tile'.alone = tile.alone /\ tile'.lease = le
      /\ tile'.admit = ad /\ tile'.todo = tile.todo
      /\ tile' = [route |-> tile'.route, due |-> tile'.due, todo |-> tile'.todo,
           losers |-> tile'.losers, into |-> tile'.into, demand |-> tile'.demand,
           misses |-> tile'.misses, failed |-> tile'.failed, alone |-> tile'.alone,
           lease |-> tile'.lease, retained |-> tile'.retained, admit |-> tile'.admit]
  <2>1. tile' = [tile EXCEPT !.due = g, !.failed = fa, !.admit = ad, !.lease = le]
    BY <1>2, <1>3, <1>4, <1>5, <1>6
  <2> QED BY <2>1 DEF IInv, TypeInv, TileTyped
<1>8. x \in [slot : 0..NSlots, key : Tag]
  <2>1. CASE Into(i)
    <3>1. reads[i].slot \in 0..NSlots
      BY <1>1 DEF IInv, TypeInv, ReadsTyped, ReadType
    <3>2. Torn \in Tag
      BY LayerNumbers DEF Torn, Tag
    <3> QED BY <1>x, <2>1, <3>1, <3>2 DEF InSlot
  <2>2. CASE ~Into(i)
    <3>1. 0 \in 0..NSlots
      <4>1. NSlots \in Nat
        BY CacheAssumption
      <4> QED BY <4>1
    <3>2. Key(e) \in Tag
      BY <1>1 DEF Key, Tag, IInv, TypeInv, EngTyped
    <3> QED BY <1>x, <2>2, <3>1, <3>2 DEF Own
  <2> QED BY <2>1, <2>2
<1>9. /\ IsMap(le, Experts, [slot : 0..NSlots, key : Tag])
      /\ ~ok => le = tile.lease
      /\ ok => /\ DOMAIN le = DOMAIN tile.lease \cup {e} /\ le[e] = x
               /\ \A d \in DOMAIN tile.lease : d # e => le[d] = tile.lease[d]
  <2>1. PICK f : f = tile.lease
    OBVIOUS
  <2>2. PICK V : V = [slot : 0..NSlots, key : Tag]
    OBVIOUS
  <2>3. IsMap(f, Experts, V) /\ x \in V
    BY <1>8, <2>1, <2>2 DEF IInv, TypeInv, TileTyped
  <2>4. /\ IsMap(Put(f, e, x), Experts, V) /\ DOMAIN Put(f, e, x) = DOMAIN f \cup {e}
        /\ Put(f, e, x)[e] = x /\ \A d \in DOMAIN f : d # e => Put(f, e, x)[d] = f[d]
    <3>1. e \in Experts
      BY <1>1
    <3> QED BY <2>3, <3>1, PutIsMap
  <2> QED BY <1>4, <2>1, <2>2, <2>3, <2>4
<1>10. /\ DOMAIN reads' = DOMAIN reads \ {i} /\ DOMAIN reads' \subseteq Ids
       /\ reads' \in [DOMAIN reads' -> ReadType] /\ \A j \in DOMAIN reads' : reads'[j] = reads[j]
  <2>1. PICK r : r = reads'
    OBVIOUS
  <2>2. r = Forget(i) /\ ReadsTyped
    BY <1>2, <2>1 DEF IInv, TypeInv
  <2>3. /\ DOMAIN r = DOMAIN reads \ {i} /\ DOMAIN r \subseteq Ids
        /\ r \in [DOMAIN r -> ReadType] /\ \A j \in DOMAIN r : r[j] = reads[j]
    BY <2>2, ForgetDrops
  <2> QED BY <2>1, <2>3
<1>11. TypeInv'
  <2>1. ReadsTyped' /\ EngTyped' /\ PfTyped'
    BY <1>0, <1>10 DEF IInv, TypeInv, ReadsTyped, EngTyped, PfTyped
  <2>2. ad \subseteq Experts /\ fa \in BOOLEAN
    BY <1>1, <1>5, <1>6 DEF IInv, TypeInv, TileTyped
  <2>3. TileTyped'
    BY <1>3, <1>7, <1>9, <2>2 DEF IInv, TypeInv, TileTyped
  <2> QED BY <2>1, <2>3 DEF TypeInv
<1>12. /\ PoolOk(pool') /\ DOMAIN pool'.pending \subseteq DOMAIN pool.pending
       /\ ~ok => pool' = pool
       /\ k \notin DOMAIN pool.pending => pool' = pool
       /\ ok /\ k \in DOMAIN pool.pending =>
            /\ DOMAIN pool'.map = DOMAIN pool.map \cup {k} /\ pool'.map[k] = pool.pending[k]
            /\ \A d \in DOMAIN pool.map : pool'.map[d] = pool.map[d]
            /\ DOMAIN pool'.pending = DOMAIN pool.pending \ {k}
            /\ \A d \in DOMAIN pool'.pending : pool'.pending[d] = pool.pending[d]
  <2>1. PoolOk(pool)
    BY DEF IInv, PInv
  <2>2. CASE ok
    BY <1>2, <2>1, <2>2, PublishKeeps
  <2>3. CASE ~ok
    BY <1>2, <2>1, <2>3
  <2> QED BY <1>2, <2>2, <2>3
<1>13. PInv'
  BY <1>0, <1>12 DEF IInv, PInv, PlainPool
<1>14. i \notin Held'
  <2>1. \A j \in Range(g) : \E d \in DOMAIN tile.due : d # e /\ tile.due[d] = j
    BY <1>3 DEF Range
  <2>2. \A j \in Held' : \/ \E d \in DOMAIN pf.tk : pf.tk[d] = j
                         \/ j \in Range(g)
                         \/ \E d \in DOMAIN tile.losers : tile.losers[d] = j
                         \/ \E d \in DOMAIN tile.into : tile.into[d] = j
                         \/ \E d \in DOMAIN eng.fan : eng.fan[d] = j
                         \/ j = tile.demand
    BY <1>0, <1>7 DEF Held, Range
  <2>3. TicketsOnce
    BY DEF IInv, TicketsInv
  <2> QED BY <1>1, <1>i, <2>1, <2>2, <2>3 DEF TicketsOnce, Once, Apart, Aside
<1>15. TicketsInv'
  <2>1. \A j \in Held' : j \in DOMAIN reads => j \in DOMAIN reads' /\ reads'[j] = reads[j]
    BY <1>10, <1>14
  <2>2. drain' \cap Held' = {} /\ drain' \subseteq Ids
    BY <1>0
  <2> QED BY <1>0, <1>3, <1>7, <2>1, <2>2, TicketsStay DEF IInv, TypeInv, Sub
<1>16. Control'
  BY <1>0, <1>3, <1>7 DEF IInv, Control, DueFree, DueTaken, IntoFree, Before, After, Empty
<1>17. Coverage'
  <2>1. CASE ok
    BY <1>0, <1>1, <1>3, <1>6, <1>7, <1>9, <2>1, ZenonT(60) DEF IInv, Coverage, After
  <2>2. CASE ~ok
    BY <1>0, <1>1, <1>3, <1>6, <1>7, <1>9, <2>2 DEF IInv, Coverage, After
  <2> QED BY <1>2, <2>1, <2>2
<1>18. PlainReads'
  BY <1>0, <1>2, <1>10 DEF IInv, PInv, PlainPool, PlainReads, Into
<1>19. ASSUME ~strayed' PROVE SInv'
  <2>1. SInv /\ (k \in DOMAIN pool.pending => ok)
    BY <1>2, <1>19 DEF IInv
  <2>2. \A j \in DOMAIN reads : Into(j) =>
          reads[j].key \in DOMAIN pool.pending /\ HeldAt(j)
           /\ pool.pending[reads[j].key] = reads[j].slot
    BY <2>1 DEF SInv, ReadsReserved
  <2>3. ASSUME NEW j \in DOMAIN reads, Into(j), reads[j].key = k PROVE j = i
    <3>0. TicketsLabelled /\ k = <<eng.layer, e>>
      BY <1>k DEF IInv, TicketsInv, Key
    <3>1. CASE \E d \in DOMAIN pf.tk : pf.tk[d] = j
      <4>1. pf.layer = eng.layer
        BY <2>3, <3>0, <3>1 DEF TicketsLabelled
      <4> QED BY <1>0, <3>1, <4>1 DEF IInv, Control, DueTaken, Empty
    <3>2. CASE \E d \in DOMAIN tile.due : tile.due[d] = j
      <4>1. PICK d \in DOMAIN tile.due : tile.due[d] = j
        BY <3>2
      <4>2. <<eng.layer, d>> = <<eng.layer, e>>
        BY <2>3, <3>0, <4>1 DEF TicketsLabelled, Key
      <4> QED BY <1>i, <4>1, <4>2
    <3>3. CASE \E d \in DOMAIN tile.losers : tile.losers[d] = j
      BY <1>0, <3>3, NoneIsMap
    <3>4. CASE \E d \in DOMAIN tile.into : tile.into[d] = j
      <4>1. PICK d \in DOMAIN tile.into : tile.into[d] = j
        BY <3>4
      <4>2. <<eng.layer, d>> = <<eng.layer, e>>
        BY <2>3, <3>0, <4>1 DEF TicketsLabelled, Key
      <4> QED BY <1>0, <1>1, <4>1, <4>2 DEF IInv, Coverage
    <3> QED BY <2>2, <2>3, <3>1, <3>2, <3>3, <3>4 DEF HeldAt
  <2>4. k \in DOMAIN pool.pending => Into(i) /\ pool.pending[k] = reads[i].slot
    BY <1>1, <2>1, <2>2, <2>3 DEF SInv, ReservationsRead
  <2>5. Into(i) => k \in DOMAIN pool.pending
    BY <1>1, <2>2
  <2>6. \A j \in DOMAIN reads : HeldAt(j) => j = i \/ HeldAt(j)'
    BY <1>0, <1>3, <1>7, <1>i DEF HeldAt
  <2>7. \A j \in DOMAIN reads : Into(j) =>
          \/ reads[j].key \in {k} /\ j \notin DOMAIN reads'
          \/ /\ reads[j].key \notin {k} /\ j \in DOMAIN reads'
             /\ j \notin drain' /\ HeldAt(j)'
    BY <1>0, <1>1, <1>10, <2>2, <2>3, <2>6
  <2>8. LeasesRight'
    <3>1. ASSUME NEW d \in DOMAIN le
          PROVE  \/ le[d].slot = 0 /\ le[d].key = Key(d)
                 \/ Key(d) \in DOMAIN pool'.map /\ pool'.map[Key(d)] = le[d].slot
      <4>0. \A q \in Resident : q \in DOMAIN pool'.map /\ pool'.map[q] = pool.map[q]
        BY <1>2, <1>12 DEF Resident
      <4>1. CASE d \in DOMAIN tile.lease /\ le[d] = tile.lease[d]
        BY <2>1, <4>0, <4>1 DEF SInv, LeasesRight
      <4>2. CASE ok /\ d = e /\ le[d] = x
        <5>1. CASE Into(i)
          BY <1>12, <1>k, <1>x, <2>4, <2>5, <4>2, <5>1 DEF InSlot
        <5>2. CASE ~Into(i)
          BY <1>x, <4>2, <5>2 DEF Own
        <5> QED BY <5>1, <5>2
      <4> QED BY <1>9, <3>1, <4>1, <4>2
    <3> QED BY <1>0, <1>7, <3>1 DEF LeasesRight, Key, Resident
  <2>9. \A d \in DOMAIN pool'.map : bytes[pool'.map[d]] = d
    <3>1. Into(i) /\ ok => bytes[reads[i].slot] = k
      BY <1>1, <1>2, <2>1 DEF SInv, BytesRight
    <3>2. \A d \in Resident : bytes[pool.map[d]] = d
      BY <2>1 DEF SInv, BytesRight
    <3>3. CASE k \in DOMAIN pool.pending
      BY <1>12, <2>1, <2>4, <3>1, <3>2, <3>3 DEF Resident
    <3>4. CASE k \notin DOMAIN pool.pending
      BY <1>12, <3>2, <3>4 DEF Resident
    <3> QED BY <3>3, <3>4
  <2>10. PICK s : s = {k}
    OBVIOUS
  <2>11. /\ DOMAIN pool'.pending = DOMAIN pool.pending \ s
         /\ \A d \in DOMAIN pool'.pending : pool'.pending[d] = pool.pending[d]
    <3>1. CASE k \in DOMAIN pool.pending
      BY <1>12, <2>1, <2>10, <3>1
    <3>2. CASE k \notin DOMAIN pool.pending
      BY <1>12, <2>10, <3>2
    <3> QED BY <3>1, <3>2
  <2>12. \A j \in DOMAIN reads : Into(j) =>
           \/ reads[j].key \in s /\ j \notin DOMAIN reads'
           \/ /\ reads[j].key \notin s /\ j \in DOMAIN reads'
              /\ j \notin drain' /\ HeldAt(j)'
    BY <2>7, <2>10
  <2>13. DOMAIN reads' \subseteq DOMAIN reads
    BY <1>10
  <2> QED BY <1>0, <1>10, <2>1, <2>8, <2>9, <2>11, <2>12, <2>13, SoundDrops
<1> QED BY <1>11, <1>13, <1>15, <1>16, <1>17, <1>18, <1>19 DEF IInv

\* What a tile can be served from.
LEMMA SourcesAreTyped ==
  ASSUME ReadsTyped, EngTyped, NEW e \in Experts
  PROVE  /\ Own(e) \in [slot : 0..NSlots, key : Tag]
         /\ \A i \in DOMAIN reads : InSlot(reads[i].slot) \in [slot : 0..NSlots, key : Tag]
<1>1. 0 \in 0..NSlots
  <2>1. NSlots \in Nat
    BY CacheAssumption
  <2> QED BY <2>1
<1>2. Key(e) \in Tag
  BY DEF Key, Tag, EngTyped
<1>3. \A i \in DOMAIN reads : reads[i].slot \in 0..NSlots
  BY DEF ReadsTyped, ReadType
<1>4. Torn \in Tag
  BY LayerNumbers DEF Torn, Tag
<1> QED BY <1>1, <1>2, <1>3, <1>4 DEF Own, InSlot

\* One more expert is leased.
LEMMA LeaseGrows ==
  ASSUME TileTyped, NEW e \in Experts, NEW x \in [slot : 0..NSlots, key : Tag],
         NEW le, le = Put(tile.lease, e, x)
  PROVE  /\ IsMap(le, Experts, [slot : 0..NSlots, key : Tag])
         /\ DOMAIN le = DOMAIN tile.lease \cup {e} /\ le[e] = x
         /\ \A d \in DOMAIN tile.lease : d # e => le[d] = tile.lease[d]
<1>1. PICK f : f = tile.lease
  OBVIOUS
<1>2. PICK V : V = [slot : 0..NSlots, key : Tag]
  OBVIOUS
<1>3. IsMap(f, Experts, V) /\ x \in V /\ le = Put(f, e, x)
  BY <1>1, <1>2 DEF TileTyped
<1>4. /\ IsMap(le, Experts, V) /\ DOMAIN le = DOMAIN f \cup {e} /\ le[e] = x
      /\ \A d \in DOMAIN f : d # e => le[d] = f[d]
  BY <1>3, PutIsMap
<1> QED BY <1>1, <1>2, <1>4

\* The ticket of a read that has ended is forgotten.
LEMMA ForgetStep ==
  ASSUME ReadsTyped, NEW i, reads' = Forget(i)
  PROVE  /\ DOMAIN reads' = DOMAIN reads \ {i} /\ DOMAIN reads' \subseteq Ids
         /\ reads' \in [DOMAIN reads' -> ReadType]
         /\ \A j \in DOMAIN reads' : reads'[j] = reads[j]
<1>1. PICK r : r = reads'
  OBVIOUS
<1>2. /\ DOMAIN r = DOMAIN reads \ {i} /\ DOMAIN r \subseteq Ids
      /\ r \in [DOMAIN r -> ReadType] /\ \A j \in DOMAIN r : r[j] = reads[j]
  BY <1>1, ForgetDrops
<1> QED BY <1>1, <1>2

\* The read of an expert into its slot has ended: the reservation is published
\* and leased, or given back and the expert read again.
LEMMA SlotServedKeeps ==
  ASSUME IInv, eng.pc = "slots", drain = {}, eng' = eng,
         UNCHANGED <<cfg, bytes, drain, pf, strayed>>,
         NEW e \in Experts, e \in DOMAIN tile.into, NEW i, i = tile.into[e], NEW k, k = Key(e),
         NEW x,
         tile' = [tile EXCEPT !.into = Restrict(@, DOMAIN @ \ {e}), !.admit = @ \cup {e},
                              !.lease = Put(@, e, x)],
         reads' = Forget(i),
         \/ reads[i].st = "done" /\ pool' = PublishPending(pool, k) /\ x = InSlot(reads[i].slot)
         \/ reads[i].st = "failed" /\ pool' = AbortPending(pool, {k}) /\ x = Own(e)
  PROVE  IInv'
<1>1. /\ e \in Experts /\ i \in Ids /\ i \in DOMAIN reads /\ reads[i].key = k /\ Into(i)
  <2>1. e \in Experts /\ i \in Ids
    BY DEF IInv, TypeInv, TileTyped, IsMap
  <2> QED BY <2>1 DEF IInv, TicketsInv, TicketsKnown, TicketsLabelled, Known
<1>2. PICK done \in BOOLEAN : done = (reads[i].st = "done")
  OBVIOUS
<1>3. PICK g : /\ g = Restrict(tile.into, DOMAIN tile.into \ {e})
               /\ IsMap(g, Experts, Ids) /\ DOMAIN g = DOMAIN tile.into \ {e}
               /\ \A d \in DOMAIN g : g[d] = tile.into[d]
  BY RestrictIsMap DEF IInv, TypeInv, TileTyped
<1>4. PICK le : le = Put(tile.lease, e, x)
  OBVIOUS
<1>5. PICK ad : ad = tile.admit \cup {e}
  OBVIOUS
<1>7. /\ tile'.route = tile.route /\ tile'.due = tile.due /\ tile'.losers = tile.losers
      /\ tile'.into = g /\ tile'.demand = tile.demand /\ tile'.misses = tile.misses
      /\ tile'.failed = tile.failed /\ tile'.alone = tile.alone /\ tile'.lease = le
      /\ tile'.admit = ad /\ tile'.todo = tile.todo
      /\ tile' = [route |-> tile'.route, due |-> tile'.due, todo |-> tile'.todo,
           losers |-> tile'.losers, into |-> tile'.into, demand |-> tile'.demand,
           misses |-> tile'.misses, failed |-> tile'.failed, alone |-> tile'.alone,
           lease |-> tile'.lease, retained |-> tile'.retained, admit |-> tile'.admit]
  <2>1. tile' = [tile EXCEPT !.into = g, !.admit = ad, !.lease = le]
    BY <1>3, <1>4, <1>5
  <2> QED BY <2>1 DEF IInv, TypeInv, TileTyped
<1>8. x \in [slot : 0..NSlots, key : Tag]
  <2>1. ReadsTyped /\ EngTyped
    BY DEF IInv, TypeInv
  <2>2. /\ Own(e) \in [slot : 0..NSlots, key : Tag]
        /\ InSlot(reads[i].slot) \in [slot : 0..NSlots, key : Tag]
    BY <1>1, <2>1, SourcesAreTyped
  <2> QED BY <2>2
<1>9. /\ IsMap(le, Experts, [slot : 0..NSlots, key : Tag])
      /\ DOMAIN le = DOMAIN tile.lease \cup {e} /\ le[e] = x
      /\ \A d \in DOMAIN tile.lease : d # e => le[d] = tile.lease[d]
  <2>1. TileTyped /\ e \in Experts
    BY <1>1 DEF IInv, TypeInv
  <2>2. IsMap(le, Experts, [slot : 0..NSlots, key : Tag])
    BY <1>4, <1>8, <2>1, LeaseGrows
  <2>3. DOMAIN le = DOMAIN tile.lease \cup {e}
    BY <1>4 DEF Put
  <2>4. le[e] = x
    BY <1>4 DEF Put
  <2>5. \A d \in DOMAIN tile.lease : d # e => le[d] = tile.lease[d]
    BY <1>4 DEF Put
  <2> QED BY <2>2, <2>3, <2>4, <2>5
<1>10. /\ DOMAIN reads' = DOMAIN reads \ {i} /\ DOMAIN reads' \subseteq Ids
       /\ reads' \in [DOMAIN reads' -> ReadType] /\ \A j \in DOMAIN reads' : reads'[j] = reads[j]
  <2>1. ReadsTyped
    BY DEF IInv, TypeInv
  <2> QED BY <2>1, ForgetStep
<1>11. TypeInv'
  <2>1. ReadsTyped' /\ EngTyped' /\ PfTyped'
    BY <1>10 DEF IInv, TypeInv, ReadsTyped, EngTyped, PfTyped
  <2>2. ad \subseteq Experts
    BY <1>1, <1>5 DEF IInv, TypeInv, TileTyped
  <2>3. TileTyped'
    BY <1>3, <1>7, <1>9, <2>2 DEF IInv, TypeInv, TileTyped
  <2> QED BY <2>1, <2>3 DEF TypeInv
<1>12. /\ PoolOk(pool') /\ DOMAIN pool'.pending = DOMAIN pool.pending \ {k}
       /\ \A d \in DOMAIN pool'.pending : pool'.pending[d] = pool.pending[d]
       /\ Resident \subseteq DOMAIN pool'.map
       /\ \A d \in Resident : pool'.map[d] = pool.map[d]
       /\ ~done => DOMAIN pool'.map = Resident
       /\ done /\ k \in DOMAIN pool.pending =>
            DOMAIN pool'.map = Resident \cup {k} /\ pool'.map[k] = pool.pending[k]
  <2>1. PoolOk(pool)
    BY DEF IInv, PInv
  <2>2. CASE done
    <3>1. pool' = PublishPending(pool, k)
      BY <1>2, <2>2
    <3>2. /\ PoolOk(pool')
          /\ k \notin DOMAIN pool.pending => pool' = pool
          /\ k \in DOMAIN pool.pending =>
               /\ DOMAIN pool'.map = DOMAIN pool.map \cup {k} /\ pool'.map[k] = pool.pending[k]
               /\ \A d \in DOMAIN pool.map : pool'.map[d] = pool.map[d]
               /\ DOMAIN pool'.pending = DOMAIN pool.pending \ {k}
               /\ \A d \in DOMAIN pool'.pending : pool'.pending[d] = pool.pending[d]
      BY <2>1, <3>1, PublishKeeps
    <3>3. CASE k \notin DOMAIN pool.pending
      BY <2>2, <3>2, <3>3 DEF Resident
    <3>4. CASE k \in DOMAIN pool.pending
      BY <2>2, <3>2, <3>4 DEF Resident
    <3> QED BY <3>3, <3>4
  <2>3. CASE ~done
    <3>1. PICK s : s = {k}
      OBVIOUS
    <3>2. pool' = AbortPending(pool, s)
      BY <1>2, <2>3, <3>1
    <3>3. /\ PoolOk(pool') /\ pool'.map = pool.map
          /\ DOMAIN pool'.pending = DOMAIN pool.pending \ s
          /\ \A d \in DOMAIN pool'.pending : pool'.pending[d] = pool.pending[d]
      BY <2>1, <3>2, AbortKeeps
    <3> QED BY <2>3, <3>1, <3>3 DEF Resident
  <2> QED BY <1>2, <2>2, <2>3
<1>13. PInv'
  BY <1>12 DEF IInv, PInv, PlainPool
<1>14. i \notin Held'
  <2>1. \A j \in Range(g) : \E d \in DOMAIN tile.into : d # e /\ tile.into[d] = j
    BY <1>3 DEF Range
  <2>2. \A j \in Held' : \/ \E d \in DOMAIN pf.tk : pf.tk[d] = j
                         \/ \E d \in DOMAIN tile.due : tile.due[d] = j
                         \/ \E d \in DOMAIN tile.losers : tile.losers[d] = j
                         \/ j \in Range(g)
                         \/ \E d \in DOMAIN eng.fan : eng.fan[d] = j
                         \/ j = tile.demand
    BY <1>7 DEF Held, Range
  <2>3. TicketsOnce
    BY DEF IInv, TicketsInv
  <2> QED BY <1>1, <2>1, <2>2, <2>3 DEF TicketsOnce, Once, Apart, Aside
<1>15. TicketsInv'
  <2>1. \A j \in Held' : j \in DOMAIN reads => j \in DOMAIN reads' /\ reads'[j] = reads[j]
    BY <1>10, <1>14
  <2>2. drain' \cap Held' = {} /\ drain' \subseteq Ids
    OBVIOUS
  <2> QED BY <1>3, <1>7, <2>1, <2>2, TicketsStay, SMTT(60) DEF IInv, TypeInv, Sub
<1>16. Control'
  BY <1>3, <1>7 DEF IInv, Control, DueFree, DueTaken, IntoFree, Before, After, Empty
<1>17. Coverage'
  <2>1. /\ eng'.pc = "slots" /\ tile'.alone = tile.alone /\ tile'.failed = tile.failed
        /\ tile'.route = tile.route /\ tile'.misses = tile.misses /\ tile'.due = tile.due
        /\ tile'.losers = tile.losers /\ DOMAIN tile'.into = DOMAIN tile.into \ {e}
        /\ DOMAIN tile'.lease = DOMAIN tile.lease \cup {e} /\ e \in DOMAIN tile.into
    BY <1>3, <1>7, <1>9
  <2>2. /\ DOMAIN tile.into \cap DOMAIN tile.due = {}
        /\ DOMAIN tile.losers \cap DOMAIN tile.due = {}
        /\ tile.failed \/ tile.route = DOMAIN tile.lease \cup DOMAIN tile.due
                                         \cup DOMAIN tile.into \cup tile.misses
        /\ tile.alone => ~tile.failed
        /\ tile.alone => tile.misses \subseteq DOMAIN tile.lease
    BY DEF IInv, Coverage
  <2>3. tile'.failed \/ tile'.route = DOMAIN tile'.lease \cup DOMAIN tile'.due
                                         \cup DOMAIN tile'.into \cup tile'.misses
    BY <2>1, <2>2
  <2> QED BY <2>1, <2>2, <2>3 DEF Coverage, After
<1>18. PlainReads'
  BY <1>10 DEF IInv, PlainReads, Into
<1>19. ASSUME ~strayed' PROVE SInv'
  <2>1. SInv
    BY <1>19 DEF IInv
  <2>2. \A j \in DOMAIN reads : Into(j) => HeldAt(j)
    BY <2>1 DEF SInv, ReadsReserved
  <2>3. \A j \in DOMAIN reads : Into(j) /\ reads[j].key = k => j = i
    BY <1>1, <2>1 DEF SInv, ReadsDistinct
  <2>4. k \in DOMAIN pool.pending /\ pool.pending[k] = reads[i].slot
    BY <1>1, <2>1 DEF SInv, ReadsReserved
  <2>6. \A j \in DOMAIN reads : HeldAt(j) => j = i \/ HeldAt(j)'
    BY <1>3, <1>7 DEF HeldAt
  <2>8. LeasesRight'
    <3>1. ASSUME NEW d \in DOMAIN le
          PROVE  \/ le[d].slot = 0 /\ le[d].key = Key(d)
                 \/ Key(d) \in DOMAIN pool'.map /\ pool'.map[Key(d)] = le[d].slot
      <4>1. CASE d \in DOMAIN tile.lease /\ le[d] = tile.lease[d]
        BY <1>12, <2>1, <4>1 DEF SInv, LeasesRight
      <4>2. CASE d = e /\ le[d] = x
        <5>1. CASE done
          <6>1. x = InSlot(reads[i].slot)
            BY <1>2, <5>1
          <6> QED BY <1>12, <2>4, <4>2, <5>1, <6>1 DEF InSlot
        <5>2. CASE ~done
          <6>1. x = Own(e)
            BY <1>2, <5>2
          <6> QED BY <4>2, <6>1 DEF Own
        <5> QED BY <5>1, <5>2
      <4> QED BY <1>9, <3>1, <4>1, <4>2
    <3> QED BY <1>7, <3>1 DEF LeasesRight, Key, Resident
  <2>9. \A d \in DOMAIN pool'.map : bytes[pool'.map[d]] = d
    <3>1. done => bytes[reads[i].slot] = k
      BY <1>1, <1>2, <2>1 DEF SInv, BytesRight
    <3>2. \A d \in Resident : bytes[pool.map[d]] = d
      BY <2>1 DEF SInv, BytesRight
    <3>3. CASE done
      BY <1>12, <2>4, <3>1, <3>2, <3>3
    <3>4. CASE ~done
      BY <1>12, <3>2, <3>4
    <3> QED BY <1>2, <3>3, <3>4
  <2>10. PICK s : s = {k}
    OBVIOUS
  <2>11. DOMAIN pool'.pending = DOMAIN pool.pending \ s
    BY <1>12, <2>10
  <2>12. \A j \in DOMAIN reads : Into(j) =>
           \/ reads[j].key \in s /\ j \notin DOMAIN reads'
           \/ /\ reads[j].key \notin s /\ j \in DOMAIN reads'
              /\ j \notin drain' /\ HeldAt(j)'
    BY <1>1, <1>10, <2>2, <2>3, <2>6, <2>10
  <2>13. DOMAIN reads' \subseteq DOMAIN reads
    BY <1>10
  <2> QED BY <1>10, <1>12, <2>1, <2>8, <2>9, <2>11, <2>12, <2>13, SoundDrops
<1> QED BY <1>11, <1>13, <1>15, <1>16, <1>17, <1>18, <1>19 DEF IInv

\* The retry of a read into a slot fails as well: the pass ends.
LEMMA SlotFailedKeeps ==
  ASSUME IInv, eng.pc = "slots", drain = {},
         NEW e \in DOMAIN tile.into, NEW i, i = tile.into[e], NEW k, k = Key(e),
         reads[i].st = "failed", pool' = AbortPending(pool, {k}), Fails(Held \ {i})
  PROVE  IInv'
<1>1. /\ UNCHANGED <<cfg, bytes>> /\ drain' \subseteq Ids
      /\ reads' = Cancelled(Held) /\ pf' = NoSet /\ tile' = NoTile
      /\ eng' = [eng EXCEPT !.pc = "idle", !.tiles = <<>>, !.fan = None]
      /\ strayed' = (strayed \/ Strays(Held \ {i}))
  BY DEF Fails
<1>2. i \in DOMAIN reads /\ reads[i].key = k /\ Into(i)
  BY DEF IInv, TicketsInv, TicketsKnown, TicketsLabelled, Known
<1>3. PICK s : s = {k}
  OBVIOUS
<1>4. /\ PoolOk(pool') /\ pool'.map = pool.map
      /\ DOMAIN pool'.pending = DOMAIN pool.pending \ s
  <2>1. PoolOk(pool) /\ pool' = AbortPending(pool, s)
    BY <1>3 DEF IInv, PInv
  <2>2. /\ PoolOk(AbortPending(pool, s)) /\ AbortPending(pool, s).map = pool.map
        /\ DOMAIN AbortPending(pool, s).pending = DOMAIN pool.pending \ s
    BY <2>1, AbortKeeps
  <2> QED BY <2>1, <2>2, Zenon
<1>5. ~cfg.intoSlot => ~strayed'
  BY <1>2 DEF IInv, PlainReads
<1>6. ASSUME ~strayed' PROVE /\ SInv /\ DOMAIN pool'.pending = {}
                             /\ \A j \in DOMAIN reads : Into(j) => ~Reading(j)
  <2>1. SInv /\ ~Strays(Held \ {i})
    BY <1>1, <1>6 DEF IInv
  <2>2. ASSUME NEW j \in DOMAIN reads, Into(j) PROVE j = i
    <3>1. j \in Held /\ reads[j].key \in DOMAIN pool.pending
      BY <2>1, <2>2 DEF SInv, ReadsReserved, HeldAt, Range, Held
    <3> QED BY <2>1, <2>2, <3>1 DEF Strays
  <2>3. \A d \in DOMAIN pool.pending : d = k
    BY <1>2, <2>1, <2>2 DEF SInv, ReservationsRead
  <2>4. DOMAIN pool'.pending = {}
    BY <1>3, <1>4, <2>3
  <2>5. ~Reading(i)
    BY DEF Reading
  <2> QED BY <2>1, <2>2, <2>4, <2>5
<1>7. PoolOk(pool') /\ pool'.map = pool.map /\ DOMAIN pool'.pending \subseteq DOMAIN pool.pending
  BY <1>4
<1> QED BY <1>1, <1>5, <1>6, <1>7, AllDropped

LEMMA WaitIntoSlotKeeps ==
  ASSUME IInv, WaitIntoSlot PROVE IInv'
<1>0. /\ eng.pc = "slots" /\ drain = {} /\ tile.into # None
  BY DEF WaitIntoSlot, At
<1>e. PICK e : e = Min(DOMAIN tile.into)
  OBVIOUS
<1>i. PICK i : i = tile.into[e]
  OBVIOUS
<1>k. PICK k : k = Key(e)
  OBVIOUS
<1>1. e \in DOMAIN tile.into /\ e \in Experts
  <2>1. IsMap(tile.into, Experts, Ids)
    BY DEF IInv, TypeInv, TileTyped
  <2> QED BY <1>0, <1>e, <2>1, FirstTicket
<1>2. CASE /\ reads[i].st = "done" /\ pool' = PublishPending(pool, k)
           /\ tile' = [tile EXCEPT !.into = Restrict(@, DOMAIN @ \ {e}), !.admit = @ \cup {e},
                                   !.lease = Put(@, e, InSlot(reads[i].slot))]
           /\ reads' = Forget(i) /\ eng' = eng /\ UNCHANGED <<cfg, bytes, drain, pf, strayed>>
  <2>1. PICK x : x = InSlot(reads[i].slot)
    OBVIOUS
  <2>2. tile' = [tile EXCEPT !.into = Restrict(@, DOMAIN @ \ {e}), !.admit = @ \cup {e},
                             !.lease = Put(@, e, x)]
    BY <1>2, <2>1
  <2> QED BY <1>0, <1>1, <1>i, <1>k, <1>2, <2>1, <2>2, SlotServedKeeps
<1>3. CASE /\ reads[i].st = "failed" /\ pool' = AbortPending(pool, {k})
           /\ tile' = [tile EXCEPT !.into = Restrict(@, DOMAIN @ \ {e}), !.admit = @ \cup {e},
                                   !.lease = Put(@, e, Own(e))]
           /\ reads' = Forget(i) /\ eng' = eng /\ UNCHANGED <<cfg, bytes, drain, pf, strayed>>
  <2>1. PICK x : x = Own(e)
    OBVIOUS
  <2>2. tile' = [tile EXCEPT !.into = Restrict(@, DOMAIN @ \ {e}), !.admit = @ \cup {e},
                             !.lease = Put(@, e, x)]
    BY <1>3, <2>1
  <2> QED BY <1>0, <1>1, <1>i, <1>k, <1>3, <2>1, <2>2, SlotServedKeeps
<1>4. CASE reads[i].st = "failed" /\ pool' = AbortPending(pool, {k}) /\ Fails(Held \ {i})
  BY <1>0, <1>1, <1>i, <1>k, <1>4, SlotFailedKeeps
<1> QED BY <1>e, <1>i, <1>k, <1>2, <1>3, <1>4 DEF WaitIntoSlot

\* Experts read from storage are leased with the buffers they were read into.
LEMMA OwnLease ==
  ASSUME ReadsTyped, EngTyped, NEW S, S \subseteq Experts, NEW f, f = [e \in S |-> Own(e)]
  PROVE  IsMap(f, Experts, [slot : 0..NSlots, key : Tag]) /\ DOMAIN f = S
<1>1. \A e \in S : Own(e) \in [slot : 0..NSlots, key : Tag]
  BY SourcesAreTyped
<1>2. PICK V : V = [slot : 0..NSlots, key : Tag]
  OBVIOUS
<1>3. \A e \in S : f[e] \in V
  BY <1>1, <1>2
<1>4. IsMap(f, Experts, V) /\ DOMAIN f = S
  BY <1>3 DEF IsMap
<1> QED BY <1>2, <1>4

\* What the demand batch adds to the lease, or the whole union.
LEMMA DemandLease ==
  ASSUME ReadsTyped, EngTyped, TileTyped, NEW le, NEW failed \in BOOLEAN,
         ~failed => le = Over([e \in tile.misses |-> Own(e)], tile.lease),
         failed => le = [e \in tile.route |-> Own(e)]
  PROVE  /\ IsMap(le, Experts, [slot : 0..NSlots, key : Tag])
         /\ DOMAIN le = (IF failed THEN tile.route ELSE DOMAIN tile.lease \cup tile.misses)
         /\ \A e \in DOMAIN le :
              \/ le[e] = Own(e)
              \/ ~failed /\ e \in DOMAIN tile.lease /\ le[e] = tile.lease[e]
<1>1. CASE failed
  <2>1. le = [e \in tile.route |-> Own(e)] /\ tile.route \subseteq Experts
    BY <1>1 DEF TileTyped
  <2>2. IsMap(le, Experts, [slot : 0..NSlots, key : Tag]) /\ DOMAIN le = tile.route
    BY <2>1, OwnLease
  <2> QED BY <1>1, <2>1, <2>2
<1>2. CASE ~failed
  <2>1. PICK f : f = [e \in tile.misses |-> Own(e)]
    OBVIOUS
  <2>2. PICK g : g = tile.lease
    OBVIOUS
  <2>3. PICK V : V = [slot : 0..NSlots, key : Tag]
    OBVIOUS
  <2>4. IsMap(f, Experts, V) /\ DOMAIN f = tile.misses
    <3>1. tile.misses \subseteq Experts
      BY DEF TileTyped
    <3>2. IsMap(f, Experts, [slot : 0..NSlots, key : Tag]) /\ DOMAIN f = tile.misses
      BY <2>1, <3>1, OwnLease
    <3> QED BY <2>3, <3>2
  <2>5. IsMap(g, Experts, V)
    BY <2>2, <2>3 DEF TileTyped
  <2>6. le = Over(f, g)
    BY <1>2, <2>1, <2>2
  <2>7. IsMap(le, Experts, V)
    BY <2>4, <2>5, <2>6, OverIsMap
  <2>10. /\ DOMAIN le = DOMAIN f \cup DOMAIN g
         /\ \A d \in DOMAIN f : le[d] = f[d]
         /\ \A d \in DOMAIN g : d \notin DOMAIN f => le[d] = g[d]
    BY <2>6 DEF Over
  <2>8. DOMAIN le = DOMAIN tile.lease \cup tile.misses
    BY <2>2, <2>4, <2>10
  <2>9. \A e \in DOMAIN le :
          le[e] = Own(e) \/ (e \in DOMAIN tile.lease /\ le[e] = tile.lease[e])
    BY <2>1, <2>2, <2>4, <2>10
  <2> QED BY <1>2, <2>3, <2>7, <2>8, <2>9
<1> QED BY <1>1, <1>2

\* The demand batch, or the read of the complete union, has landed.
LEMMA DemandServedKeeps ==
  ASSUME IInv, eng.pc = "demand", drain = {},
         UNCHANGED <<cfg, pool, bytes, drain, pf, strayed>>,
         NEW le, NEW ad, ad \subseteq Experts, NEW failed \in BOOLEAN, failed = tile.failed,
         ~failed => le = Over([e \in tile.misses |-> Own(e)], tile.lease),
         failed => le = [e \in tile.route |-> Own(e)],
         tile' = [tile EXCEPT !.demand = 0, !.admit = ad, !.lease = le],
         reads' = IF tile.demand = 0 THEN reads ELSE Forget(tile.demand),
         eng' = [eng EXCEPT !.pc = IF tile.alone THEN "slots" ELSE "promote"]
  PROVE  IInv'
<1>1. /\ eng'.layer = eng.layer /\ eng'.tiles = eng.tiles /\ eng'.fan = eng.fan
      /\ eng'.pc = (IF tile.alone THEN "slots" ELSE "promote")
      /\ eng' = [pc |-> eng'.pc, pass |-> eng'.pass, layer |-> eng'.layer,
                 tiles |-> eng'.tiles, fan |-> eng'.fan]
  BY DEF IInv, TypeInv, EngTyped
<1>2. /\ tile'.route = tile.route /\ tile'.due = tile.due /\ tile'.losers = tile.losers
      /\ tile'.into = tile.into /\ tile'.demand = 0 /\ tile'.misses = tile.misses
      /\ tile'.failed = tile.failed /\ tile'.alone = tile.alone /\ tile'.lease = le
      /\ tile'.admit = ad /\ tile'.todo = tile.todo
      /\ tile' = [route |-> tile'.route, due |-> tile'.due, todo |-> tile'.todo,
           losers |-> tile'.losers, into |-> tile'.into, demand |-> tile'.demand,
           misses |-> tile'.misses, failed |-> tile'.failed, alone |-> tile'.alone,
           lease |-> tile'.lease, retained |-> tile'.retained, admit |-> tile'.admit]
  BY DEF IInv, TypeInv, TileTyped
<1>3. /\ IsMap(le, Experts, [slot : 0..NSlots, key : Tag])
      /\ DOMAIN le = (IF failed THEN tile.route ELSE DOMAIN tile.lease \cup tile.misses)
      /\ \A e \in DOMAIN le :
           \/ le[e] = Own(e)
           \/ ~failed /\ e \in DOMAIN tile.lease /\ le[e] = tile.lease[e]
  <2>1. ReadsTyped /\ EngTyped /\ TileTyped
    BY DEF IInv, TypeInv
  <2> QED BY <2>1, DemandLease
<1>4. /\ DOMAIN reads' \subseteq DOMAIN reads /\ DOMAIN reads' \subseteq Ids
      /\ reads' \in [DOMAIN reads' -> ReadType] /\ \A j \in DOMAIN reads' : reads'[j] = reads[j]
      /\ \A j \in DOMAIN reads : j # tile.demand => j \in DOMAIN reads'
  <2>1. CASE tile.demand = 0
    BY <2>1 DEF IInv, TypeInv, ReadsTyped
  <2>2. CASE tile.demand # 0
    <3>1. PICK i : i = tile.demand
      OBVIOUS
    <3>2. ReadsTyped /\ reads' = Forget(i)
      BY <2>2, <3>1 DEF IInv, TypeInv
    <3>3. /\ DOMAIN reads' = DOMAIN reads \ {i} /\ DOMAIN reads' \subseteq Ids
          /\ reads' \in [DOMAIN reads' -> ReadType]
          /\ \A j \in DOMAIN reads' : reads'[j] = reads[j]
      BY <3>2, ForgetStep
    <3> QED BY <3>1, <3>3
  <2> QED BY <2>1, <2>2
<1>5. TypeInv'
  <2>1. ReadsTyped' /\ EngTyped' /\ PfTyped'
    BY <1>1, <1>4 DEF IInv, TypeInv, ReadsTyped, EngTyped, PfTyped
  <2>2. 0 \in Ids \cup {0}
    OBVIOUS
  <2>3. TileTyped'
    BY <1>2, <1>3, <2>2 DEF IInv, TypeInv, TileTyped
  <2> QED BY <2>1, <2>3 DEF TypeInv
<1>6. PInv'
  BY <1>1 DEF IInv, PInv, PlainPool, PoolOk, PoolTyped, PoolOwned
<1>7. \A j \in Held' : j # tile.demand
  <2>1. TicketsOnce
    BY DEF IInv, TicketsInv
  <2>2. \A j \in Held' : \/ \E d \in DOMAIN pf.tk : pf.tk[d] = j
                         \/ \E d \in DOMAIN tile.due : tile.due[d] = j
                         \/ \E d \in DOMAIN tile.losers : tile.losers[d] = j
                         \/ \E d \in DOMAIN tile.into : tile.into[d] = j
                         \/ \E d \in DOMAIN eng.fan : eng.fan[d] = j
    BY <1>1, <1>2 DEF Held, Range
  <2> QED BY <2>1, <2>2 DEF TicketsOnce, Aside
<1>8. TicketsInv'
  <2>1. \A j \in Held' : j \in DOMAIN reads => j \in DOMAIN reads' /\ reads'[j] = reads[j]
    BY <1>4, <1>7
  <2>2. drain' \cap Held' = {} /\ drain' \subseteq Ids
    OBVIOUS
  <2> QED BY <1>1, <1>2, <2>1, <2>2, TicketsStay DEF IInv, TypeInv, Sub
<1>9. tile.alone \in BOOLEAN /\ tile.failed \in BOOLEAN
  BY DEF IInv, TypeInv, TileTyped
<1>10. Control'
  <2>1. CASE tile.alone
    BY <1>1, <1>2, <2>1
    DEF IInv, Control, DueFree, DueTaken, IntoFree, Before, After, Empty
  <2>2. CASE ~tile.alone
    BY <1>1, <1>2, <2>2
    DEF IInv, Control, DueFree, DueTaken, IntoFree, Before, After, Empty
  <2> QED BY <1>9, <2>1, <2>2
<1>11. Coverage'
  <2>1. /\ DOMAIN tile.due = {} /\ DOMAIN tile.losers = {}
        /\ ~tile.alone => DOMAIN tile.into = {}
    BY DEF IInv, Control, DueFree, IntoFree, Empty
  <2>2. /\ tile.failed \/ tile.route = DOMAIN tile.lease \cup DOMAIN tile.due
                                         \cup DOMAIN tile.into \cup tile.misses
        /\ tile.alone => ~tile.failed
    BY DEF IInv, Coverage
  <2>3. CASE tile.alone
    <3>1. DOMAIN le = DOMAIN tile.lease \cup tile.misses
      BY <1>3, <2>2, <2>3
    <3>2. tile.route = DOMAIN le \cup DOMAIN tile.due \cup DOMAIN tile.into \cup tile.misses
      BY <2>2, <2>3, <3>1
    <3> QED BY <1>1, <1>2, <2>1, <2>2, <2>3, <3>1, <3>2 DEF Coverage, After
  <2>4. CASE ~tile.alone
    <3>1. DOMAIN le = tile.route
      BY <1>3, <2>1, <2>2, <2>4
    <3> QED BY <1>1, <1>2, <2>4, <3>1 DEF Coverage, After
  <2> QED BY <1>9, <2>3, <2>4
<1>12. PlainReads'
  BY <1>4 DEF IInv, PlainReads, Into
<1>13. ASSUME ~strayed' PROVE SInv'
  <2>1. SInv
    BY <1>13 DEF IInv
  <2>2. \A j \in DOMAIN reads : Into(j) => j # tile.demand
    <3>1. tile.demand # 0 => ~Into(tile.demand)
      BY DEF IInv, TicketsInv, TicketsLabelled
    <3>2. 0 \notin DOMAIN reads
      BY IdsAreNat DEF IInv, TypeInv, ReadsTyped
    <3> QED BY <3>1, <3>2
  <2>3. \A j \in DOMAIN reads : HeldAt(j) => HeldAt(j)'
    BY <1>2 DEF HeldAt
  <2>4. LeasesRight'
    <3>1. ASSUME NEW d \in DOMAIN le
          PROVE  \/ le[d].slot = 0 /\ le[d].key = Key(d)
                 \/ Key(d) \in Resident /\ pool.map[Key(d)] = le[d].slot
      <4>1. CASE le[d] = Own(d)
        BY <4>1 DEF Own
      <4>2. CASE d \in DOMAIN tile.lease /\ le[d] = tile.lease[d]
        BY <2>1, <4>2 DEF SInv, LeasesRight
      <4> QED BY <1>3, <3>1, <4>1, <4>2
    <3> QED BY <1>1, <1>2, <3>1 DEF LeasesRight, Key, Resident
  <2>5. \A i \in DOMAIN reads' : reads'[i].slot # 0 =>
          /\ i \in DOMAIN reads /\ reads'[i].key = reads[i].key /\ reads'[i].slot = reads[i].slot
          /\ reads'[i].st = "done" => reads[i].st = "done"
          /\ HeldAt(i) => HeldAt(i)'
          /\ i \notin drain => i \notin drain'
    BY <1>4, <2>3
  <2>6. \A i \in DOMAIN reads : Into(i) => i \in DOMAIN reads' /\ reads'[i].slot = reads[i].slot
    BY <1>4, <2>2
  <2> QED BY <2>1, <2>4, <2>5, <2>6, SoundStays
<1> QED BY <1>5, <1>6, <1>8, <1>10, <1>11, <1>12, <1>13 DEF IInv

LEMMA WaitDemandKeeps ==
  ASSUME IInv, WaitDemand PROVE IInv'
<1>0. eng.pc = "demand" /\ drain = {} /\ eng.pc # "boot"
  BY DEF WaitDemand, At
<1>1. tile.failed \in BOOLEAN /\ tile.misses \subseteq Experts /\ tile.admit \subseteq Experts
      /\ tile.route \subseteq Experts
  BY DEF IInv, TypeInv, TileTyped
<1>2. PICK failed \in BOOLEAN : failed = tile.failed
  BY <1>1
<1>3. CASE /\ ~tile.failed
           /\ tile' = [tile EXCEPT !.demand = 0, !.admit = @ \cup tile.misses,
                          !.lease = Over([e \in tile.misses |-> Own(e)], @)]
           /\ reads' = (IF tile.demand = 0 THEN reads ELSE Forget(tile.demand))
           /\ eng' = [eng EXCEPT !.pc = IF tile.alone THEN "slots" ELSE "promote"]
           /\ UNCHANGED <<cfg, pool, bytes, drain, pf, strayed>>
  <2>1. PICK le : le = Over([e \in tile.misses |-> Own(e)], tile.lease)
    OBVIOUS
  <2>2. PICK ad : ad = tile.admit \cup tile.misses
    OBVIOUS
  <2>3. tile' = [tile EXCEPT !.demand = 0, !.admit = ad, !.lease = le]
    BY <1>3, <2>1, <2>2
  <2>4. ad \subseteq Experts
    BY <1>1, <2>2
  <2>5. ~failed
    BY <1>2, <1>3
  <2> QED BY <1>0, <1>2, <1>3, <2>1, <2>3, <2>4, <2>5, DemandServedKeeps
<1>4. CASE /\ tile.failed
           /\ tile' = [tile EXCEPT !.demand = 0, !.admit = tile.route,
                                   !.lease = [e \in tile.route |-> Own(e)]]
           /\ reads' = (IF tile.demand = 0 THEN reads ELSE Forget(tile.demand))
           /\ eng' = [eng EXCEPT !.pc = IF tile.alone THEN "slots" ELSE "promote"]
           /\ UNCHANGED <<cfg, pool, bytes, drain, pf, strayed>>
  <2>1. PICK le : le = [e \in tile.route |-> Own(e)]
    OBVIOUS
  <2>2. PICK ad : ad = tile.route
    OBVIOUS
  <2>3. tile' = [tile EXCEPT !.demand = 0, !.admit = ad, !.lease = le]
    BY <1>4, <2>1, <2>2
  <2>4. ad \subseteq Experts
    BY <1>1, <2>2
  <2>5. failed
    BY <1>2, <1>4
  <2> QED BY <1>0, <1>2, <1>4, <2>1, <2>3, <2>4, <2>5, DemandServedKeeps
<1>5. CASE pool' = pool /\ Fails(Held)
  BY <1>0, <1>5, FailsKeeps
<1> QED BY <1>3, <1>4, <1>5 DEF WaitDemand

-----------------------------------------------------------------------------
(* Promotion and the end of a tile.                                          *)

\* A promotion touches nothing but the pool, its bytes and what is left to do.
LEMMA PromoteMoves ==
  ASSUME IInv, eng.pc = "promote", UNCHANGED <<cfg, reads, drain, eng, pf, strayed>>,
         NEW e, tile' = [tile EXCEPT !.admit = @ \ {e}, !.retained = @ \cup {e}],
         PoolOk(pool'), DOMAIN bytes' = Slots, PlainPool', ~strayed => SInv'
  PROVE  IInv'
<1>1. /\ tile'.route = tile.route /\ tile'.due = tile.due /\ tile'.losers = tile.losers
      /\ tile'.into = tile.into /\ tile'.demand = tile.demand /\ tile'.misses = tile.misses
      /\ tile'.failed = tile.failed /\ tile'.alone = tile.alone /\ tile'.lease = tile.lease
      /\ tile'.admit = tile.admit \ {e} /\ tile'.todo = tile.todo
      /\ tile' = [route |-> tile'.route, due |-> tile'.due, todo |-> tile'.todo,
           losers |-> tile'.losers, into |-> tile'.into, demand |-> tile'.demand,
           misses |-> tile'.misses, failed |-> tile'.failed, alone |-> tile'.alone,
           lease |-> tile'.lease, retained |-> tile'.retained, admit |-> tile'.admit]
  BY DEF IInv, TypeInv, TileTyped
<1>2. TypeInv'
  <2>1. ReadsTyped' /\ EngTyped' /\ PfTyped'
    BY DEF IInv, TypeInv, ReadsTyped, EngTyped, PfTyped
  <2>2. TileTyped'
    BY <1>1 DEF IInv, TypeInv, TileTyped
  <2> QED BY <2>1, <2>2 DEF TypeInv
<1>3. PInv'
  BY DEF PInv
<1>4. TicketsInv'
  <2>1. Held' = Held
    BY <1>1 DEF Held, Range
  <2>2. drain \cap Held = {} /\ drain \subseteq Ids
    BY DEF IInv, TicketsInv, TicketsOnce, Aside, Held, Range
  <2> QED BY <1>1, <2>1, <2>2, TicketsStay DEF IInv, TypeInv, Sub
<1>5. Control'
  BY <1>1 DEF IInv, Control, DueFree, DueTaken, IntoFree, Before, After, Empty
<1>6. Coverage'
  BY <1>1 DEF IInv, Coverage, After
<1>7. PlainReads'
  BY DEF IInv, PlainReads, Into
<1> QED BY <1>2, <1>3, <1>4, <1>5, <1>6, <1>7 DEF IInv

\* A route is counted, or nothing is.
LEMMA CountKeeps ==
  ASSUME IInv, eng.pc = "promote", UNCHANGED <<cfg, reads, drain, eng, pf, strayed, bytes>>,
         NEW e, tile' = [tile EXCEPT !.admit = @ \ {e}, !.retained = @ \cup {e}],
         NEW n, pool' = pool \/ pool' = [pool EXCEPT !.seen = n]
  PROVE  IInv'
<1>1. /\ pool'.map = pool.map /\ pool'.pending = pool.pending /\ pool'.free = pool.free
      /\ pool' = [map |-> pool'.map, pending |-> pool'.pending, free |-> pool'.free,
                  seen |-> pool'.seen]
  BY DEF IInv, PInv, PoolOk, PoolTyped
<1>2. PoolOk(pool')
  BY <1>1 DEF IInv, PInv, PoolOk, PoolTyped, PoolOwned
<1>3. DOMAIN bytes' = Slots /\ PlainPool'
  BY <1>1 DEF IInv, PInv, PlainPool
<1>4. tile'.lease = tile.lease /\ tile'.due = tile.due /\ tile'.losers = tile.losers
      /\ tile'.into = tile.into
  BY DEF IInv, TypeInv, TileTyped
<1>5. ASSUME ~strayed PROVE SInv'
  <2>1. SInv
    BY <1>5 DEF IInv
  <2>2. LeasesRight'
    BY <1>1, <1>4, <2>1 DEF SInv, LeasesRight, Key, Resident
  <2>3. \A i \in DOMAIN reads : HeldAt(i) => HeldAt(i)'
    BY <1>4 DEF HeldAt
  <2> QED BY <1>1, <2>1, <2>2, <2>3, SoundStays DEF Into
<1> QED BY <1>2, <1>3, <1>5, PromoteMoves

\* The bytes of an expert are copied into a slot no lease serves from.
LEMMA CopyKeeps ==
  ASSUME IInv, eng.pc = "promote", UNCHANGED <<cfg, reads, drain, eng, pf, strayed>>,
         NEW e \in Experts, tile' = [tile EXCEPT !.admit = @ \ {e}, !.retained = @ \cup {e}],
         NEW k, k = Key(e), ~cfg.intoSlot, k \notin Resident,
         NEW seen, NEW v \in EvictFor(seen), NEW q, q = AfterEviction(v), q.free # {},
         NEW s, s = Min(q.free), NEW n,
         pool' = [q EXCEPT !.map = Put(@, k, s), !.free = @ \ {s}, !.seen = n],
         bytes' = [bytes EXCEPT ![s] = k]
  PROVE  IInv'
<1>1. v = Torn \/ (v \in Resident /\ pool.map[v] \notin LeasedSlots)
  BY VictimsAreUnleased
<1>2. /\ PoolOk(q) /\ q.pending = pool.pending
      /\ DOMAIN q.map = IF v = Torn THEN Resident ELSE Resident \ {v}
      /\ \A d \in DOMAIN q.map : q.map[d] = pool.map[d]
  <2>1. PoolOk(pool)
    BY DEF IInv, PInv
  <2> QED BY <1>1, <2>1, EvictionKeeps
<1>3. s \in q.free /\ s \in Slots
  <2>1. PICK T : T = q.free
    OBVIOUS
  <2>2. T \subseteq Slots /\ T # {} /\ s = Min(T)
    BY <1>2, <2>1 DEF PoolOk, PoolTyped
  <2>3. T \subseteq Nat
    BY <2>2, SlotsAreNat
  <2>4. s \in T
    BY <2>2, <2>3, MinMember
  <2> QED BY <2>1, <2>2, <2>4
<1>4. DOMAIN pool.pending = {} /\ \A i \in DOMAIN reads : ~Into(i)
  BY DEF IInv, PInv, PlainPool, PlainReads
<1>5. k \in Tag
  BY DEF Key, Tag, IInv, TypeInv, EngTyped
<1>6. k \notin DOMAIN q.map /\ k \notin DOMAIN q.pending
  BY <1>2, <1>4
<1>7. PoolOk(pool')
  BY <1>2, <1>3, <1>5, <1>6, FillKeeps
<1>8. pool'.map = Put(q.map, k, s) /\ pool'.pending = pool.pending
  BY <1>2 DEF PoolOk, PoolTyped
<1>9. /\ DOMAIN pool'.map = DOMAIN q.map \cup {k} /\ pool'.map[k] = s
      /\ \A d \in DOMAIN q.map : pool'.map[d] = pool.map[d] /\ pool'.map[d] # s
  <2>1. /\ DOMAIN pool'.map = DOMAIN q.map \cup {k} /\ pool'.map[k] = s
        /\ \A d \in DOMAIN q.map : d # k => pool'.map[d] = q.map[d]
    BY <1>8 DEF Put
  <2>2. \A d \in DOMAIN q.map : q.map[d] # s
    BY <1>2, <1>3 DEF PoolOk, PoolTyped, IsMap
  <2> QED BY <1>2, <1>6, <2>1, <2>2
<1>10. /\ DOMAIN bytes' = Slots /\ bytes'[s] = k
       /\ \A d \in Slots : d # s => bytes'[d] = bytes[d]
  BY <1>3 DEF IInv, PInv
<1>11. PlainPool'
  BY <1>4, <1>8 DEF PlainPool
<1>12. tile'.lease = tile.lease
  BY DEF IInv, TypeInv, TileTyped
<1>13. ASSUME ~strayed PROVE SInv'
  <2>1. SInv
    BY <1>13 DEF IInv
  <2>2. ReadsReserved' /\ ReadsDistinct' /\ ReservationsRead'
    BY <1>4, <1>8 DEF ReadsReserved, ReadsDistinct, ReservationsRead, Into
  <2>3. \A d \in DOMAIN q.map : d \in Resident /\ pool.map[d] \in Slots
    BY <1>2 DEF IInv, PInv, PoolOk, PoolTyped, IsMap, Resident
  <2>4. \A d \in DOMAIN pool'.map : bytes'[pool'.map[d]] = d
    <3>1. ASSUME NEW d \in DOMAIN q.map PROVE bytes'[pool'.map[d]] = d
      <4>1. bytes[pool.map[d]] = d
        BY <2>1, <2>3 DEF SInv, BytesRight
      <4> QED BY <1>9, <1>10, <2>3, <4>1
    <3> QED BY <1>9, <1>10, <3>1
  <2>5. BytesRight'
    BY <1>4, <2>4 DEF BytesRight, Resident, Into
  <2>6. LeasesRight'
    <3>1. ASSUME NEW d \in DOMAIN tile.lease
          PROVE  \/ tile.lease[d].slot = 0 /\ tile.lease[d].key = Key(d)
                 \/ Key(d) \in DOMAIN pool'.map /\ pool'.map[Key(d)] = tile.lease[d].slot
      <4>1. CASE tile.lease[d].slot = 0 /\ tile.lease[d].key = Key(d)
        BY <4>1
      <4>2. CASE Key(d) \in Resident /\ pool.map[Key(d)] = tile.lease[d].slot
        <5>1. pool.map[Key(d)] \in Slots
          BY <4>2 DEF IInv, PInv, PoolOk, PoolTyped, IsMap, Resident
        <5>2. pool.map[Key(d)] \in LeasedSlots
          BY <4>2, <5>1, SlotsAreNat DEF LeasedSlots, Range
        <5>3. Key(d) \in DOMAIN q.map
          BY <1>1, <1>2, <4>2, <5>2
        <5> QED BY <1>9, <4>2, <5>3
      <4> QED BY <2>1, <3>1, <4>1, <4>2 DEF SInv, LeasesRight
    <3> QED BY <1>12, <3>1 DEF LeasesRight, Key, Resident
  <2> QED BY <2>2, <2>5, <2>6 DEF SInv
<1> QED BY <1>7, <1>10, <1>11, <1>13, PromoteMoves

LEMMA PromoteKeeps ==
  ASSUME IInv, Promote PROVE IInv'
<1>0. /\ eng.pc = "promote" /\ tile.admit # {}
      /\ UNCHANGED <<cfg, reads, drain, eng, pf, strayed>>
  BY DEF Promote, At
<1>e. PICK e : e = Min(tile.admit)
  OBVIOUS
<1>k. PICK k : k = Key(e)
  OBVIOUS
<1>1. e \in Experts
  <2>1. PICK T : T = tile.admit
    OBVIOUS
  <2>2. T \subseteq Experts /\ T # {} /\ e = Min(T)
    BY <1>0, <1>e, <2>1 DEF IInv, TypeInv, TileTyped
  <2>3. e \in T
    BY <2>2, LeastExpert
  <2> QED BY <2>2, <2>3
<1>n. PICK n : n = Noted(k)
  OBVIOUS
<1>2. tile' = [tile EXCEPT !.admit = @ \ {e}, !.retained = @ \cup {e}]
  BY <1>e DEF Promote
<1>3. CASE UNCHANGED <<pool, bytes>>
  BY <1>0, <1>2, <1>3, CountKeeps
<1>4. CASE pool' = [pool EXCEPT !.seen = n] /\ UNCHANGED bytes
  BY <1>0, <1>2, <1>4, CountKeeps
<1>5. CASE /\ ~cfg.intoSlot /\ k \notin Resident
           /\ \E v \in EvictFor(n[k]) :
                LET q == AfterEviction(v)
                    s == Min(q.free)
                IN  /\ q.free # {}
                    /\ pool' = [q EXCEPT !.map = Put(@, k, s), !.free = @ \ {s}, !.seen = n]
                    /\ bytes' = [bytes EXCEPT ![s] = k]
  <2>1. PICK seen : seen = n[k]
    OBVIOUS
  <2>2. PICK v \in EvictFor(seen) :
                LET q == AfterEviction(v)
                    s == Min(q.free)
                IN  /\ q.free # {}
                    /\ pool' = [q EXCEPT !.map = Put(@, k, s), !.free = @ \ {s}, !.seen = n]
                    /\ bytes' = [bytes EXCEPT ![s] = k]
    BY <1>5, <2>1
  <2>3. PICK q : q = AfterEviction(v)
    OBVIOUS
  <2>4. PICK s : s = Min(q.free)
    OBVIOUS
  <2>5. /\ q.free # {}
        /\ pool' = [q EXCEPT !.map = Put(@, k, s), !.free = @ \ {s}, !.seen = n]
        /\ bytes' = [bytes EXCEPT ![s] = k]
    BY <2>2, <2>3, <2>4
  <2>6. ~cfg.intoSlot /\ k \notin Resident
    BY <1>5
  <2> QED BY <1>0, <1>1, <1>2, <1>k, <2>3, <2>4, <2>5, <2>6, CopyKeeps
<1> QED BY <1>3, <1>4, <1>5, <1>e, <1>k, <1>n DEF Promote

\* A tile is released when its kernel has run; after the last one the fan-out is
\* cancelled and the next layer starts.
LEMMA FinishTileKeeps ==
  ASSUME IInv, FinishTile PROVE IInv'
<1>0. /\ eng.pc = "kernel" /\ drain = {} /\ tile' = NoTile
      /\ UNCHANGED <<cfg, pool, bytes, pf, strayed>>
  BY DEF FinishTile, At
<1>1. PICK rest : rest = Tail(eng.tiles)
  OBVIOUS
<1>2. rest \in Seq(SUBSET Experts)
  BY <1>0, <1>1 DEF IInv, TypeInv, EngTyped, Control
<1>3. /\ tile'.route = {} /\ tile'.due = None /\ tile'.losers = None /\ tile'.into = None
      /\ tile'.demand = 0 /\ tile'.misses = {} /\ tile'.failed = FALSE /\ tile'.alone = FALSE
      /\ tile'.lease = None /\ tile'.admit = {} /\ tile'.todo = {}
      /\ tile' = [route |-> tile'.route, due |-> tile'.due, todo |-> tile'.todo,
           losers |-> tile'.losers, into |-> tile'.into, demand |-> tile'.demand,
           misses |-> tile'.misses, failed |-> tile'.failed, alone |-> tile'.alone,
           lease |-> tile'.lease, retained |-> tile'.retained, admit |-> tile'.admit]
  BY <1>0 DEF NoTile
<1>4. DOMAIN None = {}
  BY NoneIsMap
<1>5. TileTyped'
  <2>1. IsMap(None, Experts, Ids) /\ IsMap(None, Experts, [slot : 0..NSlots, key : Tag])
    BY NoneIsMap
  <2> QED BY <1>3, <2>1 DEF TileTyped
<1>6. Empty(tile.due) /\ Empty(tile.losers) /\ Empty(tile.into)
  BY <1>0 DEF IInv, Control, DueFree, IntoFree, After
<1>7. LeasesRight'
  BY <1>3, <1>4 DEF LeasesRight
<1>8. PfTyped'
  BY <1>0 DEF IInv, TypeInv, PfTyped
<1>9. CASE rest # <<>>
  <2>1. /\ eng' = [eng EXCEPT !.tiles = rest, !.pc = "tile"] /\ reads' = reads /\ drain' = drain
    BY <1>1, <1>9 DEF FinishTile
  <2>2. /\ eng'.pc = "tile" /\ eng'.layer = eng.layer /\ eng'.tiles = rest
        /\ eng'.fan = eng.fan
        /\ eng' = [pc |-> eng'.pc, pass |-> eng'.pass, layer |-> eng'.layer,
                   tiles |-> eng'.tiles, fan |-> eng'.fan]
    BY <2>1 DEF IInv, TypeInv, EngTyped
  <2>3. TypeInv'
    BY <1>0, <1>2, <1>5, <1>8, <2>1, <2>2 DEF IInv, TypeInv, ReadsTyped, EngTyped
  <2>4. PInv'
    BY <1>0, <2>2 DEF IInv, PInv, PlainPool, PoolOk, PoolTyped, PoolOwned
  <2>5. TicketsInv'
    <3>1. drain' \cap Held' = {} /\ drain' \subseteq Ids
      BY <1>0, <2>1
    <3> QED BY <1>0, <1>3, <1>4, <2>1, <2>2, <3>1, TicketsStay DEF IInv, TypeInv, Sub
  <2>6. Control'
    BY <1>0, <1>3, <1>4, <1>9, <2>2
    DEF IInv, Control, DueFree, DueTaken, IntoFree, Before, After, Empty
  <2>7. Coverage'
    BY <2>2 DEF Coverage, After
  <2>8. PlainReads'
    BY <1>0, <2>1 DEF IInv, PlainReads, Into
  <2>9. ASSUME ~strayed' PROVE SInv'
    <3>1. SInv
      BY <1>0, <2>9 DEF IInv
    <3>2. \A i \in DOMAIN reads : HeldAt(i) => HeldAt(i)'
      BY <1>0, <1>6 DEF HeldAt, Empty
    <3> QED BY <1>0, <1>7, <2>1, <3>1, <3>2, SoundStays DEF Into
  <2> QED BY <2>3, <2>4, <2>5, <2>6, <2>7, <2>8, <2>9 DEF IInv
<1>10. CASE rest = <<>>
  <2>0. PICK ids : ids = Range(eng.fan)
    OBVIOUS
  <2>1. /\ eng' = [eng EXCEPT !.tiles = rest, !.fan = None,
                     !.layer = IF @ = NLayers THEN @ ELSE @ + 1,
                     !.pc = IF eng.layer = NLayers THEN "idle" ELSE "mailbox"]
        /\ reads' = Cancelled(ids) /\ drain' = Draining(ids)
    BY <1>1, <1>10, <2>0 DEF FinishTile
  <2>2. /\ eng'.pc \in {"idle", "mailbox"} /\ eng'.tiles = rest /\ eng'.fan = None
        /\ eng'.layer = (IF eng.layer = NLayers THEN eng.layer ELSE eng.layer + 1)
        /\ eng' = [pc |-> eng'.pc, pass |-> eng'.pass, layer |-> eng'.layer,
                   tiles |-> eng'.tiles, fan |-> eng'.fan]
    BY <2>1 DEF IInv, TypeInv, EngTyped
  <2>3. eng'.layer \in 0..NLayers /\ eng'.layer # 0
    BY <1>0, <2>2, LayerNumbers DEF IInv, TypeInv, EngTyped
  <2>4. /\ DOMAIN reads' = {i \in DOMAIN reads : i \in ids => Reading(i)}
        /\ reads' \in [DOMAIN reads' -> ReadType] /\ DOMAIN reads' \subseteq Ids
        /\ \A j \in DOMAIN reads' : reads'[j] = reads[j]
    <3>1. PICK r : r = reads'
      OBVIOUS
    <3>2. ReadsTyped /\ r = Cancelled(ids)
      BY <2>1, <3>1 DEF IInv, TypeInv
    <3>3. /\ DOMAIN r = {i \in DOMAIN reads : i \in ids => Reading(i)}
          /\ r \in [DOMAIN r -> ReadType] /\ DOMAIN r \subseteq Ids
          /\ \A j \in DOMAIN r : r[j] = reads[j]
      BY <3>2, CancelledReads
    <3> QED BY <3>1, <3>3
  <2>5. /\ \A i \in ids : i \in Ids /\ i \in DOMAIN reads /\ ~Into(i)
        /\ \A i \in ids : \A e \in DOMAIN pf.tk : pf.tk[e] # i
    <3>1. \A i \in ids : \E d \in DOMAIN eng.fan : eng.fan[d] = i
      BY <2>0 DEF Range
    <3>2. /\ \A d \in DOMAIN eng.fan : eng.fan[d] \in Ids
          /\ Known(eng.fan) /\ Apart(pf.tk, eng.fan)
          /\ \A d \in DOMAIN eng.fan : ~Into(eng.fan[d])
      BY DEF IInv, TypeInv, EngTyped, IsMap, TicketsInv, TicketsKnown, TicketsLabelled,
             TicketsOnce
    <3> QED BY <3>1, <3>2 DEF Known, Apart
  <2>6. TypeInv'
    <3>1. EngTyped'
      <4>1. IsMap(None, Experts, Ids)
        BY NoneIsMap
      <4> QED BY <1>2, <2>2, <2>3, <4>1 DEF EngTyped
    <3> QED BY <1>5, <1>8, <2>4, <3>1 DEF TypeInv, ReadsTyped
  <2>7. PInv'
    BY <1>0, <2>2 DEF IInv, PInv, PlainPool, PoolOk, PoolTyped, PoolOwned
  <2>8. \A i \in Held' : \E e \in DOMAIN pf.tk : pf.tk[e] = i
    BY <1>0, <1>3, <1>4, <2>2 DEF Held, Range
  <2>9. TicketsInv'
    <3>1. drain' \subseteq ids
      BY <2>1 DEF Draining
    <3>2. drain' \cap Held' = {} /\ drain' \subseteq Ids
      BY <2>5, <2>8, <3>1
    <3>3. \A i \in Held' : i \in DOMAIN reads => i \in DOMAIN reads' /\ reads'[i] = reads[i]
      BY <2>4, <2>5, <2>8
    <3> QED BY <1>0, <1>3, <1>4, <2>2, <3>2, <3>3, TicketsStay DEF IInv, TypeInv, Sub
  <2>10. Control'
    BY <1>0, <1>3, <1>4, <2>2
    DEF IInv, Control, DueFree, DueTaken, IntoFree, Before, After, Empty
  <2>11. Coverage'
    BY <2>2 DEF Coverage, After
  <2>12. PlainReads'
    BY <1>0, <2>4 DEF IInv, PlainReads, Into
  <2>13. ASSUME ~strayed' PROVE SInv'
    <3>1. SInv
      BY <1>0, <2>13 DEF IInv
    <3>2. \A i \in DOMAIN reads : HeldAt(i) => HeldAt(i)'
      BY <1>0, <1>6 DEF HeldAt, Empty
    <3>3. \A i \in DOMAIN reads' : reads'[i].slot # 0 =>
            /\ i \in DOMAIN reads /\ reads'[i].key = reads[i].key
            /\ reads'[i].slot = reads[i].slot
            /\ reads'[i].st = "done" => reads[i].st = "done"
            /\ HeldAt(i) => HeldAt(i)'
            /\ i \notin drain => i \notin drain'
      BY <2>1, <2>4, <2>5, <3>2 DEF Draining, Into
    <3>4. \A i \in DOMAIN reads : Into(i) => i \in DOMAIN reads' /\ reads'[i].slot = reads[i].slot
      BY <2>4, <2>5
    <3> QED BY <1>0, <1>7, <3>1, <3>3, <3>4, SoundStays
  <2> QED BY <2>6, <2>7, <2>9, <2>10, <2>11, <2>12, <2>13 DEF IInv
<1> QED BY <1>9, <1>10

\* The greatest of some experts is one of them.
LEMMA GreatestExpert ==
  ASSUME NEW T, T \subseteq Experts, T # {}
  PROVE  Max(T) \in T
<1>1. \A x \in T : x \in 0..895
  BY CacheAssumption
<1> DEFINE U == {n \in Nat : \A x \in T : x <= n}
<1>2. U \subseteq Nat /\ U # {}
  <2>1. 895 \in U
    BY <1>1
  <2> QED BY <2>1
<1>3. PICK n \in U : \A m \in U : n <= m
  <2> HIDE DEF U
  <2> QED BY <1>2, LeastNatural
<1>4. n \in T
  <2>1. ASSUME n \notin T PROVE FALSE
    <3>1. \A x \in T : x < n
      BY <1>1, <2>1
    <3>2. n # 0
      BY <1>1, <3>1
    <3>3. n - 1 \in Nat /\ \A x \in T : x <= n - 1
      BY <1>1, <3>1, <3>2
    <3>4. n - 1 \in U
      BY <3>3
    <3> QED BY <1>3, <3>4
  <2> QED BY <2>1
<1>5. \A y \in T : n >= y
  BY <1>1
<1> QED BY <1>4, <1>5 DEF Max

\* Two ids that no read has.
LEMMA TwoIds ==
  ASSUME Cardinality(Ids \ DOMAIN reads) >= 2, NEW first, first = Fresh,
         NEW second, second = Min(Ids \ (DOMAIN reads \cup {first}))
  PROVE  /\ first \in Ids /\ first \notin DOMAIN reads
         /\ second \in Ids /\ second \notin DOMAIN reads /\ second # first
<1>1. PICK T : T = Ids \ DOMAIN reads
  OBVIOUS
<1>2. T \subseteq Nat /\ T # {}
  <2>1. Cardinality(T) >= 2
    BY <1>1
  <2>2. Cardinality(T) # 0
    BY <2>1
  <2>3. T # {}
    BY <2>2, FS_EmptySet
  <2> QED BY <1>1, <2>3, IdsAreNat
<1>3. first \in T
  <2>1. first = Min(T)
    BY <1>1 DEF Fresh
  <2> QED BY <1>2, <2>1, MinMember
<1>4. PICK R : R = T \ {first}
  OBVIOUS
<1>5. R \subseteq Nat /\ R # {}
  <2>1. ASSUME R = {} PROVE FALSE
    <3>1. T = {first}
      BY <1>3, <1>4, <2>1
    <3>2. Cardinality(T) = 1
      BY <3>1, FS_Singleton
    <3> QED BY <1>1, <3>2
  <2> QED BY <1>2, <1>4, <2>1
<1>6. second \in R
  <2>1. R = Ids \ (DOMAIN reads \cup {first})
    BY <1>1, <1>4
  <2>2. second = Min(R)
    BY <2>1
  <2> QED BY <1>5, <2>2, MinMember
<1> QED BY <1>1, <1>3, <1>4, <1>6

\* How the tickets of a tile are split: the hits it waits for, with the single
\* read of m, and the losers it gives up.
SplitDue(fan, second, m, due, losers, misses) ==
  /\ IsMap(due, Experts, Ids) /\ IsMap(losers, Experts, Ids)
  /\ misses \subseteq Experts /\ tile.misses = DOMAIN due \cup misses
  /\ \A e \in DOMAIN due :
       \/ e \in DOMAIN tile.due /\ due[e] = tile.due[e]
       \/ fan /\ e = m /\ due[e] = second
  /\ \A e \in DOMAIN losers :
       e \in DOMAIN tile.due /\ e \notin tile.misses /\ losers[e] = tile.due[e]
  /\ \A e \in DOMAIN tile.due : \/ e \in DOMAIN due /\ due[e] = tile.due[e]
                                \/ e \in DOMAIN losers /\ losers[e] = tile.due[e]
SplitSent(fan, first, second, m, demand, r) ==
  /\ DOMAIN r \subseteq Ids /\ r \in [DOMAIN r -> ReadType]
  /\ DOMAIN reads \subseteq DOMAIN r
  /\ \A j \in DOMAIN r : j \in DOMAIN reads \/ r[j].slot = 0
  /\ \A j \in DOMAIN reads :
       /\ r[j].key = reads[j].key /\ r[j].slot = reads[j].slot
       /\ r[j].st = "done" => reads[j].st = "done"
  /\ fan => second \in DOMAIN r /\ r[second].key = Key(m)
  /\ demand \in {0, first}
  /\ demand # 0 => demand \in DOMAIN r /\ r[demand].slot = 0

\* Losers that nobody claimed are cancelled, then a single and a batch of
\* misses are submitted.
LEMMA SplitReads ==
  ASSUME ReadsTyped, EngTyped, NEW m, NEW fan \in BOOLEAN, NEW batch \in BOOLEAN,
         fan => m \in Experts, NEW k, k = Key(m),
         NEW first \in Ids, NEW second \in Ids, first # second,
         first \notin DOMAIN reads, second \notin DOMAIN reads,
         NEW c, c = [i \in DOMAIN reads |-> c[i]],
         \A i \in DOMAIN reads :
           c[i] = reads[i] \/ c[i] = [reads[i] EXCEPT !.st = "cancelled"],
         NEW x, x = [key |-> k, slot |-> 0, class |-> "prefetch", st |-> "queued"],
         NEW y, y = [key |-> Torn, slot |-> 0, class |-> "demand", st |-> "queued"],
         NEW s, s = IF fan THEN Put(c, second, x) ELSE c,
         NEW r, r = IF batch THEN Put(s, first, y) ELSE s,
         NEW demand, demand = IF batch THEN first ELSE 0
  PROVE  SplitSent(fan, first, second, m, demand, r)
<1>1. /\ (fan => x \in ReadType) /\ y \in ReadType
      /\ x.key = k /\ x.slot = 0 /\ y.slot = 0
  <2>1. 0 \in 0..NSlots
    <3>1. NSlots \in Nat
      BY CacheAssumption
    <3> QED BY <3>1
  <2>2. Torn \in Tag
    BY LayerNumbers DEF Torn, Tag
  <2>3. fan => k \in Tag
    BY DEF Key, Tag, EngTyped
  <2> QED BY <2>1, <2>2, <2>3 DEF ReadType
<1>2. \A j \in DOMAIN reads :
        /\ j \in DOMAIN c /\ c[j] \in ReadType
        /\ c[j].key = reads[j].key /\ c[j].slot = reads[j].slot
        /\ c[j].st = "done" => reads[j].st = "done"
  <2>1. ASSUME NEW j \in DOMAIN reads
        PROVE  /\ j \in DOMAIN c /\ c[j] \in ReadType
               /\ c[j].key = reads[j].key /\ c[j].slot = reads[j].slot
               /\ c[j].st = "done" => reads[j].st = "done"
    <3>1. PICK d : d = reads[j]
      OBVIOUS
    <3>2. d \in ReadType
      BY <3>1 DEF ReadsTyped
    <3>3. c[j] = d \/ c[j] = [d EXCEPT !.st = "cancelled"]
      BY <3>1
    <3> QED BY <3>1, <3>2, <3>3 DEF ReadType
  <2> QED BY <2>1
<1>3. DOMAIN c = DOMAIN reads /\ c = [j \in DOMAIN c |-> c[j]]
  OBVIOUS
<1>4. IsMap(c, Ids, ReadType)
  BY <1>2, <1>3 DEF IsMap, ReadsTyped
<1>5. IsMap(s, Ids, ReadType)
  <2>1. CASE fan
    <3>1. IsMap(Put(c, second, x), Ids, ReadType)
      BY <1>1, <1>4, <2>1, PutIsMap
    <3> QED BY <2>1, <3>1
  <2> QED BY <1>4, <2>1
<1>6. /\ DOMAIN s = (IF fan THEN DOMAIN reads \cup {second} ELSE DOMAIN reads)
      /\ \A j \in DOMAIN reads : s[j] = c[j]
      /\ fan => s[second] = x
  BY <1>3 DEF Put
<1>7. IsMap(r, Ids, ReadType)
  <2>1. CASE batch
    <3>1. IsMap(Put(s, first, y), Ids, ReadType)
      BY <1>1, <1>5, PutIsMap
    <3> QED BY <2>1, <3>1
  <2> QED BY <1>5, <2>1
<1>8. /\ DOMAIN r = (IF batch THEN DOMAIN s \cup {first} ELSE DOMAIN s)
      /\ \A j \in DOMAIN s : j # first => r[j] = s[j]
      /\ batch => r[first] = y
  BY DEF Put
<1>9. \A j \in DOMAIN reads : j \in DOMAIN r /\ r[j] = c[j]
  <2>1. \A j \in DOMAIN reads : j \in DOMAIN s /\ j # first /\ s[j] = c[j]
    BY <1>6
  <2> QED BY <1>8, <2>1
<1>10. fan => second \in DOMAIN r /\ r[second] = x
  BY <1>6, <1>8
<1>11. \A j \in DOMAIN r : j \in DOMAIN reads \/ r[j].slot = 0
  BY <1>1, <1>6, <1>8, <1>10
<1>12. r \in [DOMAIN r -> ReadType] /\ DOMAIN r \subseteq Ids
  BY <1>7 DEF IsMap
<1>13. batch => first \in DOMAIN r /\ r[first] = y
  BY <1>8
<1>14. \A j \in DOMAIN reads :
         /\ r[j].key = reads[j].key /\ r[j].slot = reads[j].slot
         /\ r[j].st = "done" => reads[j].st = "done"
  BY <1>2, <1>9
<1>15. DOMAIN reads \subseteq DOMAIN r
  BY <1>9
<1>16. (fan => r[second].key = k) /\ (batch => r[first].slot = 0)
  BY <1>1, <1>10, <1>13
<1>17. demand \in {0, first} /\ (demand # 0 => batch)
  OBVIOUS
<1>18. demand # 0 => demand \in DOMAIN r /\ r[demand].slot = 0
  BY <1>13, <1>16, <1>17
<1>19. fan => second \in DOMAIN r /\ r[second].key = Key(m)
  BY <1>10, <1>16
<1> QED BY <1>11, <1>12, <1>14, <1>15, <1>17, <1>18, <1>19, Zenon DEF SplitSent

LEMMA SplitMoves ==
  ASSUME IInv, eng.pc = "into", drain = {}, tile.todo = {},
         UNCHANGED <<cfg, pool, bytes, drain, pf, strayed>>,
         NEW first \in Ids, NEW second \in Ids, first # second,
         first \notin DOMAIN reads, second \notin DOMAIN reads,
         NEW fan \in BOOLEAN, NEW alone \in BOOLEAN, NEW m, NEW due, NEW losers,
         NEW misses, NEW demand,
         SplitDue(fan, second, m, due, losers, misses),
         SplitSent(fan, first, second, m, demand, reads'),
         alone = (tile.due = None), fan => ~alone,
         tile' = [tile EXCEPT !.due = due, !.losers = losers, !.misses = misses,
                              !.alone = alone, !.demand = demand],
         eng' = [eng EXCEPT !.pc = IF alone THEN "demand" ELSE "losers"]
  PROVE  IInv'
<1>1. /\ eng'.layer = eng.layer /\ eng'.tiles = eng.tiles /\ eng'.fan = eng.fan
      /\ eng'.pc = (IF alone THEN "demand" ELSE "losers")
      /\ eng' = [pc |-> eng'.pc, pass |-> eng'.pass, layer |-> eng'.layer,
                 tiles |-> eng'.tiles, fan |-> eng'.fan]
  BY DEF IInv, TypeInv, EngTyped
<1>2. /\ tile'.route = tile.route /\ tile'.due = due /\ tile'.losers = losers
      /\ tile'.into = tile.into /\ tile'.demand = demand /\ tile'.misses = misses
      /\ tile'.failed = tile.failed /\ tile'.alone = alone /\ tile'.lease = tile.lease
      /\ tile'.admit = tile.admit /\ tile'.todo = tile.todo
      /\ tile' = [route |-> tile'.route, due |-> tile'.due, todo |-> tile'.todo,
           losers |-> tile'.losers, into |-> tile'.into, demand |-> tile'.demand,
           misses |-> tile'.misses, failed |-> tile'.failed, alone |-> tile'.alone,
           lease |-> tile'.lease, retained |-> tile'.retained, admit |-> tile'.admit]
  BY DEF IInv, TypeInv, TileTyped
<1>3. /\ IsMap(due, Experts, Ids) /\ IsMap(losers, Experts, Ids)
      /\ misses \subseteq Experts /\ tile.misses = DOMAIN due \cup misses
  BY DEF SplitDue
<1>4. \A e \in DOMAIN due : \/ e \in DOMAIN tile.due /\ due[e] = tile.due[e]
                            \/ fan /\ e = m /\ due[e] = second
  BY DEF SplitDue
<1>5. \A e \in DOMAIN losers :
        e \in DOMAIN tile.due /\ e \notin tile.misses /\ losers[e] = tile.due[e]
  BY DEF SplitDue
<1>6. \A e \in DOMAIN tile.due : \/ e \in DOMAIN due /\ due[e] = tile.due[e]
                                 \/ e \in DOMAIN losers /\ losers[e] = tile.due[e]
  BY DEF SplitDue
<1>7. demand \in {0, first}
  BY DEF SplitSent
<1>10. PICK r : r = reads'
  OBVIOUS
<1>12. /\ DOMAIN r \subseteq Ids /\ r \in [DOMAIN r -> ReadType]
       /\ DOMAIN reads \subseteq DOMAIN r
       /\ \A j \in DOMAIN r : j \in DOMAIN reads \/ r[j].slot = 0
       /\ \A j \in DOMAIN reads :
            /\ r[j].key = reads[j].key /\ r[j].slot = reads[j].slot
            /\ r[j].st = "done" => reads[j].st = "done"
       /\ fan => second \in DOMAIN r /\ r[second].key = Key(m)
       /\ demand # 0 => demand \in DOMAIN r /\ r[demand].slot = 0
  BY <1>10 DEF SplitSent
<1>13. TypeInv'
  <2>1. ReadsTyped'
    BY <1>10, <1>12 DEF ReadsTyped
  <2>2. EngTyped' /\ PfTyped'
    BY <1>1 DEF IInv, TypeInv, EngTyped, PfTyped
  <2>3. demand \in Ids \cup {0}
    BY <1>7
  <2>4. TileTyped'
    BY <1>2, <1>3, <2>3 DEF IInv, TypeInv, TileTyped
  <2> QED BY <2>1, <2>2, <2>4 DEF TypeInv
<1>14. PInv'
  BY <1>1 DEF IInv, PInv, PlainPool, PoolOk, PoolTyped, PoolOwned
<1>15. /\ Empty(tile.losers) /\ 0 \notin Ids
       /\ ~tile.failed
       /\ tile.route = DOMAIN tile.lease \cup DOMAIN tile.into \cup tile.misses
       /\ DOMAIN tile.into \cap tile.misses = {}
  BY IdsAreNat DEF IInv, Control, Coverage
<1>16. /\ \A i \in {first, second} : \A e \in DOMAIN pf.tk : pf.tk[e] # i
       /\ \A i \in {first, second} : \A e \in DOMAIN tile.due : tile.due[e] # i
       /\ \A i \in {first, second} : \A e \in DOMAIN tile.into : tile.into[e] # i
       /\ \A i \in {first, second} : \A e \in DOMAIN eng.fan : eng.fan[e] # i
  <2>1. TicketsKnown
    BY DEF IInv, TicketsInv
  <2> QED BY <2>1 DEF TicketsKnown, Known
<1>17. TicketsKnown'
  <2>1. /\ Known(pf.tk) /\ Known(tile.due) /\ Known(tile.into) /\ Known(eng.fan)
    BY DEF IInv, TicketsInv, TicketsKnown
  <2>2. \A e \in DOMAIN due : due[e] \in DOMAIN r
    BY <1>4, <1>12, <2>1 DEF Known
  <2>3. \A e \in DOMAIN losers : losers[e] \in DOMAIN r
    BY <1>5, <1>12, <2>1 DEF Known
  <2>4. demand # 0 => demand \in DOMAIN r
    BY <1>12
  <2>5. /\ \A e \in DOMAIN pf.tk : pf.tk[e] \in DOMAIN r
        /\ \A e \in DOMAIN tile.into : tile.into[e] \in DOMAIN r
        /\ \A e \in DOMAIN eng.fan : eng.fan[e] \in DOMAIN r
    BY <1>12, <2>1 DEF Known
  <2> QED BY <1>1, <1>2, <1>10, <2>2, <2>3, <2>4, <2>5 DEF TicketsKnown, Known
<1>18. TicketsLabelled'
  <2>1. TicketsLabelled /\ TicketsKnown
    BY DEF IInv, TicketsInv
  <2>2. \A e \in DOMAIN due : r[due[e]].key = Key(e)
    <3>1. ASSUME NEW e \in DOMAIN due PROVE r[due[e]].key = Key(e)
      <4>1. CASE e \in DOMAIN tile.due /\ due[e] = tile.due[e]
        BY <1>12, <2>1, <4>1 DEF TicketsLabelled, TicketsKnown, Known
      <4>2. CASE fan /\ e = m /\ due[e] = second
        BY <1>12, <4>2
      <4> QED BY <1>4, <4>1, <4>2
    <3> QED BY <3>1
  <2>3. \A e \in DOMAIN losers : r[losers[e]].key = Key(e)
    BY <1>5, <1>12, <2>1 DEF TicketsLabelled, TicketsKnown, Known
  <2>4. \A e \in DOMAIN tile.into : r[tile.into[e]].key = Key(e) /\ r[tile.into[e]].slot # 0
    BY <1>12, <2>1 DEF TicketsLabelled, TicketsKnown, Known, Into
  <2>5. \A e \in DOMAIN eng.fan : r[eng.fan[e]].key = Key(e) /\ ~(r[eng.fan[e]].slot # 0)
    BY <1>12, <2>1 DEF TicketsLabelled, TicketsKnown, Known, Into
  <2>6. \A e \in DOMAIN pf.tk : r[pf.tk[e]].key = <<pf.layer, e>>
    BY <1>12, <2>1 DEF TicketsLabelled, TicketsKnown, Known
  <2>7. demand # 0 => ~(r[demand].slot # 0)
    BY <1>12
  <2>8. \A e : Key(e)' = Key(e)
    BY <1>1 DEF Key
  <2> QED BY <1>1, <1>2, <1>10, <2>2, <2>3, <2>4, <2>5, <2>6, <2>7, <2>8
       DEF TicketsLabelled, Into
<1>19. TicketsOnce'
  <2>1. TicketsOnce
    BY DEF IInv, TicketsInv
  <2>4. Once(due) /\ Once(losers)
    BY <1>4, <1>5, <1>16, <2>1 DEF TicketsOnce, Once
  <2>5. Apart(pf.tk, due) /\ Apart(due, tile.into) /\ Apart(due, eng.fan)
    BY <1>4, <1>16, <2>1 DEF TicketsOnce, Apart
  <2>6. Apart(pf.tk, losers) /\ Apart(losers, tile.into) /\ Apart(losers, eng.fan)
    BY <1>5, <2>1 DEF TicketsOnce, Apart
  <2>7. Apart(due, losers)
    BY <1>3, <1>4, <1>5, <1>16, <2>1 DEF TicketsOnce, Once, Apart
  <2>8. demand = 0 \/ demand = first
    BY <1>7
  <2>9. /\ \A e \in DOMAIN pf.tk : pf.tk[e] # demand
        /\ \A e \in DOMAIN tile.into : tile.into[e] # demand
        /\ \A e \in DOMAIN eng.fan : eng.fan[e] # demand
        /\ \A e \in DOMAIN tile.due : tile.due[e] # demand
    BY <1>15, <1>16, <2>8 DEF IInv, TypeInv, EngTyped, PfTyped, TileTyped, IsMap
  <2>10. /\ \A e \in DOMAIN due : due[e] # demand
         /\ \A e \in DOMAIN losers : losers[e] # demand
    BY <1>4, <1>5, <1>15, <2>8, <2>9
  <2>11. Once(pf.tk) /\ Once(tile.into) /\ Once(eng.fan) /\ Apart(pf.tk, tile.into)
         /\ Apart(pf.tk, eng.fan) /\ Apart(tile.into, eng.fan)
    BY <2>1 DEF TicketsOnce
  <2>12. drain' = {}
    OBVIOUS
  <2> QED BY <1>1, <1>2, <2>4, <2>5, <2>6, <2>7, <2>9, <2>10, <2>11, <2>12
       DEF TicketsOnce, Aside
<1>20. TicketsInv'
  BY <1>17, <1>18, <1>19 DEF TicketsInv
<1>21. alone => DOMAIN tile.due = {}
  BY EmptyIsNone DEF IInv, TypeInv, TileTyped
<1>22. alone => DOMAIN due = {} /\ DOMAIN losers = {}
  BY <1>4, <1>5, <1>21
<1>23. Control'
  <2>1. CASE alone
    BY <1>1, <1>2, <1>22, <2>1
    DEF IInv, Control, DueFree, DueTaken, IntoFree, Before, After, Empty
  <2>2. CASE ~alone
    BY <1>1, <1>2, <2>2
    DEF IInv, Control, DueFree, DueTaken, IntoFree, Before, After, Empty
  <2> QED BY <2>1, <2>2
<1>24. Coverage'
  <2>1. /\ DOMAIN tile.into \cap DOMAIN due = {} /\ DOMAIN losers \cap DOMAIN due = {}
        /\ tile.route = DOMAIN tile.lease \cup DOMAIN due \cup DOMAIN tile.into \cup misses
    BY <1>3, <1>5, <1>15
  <2> QED BY <1>1, <1>2, <1>15, <2>1 DEF Coverage, After
<1>25. PlainReads'
  BY <1>10, <1>12 DEF IInv, PlainReads, Into
<1>26. ASSUME ~strayed' PROVE SInv'
  <2>1. SInv
    BY <1>26 DEF IInv
  <2>2. LeasesRight'
    BY <1>1, <1>2, <2>1 DEF SInv, LeasesRight, Key, Resident
  <2>3. ASSUME NEW i \in DOMAIN reads, HeldAt(i) PROVE HeldAt(i)'
    <3>1. CASE \E e \in DOMAIN tile.due : tile.due[e] = i
      <4>1. PICK e \in DOMAIN tile.due : tile.due[e] = i
        BY <3>1
      <4>2. \/ e \in DOMAIN due /\ due[e] = i
            \/ e \in DOMAIN losers /\ losers[e] = i
        BY <1>6, <4>1
      <4> QED BY <1>2, <4>2 DEF HeldAt
    <3>2. CASE \E e \in DOMAIN pf.tk : pf.tk[e] = i
      BY <3>2 DEF HeldAt
    <3>3. CASE \E e \in DOMAIN tile.into : tile.into[e] = i
      BY <1>2, <3>3 DEF HeldAt
    <3> QED BY <1>15, <2>3, <3>1, <3>2, <3>3 DEF HeldAt, Empty
  <2>4. \A i \in DOMAIN reads' : reads'[i].slot # 0 =>
          /\ i \in DOMAIN reads /\ reads'[i].key = reads[i].key /\ reads'[i].slot = reads[i].slot
          /\ reads'[i].st = "done" => reads[i].st = "done"
          /\ HeldAt(i) => HeldAt(i)'
          /\ i \notin drain => i \notin drain'
    BY <1>10, <1>12, <2>3
  <2>5. \A i \in DOMAIN reads : Into(i) => i \in DOMAIN reads' /\ reads'[i].slot = reads[i].slot
    BY <1>10, <1>12
  <2> QED BY <2>1, <2>2, <2>4, <2>5, SoundStays
<1> QED BY <1>13, <1>14, <1>20, <1>23, <1>24, <1>25, <1>26 DEF IInv

LEMMA SplitTicketsKeeps ==
  ASSUME IInv, SplitTickets PROVE IInv'
<1> DEFINE H == Restrict(tile.due, DOMAIN tile.due \cap tile.misses)
           L == Restrict(tile.due, DOMAIN tile.due \ tile.misses)
           W == tile.misses \ DOMAIN H
           F == cfg.fanout /\ tile.due # None /\ Cardinality(W) >= 2 /\ ~ArenaFull
           S == IF F THEN {Max(W)} ELSE {}
           M == W \ S
           N == Min(Ids \ (DOMAIN reads \cup {Fresh}))
           Q(k, class) == [key |-> k, slot |-> 0, class |-> class, st |-> "queued"]
           C == [i \in DOMAIN reads |->
                   IF i \in Range(L) /\ reads[i].st = "queued"
                     THEN [reads[i] EXCEPT !.st = "cancelled"] ELSE reads[i]]
           G == IF F THEN Put(C, N, Q(Key(Max(W)), "prefetch")) ELSE C
           D == Over([e \in S |-> N], H)
<1>0. /\ eng.pc = "into" /\ drain = {} /\ tile.todo = {}
      /\ Cardinality(Ids \ DOMAIN reads) >= 2
      /\ UNCHANGED <<cfg, pool, bytes, drain, pf, strayed>>
      /\ eng' = [eng EXCEPT !.pc = IF tile.due = None THEN "demand" ELSE "losers"]
  BY DEF SplitTickets, At
<1>1. /\ reads' = (IF M = {} THEN G ELSE Put(G, Fresh, Q(Torn, "demand")))
      /\ tile' = [tile EXCEPT !.due = D, !.losers = L, !.misses = M,
                              !.alone = (tile.due = None),
                              !.demand = IF M = {} THEN 0 ELSE Fresh]
  BY DEF SplitTickets
<1>2. PICK first : first = Fresh
  OBVIOUS
<1>3. PICK second : second = N
  OBVIOUS
<1>4. /\ first \in Ids /\ first \notin DOMAIN reads
      /\ second \in Ids /\ second \notin DOMAIN reads /\ second # first
  <2>1. second = Min(Ids \ (DOMAIN reads \cup {first}))
    BY <1>2, <1>3
  <2> QED BY <1>0, <1>2, <2>1, TwoIds
<1>5. PICK hits : hits = H
  OBVIOUS
<1>6. PICK losers : losers = L
  OBVIOUS
<1>7. PICK wanted : wanted = W
  OBVIOUS
<1>8. PICK fan \in BOOLEAN : fan = F
  <2>1. F \in BOOLEAN
    OBVIOUS
  <2> QED BY <2>1
<1>9. PICK single : single = S
  OBVIOUS
<1>10. PICK misses : misses = M
  OBVIOUS
<1>11. PICK batch \in BOOLEAN : batch = (misses # {})
  OBVIOUS
<1>12. PICK m : m = Max(wanted)
  OBVIOUS
<1>13. PICK k : k = Key(m)
  OBVIOUS
<1>14. PICK due : due = D
  OBVIOUS
<1>15. PICK alone \in BOOLEAN : alone = (tile.due = None)
  OBVIOUS
<1>16. PICK demand : demand = IF batch THEN first ELSE 0
  OBVIOUS
<1>17. /\ wanted = tile.misses \ DOMAIN hits
       /\ single = (IF fan THEN {m} ELSE {})
       /\ misses = wanted \ single
       /\ due = Over([e \in single |-> second], hits)
       /\ fan => Cardinality(wanted) >= 2 /\ tile.due # None
  BY <1>3, <1>5, <1>7, <1>8, <1>9, <1>10, <1>12, <1>14
<1>18. PICK c : c = [i \in DOMAIN reads |->
                       IF i \in Range(losers) /\ reads[i].st = "queued"
                         THEN [reads[i] EXCEPT !.st = "cancelled"] ELSE reads[i]]
  OBVIOUS
<1>19. PICK x : x = [key |-> k, slot |-> 0, class |-> "prefetch", st |-> "queued"]
  OBVIOUS
<1>20. PICK y : y = [key |-> Torn, slot |-> 0, class |-> "demand", st |-> "queued"]
  OBVIOUS
<1>21. PICK s : s = IF fan THEN Put(c, second, x) ELSE c
  OBVIOUS
<1>22. reads' = (IF batch THEN Put(s, first, y) ELSE s)
  <2>1. C = c
    BY <1>6, <1>18
  <2>2. Q(Key(Max(W)), "prefetch") = x /\ Q(Torn, "demand") = y
    BY <1>7, <1>12, <1>13, <1>19, <1>20
  <2>3. G = s
    <3> HIDE DEF C, Q
    <3> QED BY <1>3, <1>8, <1>21, <2>1, <2>2
  <2>4. batch <=> ~(M = {})
    BY <1>10, <1>11
  <2> HIDE DEF G, Q, M
  <2> QED BY <1>1, <1>2, <2>2, <2>3, <2>4
<1>23. tile' = [tile EXCEPT !.due = due, !.losers = losers, !.misses = misses,
                            !.alone = alone, !.demand = demand]
  <2>1. (IF M = {} THEN 0 ELSE Fresh) = demand
    BY <1>2, <1>10, <1>11, <1>16
  <2> HIDE DEF D, L, M
  <2> QED BY <1>1, <1>6, <1>10, <1>14, <1>15, <2>1
<1> HIDE DEF H, L, W, F, S, M, N, Q, C, G, D
<1>24. eng' = [eng EXCEPT !.pc = IF alone THEN "demand" ELSE "losers"]
  BY <1>0, <1>15
<1>25. /\ hits = Restrict(tile.due, DOMAIN tile.due \cap tile.misses)
       /\ losers = Restrict(tile.due, DOMAIN tile.due \ tile.misses)
  BY <1>5, <1>6 DEF H, L
<1>26. /\ eng.pc = "into" /\ drain = {} /\ tile.todo = {}
       /\ UNCHANGED <<cfg, pool, bytes, drain, pf, strayed>>
  BY <1>0
<1>27. SplitDue(fan, second, m, due, losers, misses) /\ (fan => m \in Experts)
  <2>1. IsMap(tile.due, Experts, Ids) /\ tile.misses \subseteq Experts
    BY DEF IInv, TypeInv, TileTyped
  <2>2. /\ IsMap(hits, Experts, Ids) /\ DOMAIN hits = DOMAIN tile.due \cap tile.misses
        /\ \A d \in DOMAIN hits : hits[d] = tile.due[d]
    BY <1>25, <2>1, RestrictIsMap
  <2>3. /\ IsMap(losers, Experts, Ids) /\ DOMAIN losers = DOMAIN tile.due \ tile.misses
        /\ \A d \in DOMAIN losers : losers[d] = tile.due[d]
    BY <1>25, <2>1, RestrictIsMap
  <2>4. fan => m \in wanted
    <3>1. ASSUME fan PROVE m \in wanted
      <4>1. wanted # {}
        <5>1. Cardinality(wanted) # 0
          BY <1>17, <3>1
        <5> QED BY <5>1, FS_EmptySet
      <4>2. wanted \subseteq Experts
        BY <1>17, <2>1
      <4> QED BY <1>12, <4>1, <4>2, GreatestExpert
    <3> QED BY <3>1
  <2>5. \A e \in single : fan /\ e = m
    BY <1>17
  <2>6. single \subseteq wanted
    BY <1>17, <2>4, <2>5
  <2>7. wanted \subseteq Experts /\ wanted \cap DOMAIN hits = {}
    BY <1>17, <2>1
  <2>8. misses = wanted \ single /\ tile.misses = DOMAIN hits \cup wanted
    BY <1>17, <2>2
  <2>9. /\ IsMap(due, Experts, Ids) /\ DOMAIN due = DOMAIN hits \cup single
        /\ \A d \in DOMAIN hits : d \notin single => due[d] = hits[d]
        /\ \A d \in single : due[d] = second
    <3>1. single \subseteq Experts
      BY <2>6, <2>7
    <3>2. IsMap(due, Experts, Ids)
      <4>1. PICK f : f = [e \in single |-> second]
        OBVIOUS
      <4>2. IsMap(f, Experts, Ids)
        BY <1>4, <3>1, <4>1 DEF IsMap
      <4>3. due = Over(f, hits)
        BY <1>17, <4>1
      <4>4. IsMap(hits, Experts, Ids)
        BY <2>2
      <4>5. IsMap(Over(f, hits), Experts, Ids)
        BY <4>2, <4>4, OverIsMap
      <4> QED BY <4>3, <4>5
    <3>3. DOMAIN due = DOMAIN hits \cup single
      BY <1>17, <2>2 DEF Over
    <3>4. \A d \in DOMAIN hits : d \notin single => due[d] = hits[d]
      BY <1>17, <2>2 DEF Over
    <3>5. \A d \in single : due[d] = second
      BY <1>17, <2>2 DEF Over
    <3> QED BY <3>2, <3>3, <3>4, <3>5
  <2>10. tile.misses = DOMAIN due \cup misses
    BY <2>6, <2>8, <2>9
  <2>11. \A d \in DOMAIN hits : due[d] = tile.due[d]
    BY <2>2, <2>6, <2>7, <2>9
  <2>12. \A e \in DOMAIN due : \/ e \in DOMAIN tile.due /\ due[e] = tile.due[e]
                               \/ fan /\ e = m /\ due[e] = second
    BY <2>2, <2>5, <2>9, <2>11
  <2>13. \A e \in DOMAIN losers :
           e \in DOMAIN tile.due /\ e \notin tile.misses /\ losers[e] = tile.due[e]
    BY <2>3
  <2>14. \A e \in DOMAIN tile.due : \/ e \in DOMAIN due /\ due[e] = tile.due[e]
                                    \/ e \in DOMAIN losers /\ losers[e] = tile.due[e]
    BY <2>2, <2>3, <2>9, <2>11
  <2>15. misses \subseteq Experts
    BY <2>7, <2>8
  <2>16. fan => m \in Experts
    BY <2>4, <2>7
  <2>17. IsMap(due, Experts, Ids) /\ IsMap(losers, Experts, Ids)
    BY <2>3, <2>9
  <2>18. SplitDue(fan, second, m, due, losers, misses)
    BY <2>10, <2>12, <2>13, <2>14, <2>15, <2>17 DEF SplitDue
  <2> QED BY <2>16, <2>18
<1>29. SplitSent(fan, first, second, m, demand, reads')
  <2>1. PICK r : r = reads'
    OBVIOUS
  <2>3. ReadsTyped /\ EngTyped
    BY DEF IInv, TypeInv
  <2>4. r = (IF batch THEN Put(s, first, y) ELSE s)
    BY <1>22, <2>1
  <2>5. /\ c = [i \in DOMAIN reads |-> c[i]]
        /\ \A i \in DOMAIN reads :
             c[i] = reads[i] \/ c[i] = [reads[i] EXCEPT !.st = "cancelled"]
    BY <1>18
  <2>6. SplitSent(fan, first, second, m, demand, r)
    BY <1>4, <1>13, <1>16, <1>19, <1>20, <1>21, <1>27, <2>3, <2>4, <2>5, SplitReads
  <2> QED BY <2>1, <2>6
<1>28. fan => ~alone
  BY <1>15, <1>17
<1> QED BY <1>4, <1>15, <1>23, <1>24, <1>26, <1>27, <1>28, <1>29,
           SplitMoves


-----------------------------------------------------------------------------
(* The invariant holds at start-up and every step keeps it.                  *)

LEMMA StartsEmpty ==
  ASSUME EInit PROVE IInv
<1>1. /\ pool = [map |-> None, pending |-> None, free |-> Slots, seen |-> [k \in Keys |-> 0]]
      /\ bytes = [s \in Slots |-> Torn] /\ reads = None /\ drain = {}
      /\ eng = [pc |-> "boot", pass |-> 0, layer |-> 0, tiles |-> <<>>, fan |-> None]
      /\ pf = [layer |-> 0, tk |-> None] /\ tile = NoTile /\ strayed = FALSE
  BY DEF EInit, NoSet
<1>2. /\ tile.route = {} /\ tile.due = None /\ tile.todo = {} /\ tile.losers = None
      /\ tile.into = None /\ tile.demand = 0 /\ tile.misses = {} /\ tile.failed = FALSE
      /\ tile.alone = FALSE /\ tile.lease = None /\ tile.retained = {} /\ tile.admit = {}
  BY <1>1 DEF NoTile
<1>3. DOMAIN None = {} /\ \A K, V : IsMap(None, K, V)
  BY NoneIsMap
<1>4. TypeInv
  <2>1. ReadsTyped
    BY <1>1, <1>3 DEF ReadsTyped, IsMap
  <2>2. eng.layer \in 0..NLayers /\ pf.layer \in 0..NLayers
    BY <1>1, LayerNumbers
  <2>3. EngTyped
    BY <1>1, <1>3, <2>2 DEF EngTyped
  <2>4. PfTyped
    BY <1>1, <1>3, <2>2 DEF PfTyped
  <2>5. TileTyped
    BY <1>1, <1>2, <1>3 DEF TileTyped, NoTile
  <2> QED BY <2>1, <2>3, <2>4, <2>5 DEF TypeInv
<1>5. PInv
  BY <1>1, <1>3 DEF PInv, PoolOk, PoolTyped, PoolOwned, PlainPool
<1>6. TicketsInv
  <2>1. TicketsKnown
    BY <1>1, <1>2, <1>3 DEF TicketsKnown, Known
  <2>2. TicketsLabelled
    BY <1>1, <1>2, <1>3 DEF TicketsLabelled
  <2>3. TicketsOnce
    BY <1>1, <1>2, <1>3 DEF TicketsOnce, Once, Apart, Aside
  <2> QED BY <2>1, <2>2, <2>3 DEF TicketsInv
<1>7. Control
  BY <1>1, <1>2, <1>3 DEF Control, DueTaken, DueFree, IntoFree, Before, After, Empty
<1>8. Coverage
  BY <1>1, <1>2, <1>3 DEF Coverage, After
<1>9. PlainReads
  BY <1>1, <1>3 DEF PlainReads
<1>10. SInv
  BY <1>1, <1>2, <1>3
  DEF SInv, ReadsReserved, ReadsDistinct, ReservationsRead, BytesRight, LeasesRight, Resident
<1> QED BY <1>4, <1>5, <1>6, <1>7, <1>8, <1>9, <1>10 DEF IInv

LEMMA RestKeeps ==
  ASSUME IInv, UNCHANGED evars PROVE IInv'
<1>1. UNCHANGED <<cfg, pool, bytes, reads, drain, eng, pf, tile, strayed>>
  BY DEF evars
<1>2. EngTyped' /\ PfTyped' /\ TileTyped' /\ Control' /\ Coverage'
  BY <1>1 DEF IInv, TypeInv, EngTyped, PfTyped, TileTyped, Control, DueTaken, DueFree, IntoFree,
              Coverage
<1> QED BY <1>1, <1>2, EngineMoves

LEMMA StepKeeps ==
  ASSUME IInv, [ENext]_evars PROVE IInv'
<1>1. CASE \E i \in DOMAIN reads : Claim(i) \/ \E ok \in BOOLEAN : EndRead(i, ok)
  BY <1>1, ClaimKeeps, EndReadKeeps
<1>2. CASE \E k \in Keys, ok \in BOOLEAN : SummerPreload(k, ok)
  BY <1>2, SummerPreloadKeeps
<1>3. CASE StartPass
  BY <1>3, StartPassKeeps
<1>4. CASE \E plan \in Plans : PlanSequenceStart(plan) \/ EarlyHint(plan) \/ LateHint(plan)
  <2>1. PICK plan \in Plans : PlanSequenceStart(plan) \/ EarlyHint(plan) \/ LateHint(plan)
    BY <1>4
  <2>2. CASE PlanSequenceStart(plan)
    <3>1. BeginSchedule(1, plan, "sched0") /\ eng.pc = "start"
      BY <2>2 DEF PlanSequenceStart, At
    <3> QED BY <3>1, BeginScheduleKeeps
  <2>3. CASE EarlyHint(plan)
    <3>1. BeginSchedule(eng.layer + 1, plan, "sched2") /\ eng.pc = "hint2"
      BY <2>3 DEF EarlyHint, At
    <3> QED BY <3>1, BeginScheduleKeeps
  <2>4. CASE LateHint(plan)
    <3>1. BeginSchedule(eng.layer + 1, plan, "sched1") /\ eng.pc = "promote"
      BY <2>4 DEF LateHint, Promoted, At
    <3> QED BY <3>1, BeginScheduleKeeps
  <2> QED BY <2>1, <2>2, <2>3, <2>4
<1>5. CASE ScheduleOne("sched0", "mailbox") \/ ScheduleOne("sched1", "kernel")
             \/ ScheduleOne("sched2", "fan")
  BY <1>5, ScheduleOneKeeps
<1>6. CASE EndSchedule("sched0", "mailbox") \/ EndSchedule("sched1", "kernel")
             \/ EndSchedule("sched2", "fan")
  BY <1>6, EndScheduleKeeps
<1>7. CASE \E tiles \in TileLists : BeginMailbox(tiles)
  BY <1>7, BeginMailboxKeeps
<1>8. CASE Topup \/ HoistDue \/ NoEarlyHint \/ FanOne \/ FanDone
  BY <1>8, TopupKeeps, HoistDueKeeps, NoEarlyHintKeeps, FanOneKeeps, FanDoneKeeps
<1>9. CASE ReadTile \/ IntoOne \/ SplitTickets \/ DrainLoser
  BY <1>9, ReadTileKeeps, IntoOneKeeps, SplitTicketsKeeps, DrainLoserKeeps
<1>10. CASE WaitHit \/ HitsWaited \/ WaitIntoSlot \/ SlotsWaited \/ WaitDemand
  BY <1>10, WaitHitKeeps, HitsWaitedKeeps, WaitIntoSlotKeeps, SlotsWaitedKeeps, WaitDemandKeeps
<1>11. CASE Promote \/ NoLateHint \/ FinishTile \/ KernelFails \/ AgeTick
  BY <1>11, PromoteKeeps, NoLateHintKeeps, FinishTileKeeps, KernelFailsKeeps, AgeTickKeeps
<1>12. CASE Finished \/ UNCHANGED evars
  BY <1>12, RestKeeps DEF Finished
<1> QED BY <1>1, <1>2, <1>3, <1>4, <1>5, <1>6, <1>7, <1>8, <1>9, <1>10, <1>11, <1>12 DEF ENext

-----------------------------------------------------------------------------
(* What the invariant says of the arena and of the tile.                     *)

\* A set with one member counts one.
LEMMA CountsOne ==
  ASSUME NEW S, NEW x \in S, \A y \in S : y = x
  PROVE  Cardinality(S) = 1
<1>1. S = {x}
  OBVIOUS
<1> QED BY <1>1, FS_Singleton

\* Three sources, one of which owns the slot.
LEMMA OwnersCountOne ==
  ASSUME PoolOk(pool) PROVE SlotsAreOwnedOnce
<1> SUFFICES ASSUME NEW s \in Slots
             PROVE  Cardinality({k \in Resident : pool.map[k] = s})
                      + Cardinality({k \in DOMAIN pool.pending : pool.pending[k] = s})
                      + (IF s \in pool.free THEN 1 ELSE 0) = 1
  BY DEF SlotsAreOwnedOnce
<1> DEFINE A == {k \in Resident : pool.map[k] = s}
           B == {k \in DOMAIN pool.pending : pool.pending[k] = s}
<1>1. /\ \A k \in Resident : pool.map[k] \in Slots \ pool.free
      /\ \A k \in DOMAIN pool.pending : pool.pending[k] \in Slots \ pool.free
  BY DEF PoolOk, PoolTyped, IsMap, Resident
<1>2. /\ \A j, k \in Resident : pool.map[j] = pool.map[k] => j = k
      /\ \A j, k \in DOMAIN pool.pending : pool.pending[j] = pool.pending[k] => j = k
      /\ \A j \in Resident, k \in DOMAIN pool.pending : pool.map[j] # pool.pending[k]
      /\ s \in pool.free \/ (\E k \in Resident : pool.map[k] = s)
                         \/ (\E k \in DOMAIN pool.pending : pool.pending[k] = s)
  BY DEF PoolOk, PoolOwned, Resident
<1>3. Cardinality({}) = 0
  BY FS_EmptySet
<1>4. CASE s \in pool.free
  <2>1. A = {} /\ B = {}
    BY <1>1, <1>4
  <2> QED BY <1>3, <1>4, <2>1
<1>5. CASE s \notin pool.free /\ \E k \in Resident : pool.map[k] = s
  <2>1. PICK k \in Resident : pool.map[k] = s
    BY <1>5
  <2>2. k \in A /\ \A j \in A : j = k
    BY <1>2, <2>1
  <2>3. B = {}
    BY <1>2, <2>1
  <2> HIDE DEF A
  <2>4. Cardinality(A) = 1
    BY <2>2, CountsOne
  <2> QED BY <1>3, <1>5, <2>3, <2>4 DEF A
<1>6. CASE s \notin pool.free /\ \E k \in DOMAIN pool.pending : pool.pending[k] = s
  <2>1. PICK k \in DOMAIN pool.pending : pool.pending[k] = s
    BY <1>6
  <2>2. k \in B /\ \A j \in B : j = k
    BY <1>2, <2>1
  <2>3. A = {}
    BY <1>2, <2>1
  <2> HIDE DEF B
  <2>4. Cardinality(B) = 1
    BY <2>2, CountsOne
  <2> QED BY <1>3, <1>6, <2>3, <2>4 DEF B
<1> QED BY <1>2, <1>4, <1>5, <1>6

\* The tile's leases cover its route while it is served.
LEMMA ServedIsLeased ==
  ASSUME IInv, Serving PROVE DOMAIN tile.lease = tile.route
BY DEF IInv, Coverage, Serving, After

\* While nothing strayed, each lease serves its expert's bytes.
LEMMA LeaseServes ==
  ASSUME IInv, ~strayed, NEW e \in DOMAIN tile.lease
  PROVE  Served(e) = Key(e)
<1>1. BytesRight /\ LeasesRight
  BY DEF IInv, SInv
<1>3. CASE tile.lease[e].slot = 0
  <2>1. \A k \in Resident : pool.map[k] # 0
    BY SlotsAreNat DEF IInv, PInv, PoolOk, PoolTyped, IsMap, Resident
  <2> QED BY <1>1, <1>3, <2>1 DEF LeasesRight, Served
<1>4. CASE tile.lease[e].slot # 0
  BY <1>1, <1>4 DEF LeasesRight, BytesRight, Served
<1> QED BY <1>3, <1>4

-----------------------------------------------------------------------------
(* The theorems.                                                             *)

\* The invariant of the cache, the prefetch and the tile holds of every
\* reachable state, for any number of layers, experts, slots, reads, passes and
\* read faults and any combination of the switches.
THEOREM CacheInvariance == ESpec => []IInv
<1>1. EInit => IInv
  BY StartsEmpty
<1>2. IInv /\ [ENext]_evars => IInv'
  BY StepKeeps
<1> QED BY <1>1, <1>2, PTL DEF ESpec

\* SummerPool: every slot of the arena is free, published or reserved, once,
\* also when reservations are lost to an abort.
THEOREM SlotsOwnedOnce == ESpec => []SlotsAreOwnedOnce
<1>1. IInv => SlotsAreOwnedOnce
  BY OwnersCountOne DEF IInv, PInv
<1> QED BY <1>1, CacheInvariance, PTL

\* The kernel of a tile reads the bytes of exactly the experts routed to
\* (read_expert_tile_with_prefetch, assemble_expert_spans), as long as no
\* reservation outlived its ticket nor a ticket its reservation.
THEOREM ServedRight == ESpec => []ServedBytesAreRight
<1>1. IInv => ServedBytesAreRight
  <2> SUFFICES ASSUME IInv, Serving, ~strayed
               PROVE  /\ DOMAIN tile.lease = tile.route
                      /\ \A e \in tile.route : Served(e) = Key(e)
    BY DEF ServedBytesAreRight
  <2>1. DOMAIN tile.lease = tile.route
    BY ServedIsLeased
  <2> QED BY <2>1, LeaseServes
<1> QED BY <1>1, CacheInvariance, PTL

\* Without K3_SUMMER_READ_INTO_SLOT, the default, that proviso is void: the
\* kernel always reads the right bytes.
THEOREM ServedRightByDefault ==
  ESpec => [](Serving /\ ~cfg.intoSlot =>
                /\ DOMAIN tile.lease = tile.route
                /\ \A e \in tile.route : Served(e) = Key(e))
<1>1. ServedBytesAreRight /\ IInv =>
        (Serving /\ ~cfg.intoSlot => /\ DOMAIN tile.lease = tile.route
                                     /\ \A e \in tile.route : Served(e) = Key(e))
  BY DEF ServedBytesAreRight, IInv, PlainReads
<1> QED BY <1>1, CacheInvariance, ServedRight, PTL

\* What summer_into_slot_candidate relies on ("no live entry or lease references
\* it", engine.rs:7716), for every combination of switches until a reservation
\* and its ticket part; without reads into slots, always.
THEOREM FreeIsUnreferenced ==
  ESpec => [](~strayed \/ ~cfg.intoSlot => FreeSlotsAreUnreferenced)
<1>1. ASSUME IInv, ~strayed PROVE FreeSlotsAreUnreferenced
  <2>1. ReadsReserved /\ LeasesRight
    BY <1>1 DEF IInv, SInv
  <2>2. /\ \A k \in Resident : pool.map[k] \notin pool.free
        /\ \A k \in DOMAIN pool.pending : pool.pending[k] \notin pool.free
        /\ 0 \notin pool.free
    BY <1>1, SlotsAreNat DEF IInv, PInv, PoolOk, PoolTyped, IsMap, Resident
  <2>3. \A e \in DOMAIN tile.lease : tile.lease[e].slot \notin pool.free
    BY <2>1, <2>2 DEF LeasesRight
  <2>4. pool.free \cap LeasedSlots = {}
    BY <2>3 DEF LeasedSlots, Range
  <2>5. \A i \in Held : i \in DOMAIN reads => reads[i].slot \notin pool.free
    BY <2>1, <2>2 DEF ReadsReserved, Into
  <2> QED BY <2>4, <2>5 DEF FreeSlotsAreUnreferenced
<1>2. IInv => (~strayed \/ ~cfg.intoSlot => FreeSlotsAreUnreferenced)
  BY <1>1 DEF IInv, PlainReads
<1> QED BY <1>2, CacheInvariance, PTL


\* What summer_publish_pending says ("The read landed and validated",
\* engine.rs:7728), with the same proviso: a published slot holds its key's bytes.
THEOREM PublishedIsValid ==
  ESpec => [](~strayed \/ ~cfg.intoSlot => PublishedSlotsAreValid)
<1>1. IInv => (~strayed \/ ~cfg.intoSlot => PublishedSlotsAreValid)
  BY DEF IInv, PlainReads, SInv, BytesRight, PublishedSlotsAreValid
<1> QED BY <1>1, CacheInvariance, PTL

=============================================================================
