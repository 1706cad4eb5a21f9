----------------------------- MODULE RuntimeProofs -----------------------------
(***************************************************************************)
(* What is promised of the runtime around its provider, for every value of   *)
(* the constants.  A failed pass is contained, wherever refusals and unusable *)
(* reports fall.  No wrapper of the provider outlives the memory under it,   *)
(* whatever the limits of the pool and the graveyard and whichever hook fails. *)
(* No handle of a session is forgotten on an error path.  A Qwen drafter that  *)
(* was switched off is tried again.  And DSpark drafts from nothing but the    *)
(* target's own history.                                                     *)
(***************************************************************************)
EXTENDS TargetPass, RetainStore, ProviderHandles, QwenDraft, DSparkDraft, FiniteSetTheorems,
        SequenceTheorems, TLAPS

-----------------------------------------------------------------------------
(* The target pass: the inductive invariant.                                 *)

\* Between layers no source is borrowed; within one, the one in use may be;
\* once an error is on its way out, what the provider kept may outlive it.
Between == {"ready", "prime", "bind", "upload", "tail", "commit", "settle"}
Within == {"prepare", "mailbox", "planned", "fence", "reclaim"}
Over == {"failing", "poisoned", "closed"}
PassPlaces == Between \cup Within \cup Over \cup {"layer_failed"}

SeqType == [handle : Nat, st : {"none", "active", "waiting", "tail", "commit"},
               next : Nat, row : Nat, plan : BOOLEAN]
Uses == [gen : Nat, slot : Slots \cup {0}, sealed : BOOLEAN]
ProvType == [seq : SeqType, uses : SUBSET Uses, committed : Nat, alive : BOOLEAN]
PassType ==
  [pc : PassPlaces, n : Nat, layer : Layers, hand : Slots \cup {0}, full : BOOLEAN,
   backend : Backends, committed : Nat, suppress : BOOLEAN]

\* A queue of reads: each into a slot of its own, none of them in T.
IsPipe(q, T) ==
  /\ \E L : q \in Seq([layer : L, slot : Slots])
  /\ \A i, j \in DOMAIN q : q[i].slot = q[j].slot => i = j
  /\ SlotsOf(q) \cap T = {}
PipeFields == {"gen", "pending", "resident", "poisoned", "use", "leaked"}

Typed ==
  /\ prov \in ProvType /\ sequ \in SeqType /\ pass \in PassType /\ DOMAIN pipe = PipeFields
  /\ pipe.gen \in Nat /\ pipe.resident \subseteq Layers /\ pipe.poisoned \in BOOLEAN
  /\ pipe.use \in Uses /\ pipe.leaked \subseteq Slots

\* Spine reads go into slots of their own, and into none that is in use, in hand
\* or leaked.
Apart == IsPipe(pipe.pending, {pipe.use.slot, pass.hand} \cup pipe.leaked)

\* What the provider reads is the use in flight, or leaked with a session that
\* is never destroyed.
Leaks(u) == u.slot \in pipe.leaked /\ pass.suppress
Borrowed ==
  \A u \in prov.uses :
    /\ u.gen # 0 /\ u.slot \in Slots
    /\ (u.gen = pipe.use.gen /\ u.slot = pipe.use.slot /\ pass.pc # "closed") \/ Leaks(u)

InHand == pass.hand # 0 <=> pass.pc = "upload"

Kept ==
  /\ pass.pc \in Between => prov.uses = {} /\ pipe.use = NoUse
  /\ pass.pc \notin Over => pipe.leaked = {}
  /\ pass.pc \in Between \cup Within => ~pipe.poisoned
  /\ pass.pc \in {"ready", "prime"} => pipe.pending = <<>>
  /\ pass.pc = "closed" => (prov.uses = {} \/ prov.alive)
  /\ pass.pc # "closed" => prov.alive

\* The engine and its provider agree until a call fails.
Agree ==
  /\ pass.pc \in Between \cup Within => prov.seq = sequ /\ pass.committed = prov.committed
  /\ pass.pc \in {"ready", "settle"} => sequ = NoSeq

PassInv == Typed /\ Apart /\ Borrowed /\ InHand /\ Kept /\ Agree

-----------------------------------------------------------------------------
(* Facts about the slots of the arena and about queues of reads.             *)

LEMMA MinOfTwo ==
  ASSUME NEW a \in Int, NEW b \in Int
  PROVE  Min({a, b}) \in Int /\ Min({a, b}) <= a /\ Min({a, b}) <= b
<1>1. \E x \in {a, b} : \A y \in {a, b} : x <= y
  OBVIOUS
<1> QED BY <1>1 DEF Min

LEMMA ArenaSize ==
  /\ IsFiniteSet(Slots) /\ Cardinality(Slots) = Lookahead + 1 /\ 0 \notin Slots
  /\ Slots # {} /\ Lookahead \in Nat
<1>1. Lookahead \in Nat /\ 1 \in Int /\ Lookahead + 1 \in Int
  BY PassAssumption
<1>2. IsFiniteSet(1 .. (Lookahead + 1)) /\ Cardinality(1 .. (Lookahead + 1)) = Lookahead + 1
  BY <1>1, FS_Interval
<1>3. 1 \in Slots /\ 0 \notin Slots
  BY <1>1 DEF Slots
<1> QED BY <1>1, <1>2, <1>3 DEF Slots

\* The slots of a queue are no more than its reads.
LEMMA QueueSlots ==
  ASSUME NEW L, NEW q \in Seq([layer : L, slot : Slots])
  PROVE  /\ SlotsOf(q) \subseteq Slots /\ IsFiniteSet(SlotsOf(q))
         /\ Cardinality(SlotsOf(q)) <= Len(q) /\ Len(q) \in Nat /\ DOMAIN q = 1 .. Len(q)
<1> DEFINE R == [layer : L, slot : Slots]
<1>1. Len(q) \in Nat /\ DOMAIN q = 1 .. Len(q) /\ \A i \in DOMAIN q : q[i].slot \in Slots
  <2>1. Len(q) \in Nat /\ DOMAIN q = 1 .. Len(q) /\ \A i \in 1 .. Len(q) : q[i] \in R
    <3> HIDE DEF R
    <3>1. q \in Seq(R)
      BY DEF R
    <3> QED BY <3>1, LenProperties, ElementOfSeq
  <2> QED BY <2>1
<1>2. IsFiniteSet(DOMAIN q) /\ Cardinality(DOMAIN q) = Len(q)
  <2>1. \A m \in Nat : IsFiniteSet(1 .. m) /\ Cardinality(1 .. m) = m
    <3> TAKE m \in Nat
    <3>1. /\ IsFiniteSet(1 .. m)
          /\ Cardinality(1 .. m) = IF 1 > m THEN 0 ELSE m - 1 + 1
      BY FS_Interval
    <3> QED BY <3>1
  <2> QED BY <1>1, <2>1
<1> DEFINE g == [i \in DOMAIN q |-> q[i].slot]
<1>3. g \in Surjection(DOMAIN q, SlotsOf(q))
  BY DEF Surjection, SlotsOf
<1>4. IsFiniteSet(SlotsOf(q)) /\ Cardinality(SlotsOf(q)) <= Cardinality(DOMAIN q)
  BY <1>2, <1>3, FS_Surjection
<1> QED BY <1>1, <1>2, <1>4 DEF SlotsOf

\* As long as nothing but one slot in use is taken, the reads that still fit
\* behind q find a slot each.
LEMMA SlotsSuffice ==
  ASSUME NEW L, NEW q \in Seq([layer : L, slot : Slots]), NEW s, NEW taken,
         taken \subseteq {0, s}, NEW n \in Nat, n <= Lookahead - Len(q)
  PROVE  Injection(1 .. n, Slots \ (taken \cup SlotsOf(q))) # {}
<1> DEFINE free == Slots \ (taken \cup SlotsOf(q))
           rest == (Slots \ {s}) \ SlotsOf(q)
           m == Cardinality(free)
<1>1. /\ IsFiniteSet(SlotsOf(q)) /\ Cardinality(SlotsOf(q)) <= Len(q) /\ Len(q) \in Nat
      /\ Cardinality(SlotsOf(q)) \in Nat
  BY QueueSlots, FS_CardinalityType
<1>2. /\ IsFiniteSet(Slots \ {s}) /\ Cardinality(Slots \ {s}) >= Lookahead
      /\ Cardinality(Slots \ {s}) \in Nat /\ Lookahead \in Nat
  <2>1. /\ IsFiniteSet(Slots \ {s})
        /\ Cardinality(Slots \ {s}) =
             IF s \in Slots THEN Cardinality(Slots) - 1 ELSE Cardinality(Slots)
    BY ArenaSize, FS_RemoveElement
  <2> QED BY <2>1, ArenaSize
<1>3. /\ IsFiniteSet(rest) /\ Cardinality(rest) \in Nat
      /\ Cardinality(rest) = Cardinality(Slots \ {s}) - Cardinality((Slots \ {s}) \cap SlotsOf(q))
  BY <1>1, <1>2, FS_Difference, FS_CardinalityType
<1>4. /\ Cardinality((Slots \ {s}) \cap SlotsOf(q)) <= Cardinality(SlotsOf(q))
      /\ Cardinality((Slots \ {s}) \cap SlotsOf(q)) \in Nat
  BY <1>1, FS_Intersection, FS_CardinalityType
<1>5. Cardinality(rest) >= n
  BY <1>1, <1>2, <1>3, <1>4
<1>6. IsFiniteSet(free) /\ rest \subseteq free
  <2>1. free \subseteq Slots /\ rest \subseteq free
    BY ArenaSize
  <2> QED BY <2>1, ArenaSize, FS_Subset
<1>7. m \in Nat /\ Cardinality(rest) <= m /\ ExistsBijection(1 .. m, free)
  BY <1>6, FS_Subset, FS_CardinalityType
<1>8. PICK b : b \in Bijection(1 .. m, free)
  BY <1>7 DEF ExistsBijection
<1> HIDE DEF free, rest, m
<1>9. n <= m
  BY <1>3, <1>5, <1>7
<1>10. [i \in 1 .. n |-> b[i]] \in Injection(1 .. n, free)
  BY <1>7, <1>8, <1>9 DEF Bijection, Injection, IsInjective
<1> QED BY <1>10 DEF free

\* Reading ahead keeps every read in a slot of its own, apart from what is taken.
LEMMA FillsApart ==
  ASSUME PassInv, NEW q, NEW taken, NEW s, taken \subseteq {0, s}, IsPipe(q, taken)
  PROVE  IsPipe(FillPending(q, taken), taken)
<1> DEFINE want == {l \in Layers : l > Behind(q) /\ l \notin pipe.resident}
           n == Min({Lookahead - Len(q), Cardinality(want)})
           free == Slots \ (taken \cup SlotsOf(q))
           into == CHOOSE f \in Injection(1 .. n, free) : TRUE
           w == [i \in 1 .. n |-> [layer |-> InOrder(want)[i], slot |-> into[i]]]
<1>1. FillPending(q, taken) = q \o w
  BY DEF FillPending
<1>2. PICK L : q \in Seq([layer : L, slot : Slots])
  BY DEF IsPipe
<1>3. n \in Int /\ n <= Lookahead - Len(q) /\ Len(q) \in Nat
  <2>1. IsFiniteSet(want)
    <3>1. IsFiniteSet(Layers)
      BY PassAssumption, FS_Interval DEF Layers
    <3> QED BY <3>1, FS_Subset
  <2>2. Cardinality(want) \in Int /\ Lookahead - Len(q) \in Int /\ Len(q) \in Nat
    BY <1>2, <2>1, FS_CardinalityType, ArenaSize
  <2> HIDE DEF want
  <2> QED BY <2>2, MinOfTwo
<1> DEFINE M == {InOrder(want)[i] : i \in 1 .. n}
<1>4. PICK k \in Nat : 1 .. n = 1 .. k /\ (k >= 1 => k = n)
  <2> HIDE DEF n
  <2>1. CASE n >= 1
    <3>1. n \in Nat
      BY <1>3, <2>1
    <3> QED BY <3>1
  <2>2. CASE n < 1
    <3>1. 1 .. n = 1 .. 0 /\ 0 \in Nat /\ ~(0 >= 1)
      BY <1>3, <2>2
    <3> QED BY <3>1
  <2> QED BY <1>3, <2>1, <2>2
<1> HIDE DEF want, n
<1>5. \A i \in 1 .. k : into[i] \in free /\ \A j \in 1 .. k : into[i] = into[j] => i = j
  <2>1. CASE k >= 1
    <3>1. Injection(1 .. n, free) # {}
      BY <1>2, <1>3, <1>4, <2>1, SlotsSuffice
    <3>2. into \in Injection(1 .. n, free)
      BY <3>1
    <3> HIDE DEF into, free
    <3> QED BY <1>4, <3>2 DEF Injection, IsInjective
  <2>2. CASE ~(k >= 1)
    BY <1>4, <2>2
  <2> QED BY <2>1, <2>2
<1> HIDE DEF into
<1>6. IsPipe(q \o w, taken)
  <2>2. /\ w \in Seq([layer : M, slot : Slots]) /\ Len(w) = k
        /\ \A i \in 1 .. k : w[i].slot \in free
        /\ \A i, j \in 1 .. k : w[i].slot = w[j].slot => i = j
    <3>1. /\ \A i \in 1 .. k : into[i] \in free
          /\ \A i, j \in 1 .. k : into[i] = into[j] => i = j
      BY <1>5
    <3>2. \A i \in 1 .. k : w[i] = [layer |-> InOrder(want)[i], slot |-> into[i]]
      BY <1>4
    <3>5. w = [i \in 1 .. k |-> [layer |-> InOrder(want)[i], slot |-> into[i]]]
      BY <1>4
    <3>3. w \in [1 .. k -> [layer : M, slot : Slots]] /\ DOMAIN w = 1 .. k
      BY <1>4, <3>1, <3>5
    <3>4. w \in Seq([layer : M, slot : Slots]) /\ Len(w) = k
      <4> HIDE DEF w, M
      <4>1. \A T : \A f \in [1 .. k -> T] : f \in Seq(T)
        OBVIOUS
      <4>2. w \in Seq([layer : M, slot : Slots])
        BY <3>3, <4>1
      <4> QED BY <3>3, <4>2, LenProperties
    <3> HIDE DEF w, M, free
    <3> QED BY <3>1, <3>2, <3>4
  <2> HIDE DEF w, M
  <2> DEFINE R == [layer : L \cup M, slot : Slots]
  <2>3. q \in Seq(R) /\ w \in Seq(R)
    <3>1. [layer : L, slot : Slots] \subseteq R /\ [layer : M, slot : Slots] \subseteq R
      OBVIOUS
    <3> HIDE DEF R
    <3> QED BY <1>2, <2>2, <3>1, SeqMonotonic
  <2>4. /\ q \o w \in Seq(R) /\ Len(q \o w) = Len(q) + k
        /\ \A i \in 1 .. Len(q) + k :
             (q \o w)[i] = IF i <= Len(q) THEN q[i] ELSE w[i - Len(q)]
    <3> HIDE DEF R
    <3>1. /\ q \o w \in Seq(R) /\ Len(q \o w) = Len(q) + Len(w)
          /\ \A i \in 1 .. Len(q) + Len(w) :
               (q \o w)[i] = IF i <= Len(q) THEN q[i] ELSE w[i - Len(q)]
      BY <2>3, ConcatProperties, Zenon
    <3>2. Len(w) = k
      BY <2>2
    <3> QED BY <3>1, <3>2
  <2> DEFINE t == q \o w
  <2> HIDE DEF t, R
  <2>5. /\ DOMAIN q = 1 .. Len(q) /\ DOMAIN t = 1 .. Len(q) + k
        /\ \A i \in 1 .. Len(q) : q[i].slot \in SlotsOf(q) /\ q[i].slot \notin taken
    BY <1>2, <1>3, <1>4, <2>4 DEF SlotsOf, IsPipe, t
  <2>6. \A i \in 1 .. Len(q) + k :
          \/ i \in 1 .. Len(q) /\ t[i] = q[i]
          \/ i - Len(q) \in 1 .. k /\ t[i] = w[i - Len(q)] /\ i > Len(q)
    BY <1>3, <1>4, <2>4 DEF t
  <2>7. \A i, j \in DOMAIN t : t[i].slot = t[j].slot => i = j
    <3> SUFFICES ASSUME NEW i \in DOMAIN t, NEW j \in DOMAIN t, t[i].slot = t[j].slot
                 PROVE  i = j
      OBVIOUS
    <3>1. CASE i \in 1 .. Len(q) /\ t[i] = q[i] /\ j \in 1 .. Len(q) /\ t[j] = q[j]
      BY <2>5, <3>1 DEF IsPipe
    <3>2. CASE i \in 1 .. Len(q) /\ t[i] = q[i] /\ j - Len(q) \in 1 .. k /\ t[j] = w[j - Len(q)]
      BY <2>2, <2>5, <3>2
    <3>3. CASE j \in 1 .. Len(q) /\ t[j] = q[j] /\ i - Len(q) \in 1 .. k /\ t[i] = w[i - Len(q)]
      BY <2>2, <2>5, <3>3
    <3>4. CASE /\ i - Len(q) \in 1 .. k /\ t[i] = w[i - Len(q)]
               /\ j - Len(q) \in 1 .. k /\ t[j] = w[j - Len(q)]
      <4>1. i - Len(q) = j - Len(q) /\ i \in Int /\ j \in Int
        BY <1>3, <2>2, <2>5, <3>4
      <4> QED BY <1>3, <4>1
    <3> QED BY <2>5, <2>6, <3>1, <3>2, <3>3, <3>4
  <2>8. SlotsOf(t) \cap taken = {}
    <3>1. \A i \in DOMAIN t : t[i].slot \notin taken
      BY <2>2, <2>5, <2>6
    <3> QED BY <3>1 DEF SlotsOf
  <2>9. t \in Seq([layer : L \cup M, slot : Slots])
    BY <2>4 DEF t, R
  <2>10. IsPipe(t, taken)
    BY <2>7, <2>8, <2>9 DEF IsPipe
  <2> QED BY <2>10 DEF t
<1> QED BY <1>1, <1>6

\* Fewer reads, or less that is taken, stay apart.
LEMMA StaysApart ==
  ASSUME NEW q, NEW T, IsPipe(q, T), NEW U, U \subseteq T
  PROVE  IsPipe(q, U)
BY DEF IsPipe

LEMMA NothingApart == ASSUME NEW T PROVE IsPipe(<<>>, T)
<1>1. <<>> \in Seq([layer : {}, slot : Slots]) /\ DOMAIN <<>> = {}
  OBVIOUS
<1> QED BY <1>1 DEF IsPipe, SlotsOf

LEMMA OneApart ==
  ASSUME NEW l, NEW s \in Slots, NEW T, s \notin T
  PROVE  IsPipe(<<[layer |-> l, slot |-> s]>>, T)
<1> DEFINE q == <<[layer |-> l, slot |-> s]>>
<1>1. q \in Seq([layer : {l}, slot : Slots]) /\ DOMAIN q = {1} /\ q[1].slot = s
  OBVIOUS
<1> HIDE DEF q
<1>2. IsPipe(q, T)
  BY <1>1 DEF IsPipe, SlotsOf
<1> QED BY <1>2 DEF q

\* Taking the read at the head gives its slot up to the taker.
LEMMA TailApart ==
  ASSUME NEW q, NEW T, IsPipe(q, T), q # <<>>
  PROVE  /\ Head(q).slot \in Slots /\ Head(q).slot \notin T
         /\ IsPipe(Tail(q), T \cup {Head(q).slot})
<1>1. PICK L : q \in Seq([layer : L, slot : Slots])
  BY DEF IsPipe
<1> DEFINE R == [layer : L, slot : Slots]
           t == Tail(q)
           hd == Head(q)
<1>2. /\ Len(q) \in Nat \ {0} /\ DOMAIN q = 1 .. Len(q) /\ hd = q[1] /\ hd \in R
      /\ t \in Seq(R) /\ DOMAIN t = 1 .. Len(q) - 1
      /\ \A i \in 1 .. Len(q) - 1 : t[i] = q[i + 1]
  <2>1. q \in Seq(R)
    BY <1>1
  <2> HIDE DEF R
  <2> QED BY <2>1, HeadTailProperties, LenProperties
<1> HIDE DEF t, hd
<1>3. hd.slot \in Slots /\ 1 \in DOMAIN q
  BY <1>2
<1>4. hd.slot \notin T
  BY <1>2, <1>3 DEF IsPipe, SlotsOf
<1>5. \A i \in DOMAIN t : i + 1 \in DOMAIN q /\ t[i] = q[i + 1] /\ i + 1 # 1 /\ i \in Int
  BY <1>2
<1>6. \A i, j \in DOMAIN t : t[i].slot = t[j].slot => i = j
  <2> SUFFICES ASSUME NEW i \in DOMAIN t, NEW j \in DOMAIN t, t[i].slot = t[j].slot
               PROVE  i = j
    OBVIOUS
  <2>1. i + 1 = j + 1
    BY <1>5 DEF IsPipe
  <2> QED BY <1>5, <2>1
<1>7. SlotsOf(t) \cap (T \cup {hd.slot}) = {}
  <2>1. ASSUME NEW i \in DOMAIN t
        PROVE  t[i].slot \notin T /\ t[i].slot # hd.slot
    <3>1. i + 1 \in DOMAIN q /\ t[i] = q[i + 1] /\ i + 1 # 1
      BY <1>5
    <3>2. q[i + 1].slot \in SlotsOf(q)
      BY <3>1 DEF SlotsOf
    <3>3. q[i + 1].slot \notin T
      BY <3>2 DEF IsPipe
    <3>4. q[i + 1].slot # q[1].slot
      BY <3>1, <1>3 DEF IsPipe
    <3> QED BY <3>1, <3>3, <3>4, <1>2
  <2> QED BY <2>1 DEF SlotsOf
<1>8. IsPipe(t, T \cup {hd.slot})
  BY <1>2, <1>6, <1>7 DEF IsPipe
<1> QED BY <1>3, <1>4, <1>8 DEF t, hd

LEMMA ConstantFacts ==
  /\ NoSeq \in SeqType /\ NoUse \in Uses /\ NoUse.slot = 0 /\ NoUse.gen = 0 /\ 0 \in Layers
  /\ Rows \in Nat \ {0} /\ NLayers \in Nat
BY PassAssumption DEF NoSeq, SeqType, NoUse, Uses, Layers

-----------------------------------------------------------------------------
(* The initial state and the calls that only move the sequence.              *)

LEMMA InitHolds == TInit => PassInv
<1> SUFFICES ASSUME TInit PROVE PassInv
  OBVIOUS
<1>1. Typed
  <2>1. prov \in ProvType /\ sequ \in SeqType
    BY ConstantFacts DEF TInit, ProvType
  <2>2. pass \in PassType
    <3>1. PICK b \in Backends :
            pass = [pc |-> "ready", n |-> 0, layer |-> 0, hand |-> 0, full |-> FALSE,
                    backend |-> b, committed |-> 0, suppress |-> FALSE]
      BY DEF TInit
    <3>2. "ready" \in PassPlaces /\ 0 \in Slots \cup {0} /\ 0 \in Layers
      BY ConstantFacts DEF PassPlaces, Between
    <3> QED BY <3>1, <3>2 DEF PassType
  <2>3. /\ DOMAIN pipe = PipeFields /\ pipe.gen \in Nat /\ pipe.resident \subseteq Layers
        /\ pipe.poisoned \in BOOLEAN /\ pipe.use \in Uses /\ pipe.leaked \subseteq Slots
    BY ConstantFacts DEF TInit, PipeFields
  <2> QED BY <2>1, <2>2, <2>3 DEF Typed
<1>2. Apart
  BY NothingApart DEF TInit, Apart
<1>3. Borrowed /\ InHand /\ Kept /\ Agree
  BY DEF TInit, Borrowed, InHand, Kept, Agree, Between, Within, Over
<1> QED BY <1>1, <1>2, <1>3 DEF PassInv

\* Between calls the sequence moves on where wrapper and provider agree, or the
\* layer or the pass fails.
LEMMA CallKeeps ==
  ASSUME PassInv, NEW to, pass' = [pass EXCEPT !.pc = to], pipe' = pipe,
         prov' \in ProvType, sequ' \in SeqType, prov'.uses = prov.uses,
         prov'.alive = prov.alive, prov'.committed = prov.committed,
         \/ to \in Within /\ pass.pc \in Within /\ prov'.seq = sequ'
         \/ to = "commit" /\ pass.pc = "tail" /\ prov'.seq = sequ'
         \/ to = "layer_failed" /\ pass.pc \in Within
         \/ to = "failing" /\ pass.pc \in Between \ {"upload"}
  PROVE  PassInv'
<1>1. /\ to \in PassPlaces /\ pass' \in PassType /\ pass'.pc = to /\ pass'.hand = pass.hand
      /\ pass'.suppress = pass.suppress /\ pass'.committed = pass.committed
  BY DEF PassInv, Typed, PassType, PassPlaces, Between, Within, Over
<1>2. Typed'
  BY <1>1 DEF PassInv, Typed
<1>3. Apart'
  BY <1>1 DEF PassInv, Apart
<1>4. Borrowed'
  BY <1>1 DEF PassInv, Borrowed, Leaks, Within, Between
<1>5. InHand'
  BY <1>1 DEF PassInv, InHand, Within
<1>6. Kept'
  BY <1>1 DEF PassInv, Kept, Within, Between, Over
<1>7. Agree'
  BY <1>1 DEF PassInv, Agree, Within, Between
<1> QED BY <1>2, <1>3, <1>4, <1>5, <1>6, <1>7 DEF PassInv

LEMMA AdvanceType ==
  ASSUME PassInv, NEW o \in Outcomes, NEW c \in Outcomes, NEW next \in SeqType,
         Advance(o, next, c)
  PROVE  /\ prov' \in ProvType /\ sequ' \in SeqType /\ prov'.uses = prov.uses
         /\ prov'.alive = prov.alive /\ prov'.committed = prov.committed
         /\ o = "ok" => prov'.seq = sequ' /\ sequ' = next
BY ConstantFacts DEF PassInv, Typed, ProvType, Advance

LEMMA AfterTileType ==
  ASSUME PassInv, NEW k \in 1 .. Rows
  PROVE  AfterTile(k) \in SeqType
<1>1. sequ \in SeqType /\ k \in Nat
  BY ConstantFacts DEF PassInv, Typed
<1>2. PICK r \in Nat, m \in Nat : r = sequ.row + k /\ m = sequ.next + 1
  BY <1>1 DEF SeqType
<1>3. PICK st \in {"tail", "active"} : st = IF m = NLayers THEN "tail" ELSE "active"
  OBVIOUS
<1>4. [sequ EXCEPT !.row = r, !.plan = FALSE] \in SeqType
  BY <1>1 DEF SeqType
<1>5. [sequ EXCEPT !.row = 0, !.plan = FALSE, !.next = m, !.st = st] \in SeqType
  BY <1>1 DEF SeqType
<1> QED BY <1>2, <1>3, <1>4, <1>5 DEF AfterTile

LEMMA PrepareKeeps ==
  ASSUME PassInv, NEW o \in Outcomes, NEW c \in Outcomes, Prepare(o, c)
  PROVE  PassInv'
<1> DEFINE next == IF pass.layer = 0 THEN [sequ EXCEPT !.next = 1]
                                     ELSE [sequ EXCEPT !.st = "waiting", !.row = 0]
           to == IF o # "ok" THEN "layer_failed" ELSE IF pass.layer = 0 THEN "fence" ELSE "mailbox"
<1>1. next \in SeqType
  BY DEF PassInv, Typed, SeqType
<1>2. Advance(o, next, c) /\ pass.pc = "prepare" /\ pass' = [pass EXCEPT !.pc = to] /\ pipe' = pipe
  BY DEF Prepare, Go
<1>3. to \in Within \/ to = "layer_failed"
  BY DEF Within
<1>4. o = "ok" \/ to = "layer_failed"
  OBVIOUS
<1> HIDE DEF next, to
<1> QED BY <1>1, <1>2, <1>3, <1>4, AdvanceType, CallKeeps DEF Within

LEMMA FinishKeeps ==
  ASSUME PassInv, NEW k \in 1 .. Rows, NEW o \in Outcomes, NEW c \in Outcomes,
         FinishExpertTile(k, o, c) \/ FinishPlannedTile(k, o, c)
  PROVE  PassInv'
<1> DEFINE to == IF o # "ok" THEN "layer_failed"
                 ELSE IF sequ.row + k < Rows THEN "mailbox" ELSE "fence"
<1>1. PICK next \in SeqType : next = AfterTile(k)
  BY AfterTileType
<1>2. /\ Advance(o, next, c) /\ pass.pc \in {"mailbox", "planned"}
      /\ pass' = [pass EXCEPT !.pc = to] /\ pipe' = pipe
  BY <1>1 DEF FinishExpertTile, FinishPlannedTile, AfterFinish, Go
<1>3. to \in Within \/ to = "layer_failed"
  BY DEF Within
<1>4. o = "ok" \/ to = "layer_failed"
  OBVIOUS
<1> HIDE DEF to
<1> QED BY <1>1, <1>2, <1>3, <1>4, AdvanceType, CallKeeps DEF Within

LEMMA PlanKeeps ==
  ASSUME PassInv, NEW o \in Outcomes, NEW c \in Outcomes, PlanExpertTile(o, c)
  PROVE  PassInv'
<1> DEFINE to == IF o = "ok" THEN "planned" ELSE "layer_failed"
<1>1. pass.pc = "mailbox" /\ pass' = [pass EXCEPT !.pc = to] /\ pipe' = pipe
  BY DEF PlanExpertTile, Go
<1>2. [sequ EXCEPT !.plan = TRUE] \in SeqType
  BY DEF PassInv, Typed, SeqType
<1>3. PICK next \in SeqType : next = [sequ EXCEPT !.plan = TRUE]
  BY <1>2
<1>4. CASE o = "refused"
  <2>1. prov' = prov /\ sequ' = sequ /\ prov \in ProvType /\ sequ \in SeqType /\ to = "layer_failed"
    BY <1>4 DEF PlanExpertTile, PassInv, Typed
  <2> HIDE DEF to
  <2> QED BY <1>1, <2>1, CallKeeps DEF Within
<1>5. CASE o # "refused"
  <2>1. Advance(o, next, c)
    BY <1>3, <1>5 DEF PlanExpertTile
  <2>2. (o = "ok" /\ to = "planned") \/ to = "layer_failed"
    OBVIOUS
  <2> HIDE DEF to
  <2> QED BY <1>1, <2>1, <2>2, AdvanceType, CallKeeps DEF Within
<1> QED BY <1>4, <1>5

LEMMA MissKeeps ==
  ASSUME PassInv, NEW c \in Outcomes, MissReadFails(c)
  PROVE  PassInv'
<1>1. /\ pass.pc = "planned" /\ pass' = [pass EXCEPT !.pc = "layer_failed"] /\ pipe' = pipe
      /\ sequ' = [sequ EXCEPT !.plan = FALSE]
      /\ prov' = IF c = "ok" THEN [prov EXCEPT !.seq = [prov.seq EXCEPT !.plan = FALSE]] ELSE prov
  BY DEF MissReadFails, Go, PassInv, Typed, ProvType
<1>2. sequ' \in SeqType /\ [prov.seq EXCEPT !.plan = FALSE] \in SeqType
  BY <1>1 DEF PassInv, Typed, SeqType, ProvType
<1>3. /\ prov' \in ProvType /\ prov'.uses = prov.uses /\ prov'.alive = prov.alive
      /\ prov'.committed = prov.committed
  BY <1>1, <1>2 DEF PassInv, Typed, ProvType
<1> QED BY <1>1, <1>2, <1>3, CallKeeps DEF Within

LEMMA HintKeeps ==
  ASSUME PassInv, NEW o \in Outcomes, NEW c \in Outcomes, TakePrefetchHint(o, c)
  PROVE  PassInv'
<1>1. /\ pass.pc = "mailbox" /\ pass' = [pass EXCEPT !.pc = "layer_failed"] /\ pipe' = pipe
      /\ Advance(o, sequ, c) /\ sequ \in SeqType
  BY DEF TakePrefetchHint, Go, PassInv, Typed
<1> QED BY <1>1, AdvanceType, CallKeeps DEF Within

LEMMA TailKeeps ==
  ASSUME PassInv, NEW o \in Outcomes, NEW c \in Outcomes, FinishTail(o, c)
  PROVE  PassInv'
<1> DEFINE to == IF o = "ok" THEN "commit" ELSE "failing"
<1>1. [sequ EXCEPT !.st = "commit"] \in SeqType
  BY DEF PassInv, Typed, SeqType
<1>2. PICK next \in SeqType : next = [sequ EXCEPT !.st = "commit"]
  BY <1>1
<1>3. Advance(o, next, c) /\ pass.pc = "tail" /\ pass' = [pass EXCEPT !.pc = to] /\ pipe' = pipe
  BY <1>2 DEF FinishTail, Go
<1>4. (o = "ok" /\ to = "commit") \/ to = "failing"
  OBVIOUS
<1> HIDE DEF to
<1> QED BY <1>3, <1>4, AdvanceType, CallKeeps DEF Between

-----------------------------------------------------------------------------
(* Beginning a chunk, and the spine reads.                                   *)

LEMMA BeginKeeps ==
  ASSUME PassInv, NEW full \in BOOLEAN, NEW o \in Outcomes, NEW c \in Outcomes, Begin(full, o, c)
  PROVE  PassInv'
<1> DEFINE new == [NoSeq EXCEPT !.handle = pass.n + 1, !.st = "active"]
<1>1. new \in SeqType
  <2>1. pass.n + 1 \in Nat
    BY DEF PassInv, Typed, PassType
  <2> QED BY <2>1, ConstantFacts DEF SeqType
<1>2. /\ prov' = IF o = "ok" \/ (o = "garbled" /\ c # "ok") THEN [prov EXCEPT !.seq = new] ELSE prov
      /\ sequ' = IF o = "ok" THEN new ELSE NoSeq
  BY DEF Begin, FromReport
<1> HIDE DEF new
<1>3. /\ prov' \in ProvType /\ sequ' \in SeqType /\ prov'.uses = prov.uses
      /\ prov'.alive = prov.alive /\ prov'.committed = prov.committed
      /\ o = "ok" => prov'.seq = sequ'
  BY <1>1, <1>2, ConstantFacts DEF PassInv, Typed, ProvType
<1>4. /\ pass.pc = "ready" /\ pipe' = pipe /\ pass'.pc = IF o = "ok" THEN "prime" ELSE "failing"
      /\ pass' \in PassType /\ pass'.hand = pass.hand /\ pass'.suppress = pass.suppress
      /\ pass'.committed = pass.committed
  <2>1. pass \in PassType /\ pass.pc = "ready" /\ pipe' = pipe /\ pass.n \in Nat
    BY DEF Begin, PassInv, Typed, PassType
  <2>2. PICK m \in Nat, to \in PassPlaces :
          m = pass.n + 1 /\ to = IF o = "ok" THEN "prime" ELSE "failing"
    BY <2>1 DEF PassPlaces, Between, Over
  <2>3. pass' = [pass EXCEPT !.n = m, !.full = full, !.layer = 0, !.pc = to] /\ 0 \in Layers
    BY <2>2, ConstantFacts DEF Begin
  <2> QED BY <2>1, <2>2, <2>3 DEF PassType
<1>5. Typed' /\ Apart'
  BY <1>3, <1>4 DEF PassInv, Typed, Apart
<1>6. Borrowed' /\ InHand'
  BY <1>3, <1>4 DEF PassInv, Borrowed, Leaks, InHand, Kept, Between
<1>7. Kept' /\ Agree'
  BY <1>3, <1>4 DEF PassInv, Kept, Agree, Between, Within, Over
<1> QED BY <1>5, <1>6, <1>7 DEF PassInv

\* A step of the pipeline that moves spine reads only.
LEMMA ReadsKeep ==
  ASSUME PassInv, NEW q, NEW to, NEW hand \in Slots \cup {0}, pass.pc \in {"prime", "bind"},
         pass' = [pass EXCEPT !.pc = to, !.hand = hand],
         pipe' = [pipe EXCEPT !.pending = q] \/ (pipe' = pipe /\ q = pipe.pending),
         prov' = prov, sequ' = sequ,
         IsPipe(q, {0, hand}),
         \/ to \in {"bind", "prepare"} /\ hand = 0 /\ ~pipe.poisoned
         \/ to = "upload" /\ hand # 0 /\ ~pipe.poisoned
         \/ to = "failing" /\ hand = 0
  PROVE  PassInv'
<1>1. /\ pipe'.gen = pipe.gen /\ pipe'.resident = pipe.resident /\ pipe'.poisoned = pipe.poisoned
      /\ pipe'.use = pipe.use /\ pipe'.leaked = pipe.leaked /\ pipe'.pending = q
      /\ DOMAIN pipe' = PipeFields
  BY DEF PassInv, Typed, PipeFields
<1>2. /\ pass' \in PassType /\ pass'.pc = to /\ pass'.hand = hand
      /\ pass'.suppress = pass.suppress /\ pass'.committed = pass.committed
  BY DEF PassInv, Typed, PassType, PassPlaces, Between, Within, Over
<1>3. /\ prov.uses = {} /\ pipe.use = NoUse /\ pipe.leaked = {} /\ NoUse.slot = 0
      /\ ~pipe.poisoned /\ prov.alive
  BY ConstantFacts DEF PassInv, Kept, Between, Within, Over
<1>4. Typed'
  BY <1>1, <1>2 DEF PassInv, Typed
<1>5. Apart'
  BY <1>1, <1>2, <1>3, StaysApart DEF Apart
<1>6. Borrowed' /\ InHand'
  BY <1>2, <1>3 DEF PassInv, Borrowed, InHand
<1>7. Kept'
  BY <1>1, <1>2, <1>3 DEF PassInv, Kept, Between, Within, Over
<1>8. Agree'
  BY <1>2 DEF PassInv, Agree, Between, Within
<1> QED BY <1>4, <1>5, <1>6, <1>7, <1>8 DEF PassInv

LEMMA PrimeKeeps == ASSUME PassInv, Prime PROVE PassInv'
<1>1. /\ pass.pc = "prime" /\ pass.hand = 0 /\ pipe.pending = <<>> /\ ~pipe.poisoned
      /\ prov' = prov /\ sequ' = sequ /\ pipe.use.slot = 0 /\ pipe.leaked = {}
  BY ConstantFacts DEF Prime, PassInv, InHand, Kept, Between, Within, Over
<1>2. pass' = [pass EXCEPT !.pc = "bind", !.hand = 0]
  BY <1>1 DEF Prime, Go, PassInv, Typed, PassType
<1>3. CASE 0 \in pipe.resident
  <2>1. pipe' = pipe /\ pipe.pending = <<>> /\ 0 \in Slots \cup {0} /\ {0, 0} = {0}
    BY <1>1, <1>3 DEF Prime
  <2> QED BY <1>1, <1>2, <2>1, NothingApart, ReadsKeep
<1>4. CASE 0 \notin pipe.resident
  <2>1. AFreeSlot \in Slots
    <3>1. Held = {0} /\ Free = Slots
      BY <1>1, ArenaSize DEF Held, SlotsOf, Free
    <3> QED BY <3>1, ArenaSize DEF AFreeSlot
  <2>2. PICK q : q = <<[layer |-> 0, slot |-> AFreeSlot]>>
    OBVIOUS
  <2>3. IsPipe(q, {0})
    BY <2>1, <2>2, OneApart, ArenaSize
  <2>4. pipe' = [pipe EXCEPT !.pending = q] /\ {0, 0} = {0}
    BY <1>1, <1>4, <2>2 DEF Prime
  <2> QED BY <1>1, <1>2, <2>3, <2>4, ReadsKeep
<1> QED BY <1>3, <1>4

LEMMA ResidentKeeps == ASSUME PassInv, BindResident PROVE PassInv'
<1>1. /\ pass.pc = "bind" /\ pass.hand = 0 /\ ~pipe.poisoned
      /\ prov' = prov /\ sequ' = sequ /\ pipe.use.slot = 0 /\ pipe.leaked = {}
  BY ConstantFacts DEF BindResident, PassInv, InHand, Kept, Between, Within, Over
<1>2. pass' = [pass EXCEPT !.pc = "prepare", !.hand = 0]
  BY <1>1 DEF BindResident, Go, PassInv, Typed, PassType
<1>3. IsPipe(pipe.pending, {0}) /\ pipe.leaked \cup {pipe.use.slot} = {0} /\ {0, 0} = {0}
  <2>1. {pipe.use.slot, pass.hand} \cup pipe.leaked = {0}
    BY <1>1
  <2>2. IsPipe(pipe.pending, {pipe.use.slot, pass.hand} \cup pipe.leaked)
    BY DEF PassInv, Apart
  <2>3. IsPipe(pipe.pending, {0})
    BY <2>1, <2>2
  <2> QED BY <1>1, <2>3
<1>4. PICK q : q = FillPending(pipe.pending, {0})
  OBVIOUS
<1>5. IsPipe(q, {0})
  BY <1>3, <1>4, FillsApart
<1>6. pipe' = [pipe EXCEPT !.pending = q]
  BY <1>3, <1>4 DEF BindResident
<1> QED BY <1>1, <1>2, <1>3, <1>5, <1>6, ReadsKeep

LEMMA ReadKeeps ==
  ASSUME PassInv, NEW o \in Outcomes, ReadCurrent(o)
  PROVE  PassInv'
<1> DEFINE expected == pipe.pending = <<>> \/ Head(pipe.pending).layer = pass.layer
           slot == IF pipe.pending = <<>> THEN AFreeSlot ELSE Head(pipe.pending).slot
           rest == IF pipe.pending = <<>> THEN <<>> ELSE Tail(pipe.pending)
<1>1. /\ pass.pc = "bind" /\ pass.hand = 0 /\ ~pipe.poisoned
      /\ prov' = prov /\ sequ' = sequ /\ pipe.use.slot = 0 /\ pipe.leaked = {}
  BY ConstantFacts DEF ReadCurrent, PassInv, InHand, Kept, Between, Within, Over
<1>2. IsPipe(pipe.pending, {0})
  <2>1. {pipe.use.slot, pass.hand} \cup pipe.leaked = {0}
    BY <1>1
  <2>2. IsPipe(pipe.pending, {pipe.use.slot, pass.hand} \cup pipe.leaked)
    BY DEF PassInv, Apart
  <2> QED BY <2>1, <2>2
<1>3. slot \in Slots /\ IsPipe(rest, {0, slot})
  <2>1. CASE pipe.pending = <<>>
    <3>1. Held = {0} /\ Free = Slots
      BY <1>1, <2>1, ArenaSize DEF Held, SlotsOf, Free
    <3> QED BY <2>1, <3>1, ArenaSize, NothingApart DEF AFreeSlot
  <2>2. CASE pipe.pending # <<>>
    <3>1. PICK q : q = pipe.pending
      OBVIOUS
    <3>2. Head(q).slot \in Slots /\ IsPipe(Tail(q), {0} \cup {Head(q).slot})
      BY <1>2, <2>2, <3>1, TailApart
    <3>3. slot = Head(q).slot /\ rest = Tail(q) /\ {0} \cup {slot} = {0, slot}
      BY <2>2, <3>1
    <3> QED BY <3>2, <3>3
  <2> QED BY <2>1, <2>2
<1>4. CASE expected /\ o = "ok"
  <2>1. /\ pipe' = [pipe EXCEPT !.pending =
                      FillPending(rest, pipe.leaked \cup {slot, pipe.use.slot})]
        /\ pass' = [pass EXCEPT !.hand = slot, !.pc = "upload"]
    BY <1>4 DEF ReadCurrent
  <2> HIDE DEF rest, slot, expected
  <2>2. pipe.leaked \cup {slot, pipe.use.slot} = {0, slot}
    BY <1>1
  <2>3. PICK q : q = FillPending(rest, {0, slot})
    OBVIOUS
  <2>4. IsPipe(q, {0, slot})
    BY <1>3, <2>3, FillsApart
  <2>5. pipe' = [pipe EXCEPT !.pending = q] /\ slot # 0
    BY <1>3, <2>1, <2>2, <2>3, ArenaSize
  <2>6. pass' = [pass EXCEPT !.pc = "upload", !.hand = slot]
    BY <2>1 DEF PassInv, Typed, PassType
  <2> QED BY <1>1, <1>3, <2>4, <2>5, <2>6, ReadsKeep
<1>5. CASE ~(expected /\ o = "ok")
  <2>1. /\ pipe' = IF expected THEN [pipe EXCEPT !.pending = rest] ELSE pipe
        /\ pass' = [pass EXCEPT !.pc = "failing"]
    BY <1>5 DEF ReadCurrent, Go
  <2> HIDE DEF rest, slot, expected
  <2>2. PICK q : q = IF expected THEN rest ELSE pipe.pending
    OBVIOUS
  <2>3. /\ pipe' = [pipe EXCEPT !.pending = q] \/ (pipe' = pipe /\ q = pipe.pending)
        /\ pass' = [pass EXCEPT !.pc = "failing", !.hand = 0]
    BY <1>1, <2>1, <2>2 DEF PassInv, Typed, PassType
  <2>4. IsPipe(q, {0, 0})
    <3>1. IsPipe(rest, {0})
      BY <1>3, StaysApart
    <3>2. {0, 0} = {0}
      OBVIOUS
    <3> QED BY <1>2, <2>2, <3>1, <3>2
  <2> QED BY <1>1, <2>3, <2>4, ReadsKeep
<1> QED BY <1>4, <1>5

-----------------------------------------------------------------------------
(* Borrowing a source, and giving it back.                                   *)

LEMMA BindKeeps ==
  ASSUME PassInv, NEW borrow \in BOOLEAN, NEW named \in BOOLEAN, NEW o \in Outcomes,
         NEW a \in Outcomes, Bind(borrow, o, named, a)
  PROVE  PassInv'
<1> DEFINE use == [gen |-> pipe.gen + 1, slot |-> pass.hand, sealed |-> FALSE]
           leak == Leaked(borrow, o, named, a)
           held == borrow /\ Happened(o) /\ ~(o = "garbled" /\ named /\ Happened(a))
           to == IF o = "ok" THEN "prepare" ELSE "failing"
<1>1. /\ pass.pc = "upload" /\ pass.hand \in Slots /\ ~pipe.poisoned /\ prov.uses = {}
      /\ pipe.use = NoUse /\ NoUse.slot = 0 /\ pipe.leaked = {} /\ prov.alive /\ sequ' = sequ
  BY ConstantFacts DEF Bind, PassInv, Typed, PassType, InHand, Kept, Between, Within, Over
<1>2. /\ prov' = IF held THEN [prov EXCEPT !.uses = {use}] ELSE prov
      /\ pass' = [pass EXCEPT !.hand = 0, !.pc = to, !.suppress = @ \/ leak]
      /\ o = "ok" => pipe' = [pipe EXCEPT !.gen = use.gen,
                                !.resident = IF Retained THEN @ \cup {pass.layer} ELSE @,
                                !.use = IF borrow THEN use ELSE @]
      /\ o # "ok" => pipe' = [pipe EXCEPT !.pending = <<>>,
                                !.leaked = IF leak THEN @ \cup {use.slot} ELSE @]
  BY <1>1 DEF Bind, Admit
<1>3. use \in Uses /\ use.gen \in Nat \ {0} /\ use.slot = pass.hand
  <2>1. pipe.gen \in Nat
    BY DEF PassInv, Typed
  <2> QED BY <1>1, <2>1 DEF Uses
<1>4. /\ o = "ok" => (held <=> borrow) /\ ~leak
      /\ held /\ o # "ok" => leak
      /\ leak \in BOOLEAN /\ held \in BOOLEAN
  BY DEF Leaked, Happened, Outcomes
<1> HIDE DEF use, leak, held
<1>5. /\ prov' \in ProvType /\ prov'.uses = (IF held THEN {use} ELSE {})
      /\ prov'.alive = prov.alive /\ prov'.committed = prov.committed /\ prov'.seq = prov.seq
  BY <1>1, <1>2, <1>3 DEF PassInv, Typed, ProvType
<1>6. /\ pass' \in PassType /\ pass'.hand = 0 /\ pass'.pc = to /\ (leak => pass'.suppress)
      /\ pass'.committed = pass.committed
  <2>1. to \in PassPlaces
    BY DEF PassPlaces, Within, Over
  <2>2. pass \in PassType /\ pass.suppress \in BOOLEAN
    BY DEF PassInv, Typed, PassType
  <2>3. PICK b \in BOOLEAN : b = (pass.suppress \/ leak)
    OBVIOUS
  <2>4. pass' = [pass EXCEPT !.hand = 0, !.pc = to, !.suppress = b]
    BY <1>2, <2>3
  <2> HIDE DEF to
  <2> QED BY <2>1, <2>2, <2>3, <2>4 DEF PassType
<1>7. CASE o = "ok"
  <2>1. /\ pipe'.gen = use.gen /\ pipe'.pending = pipe.pending /\ pipe'.poisoned = pipe.poisoned
        /\ pipe'.resident \subseteq Layers /\ pipe'.leaked = {} /\ DOMAIN pipe' = PipeFields
        /\ pipe'.use = IF borrow THEN use ELSE NoUse
    <3>1. /\ DOMAIN pipe = PipeFields /\ pass.layer \in Layers /\ pipe.resident \subseteq Layers
      BY DEF PassInv, Typed, PassType
    <3>2. PICK r, u : /\ r = IF Retained THEN pipe.resident \cup {pass.layer} ELSE pipe.resident
                      /\ u = IF borrow THEN use ELSE pipe.use
      OBVIOUS
    <3>3. pipe' = [pipe EXCEPT !.gen = use.gen, !.resident = r, !.use = u]
      BY <1>2, <1>7, <3>2
    <3>4. r \subseteq Layers /\ u = IF borrow THEN use ELSE NoUse
      BY <1>1, <3>1, <3>2
    <3> QED BY <1>1, <3>1, <3>3, <3>4 DEF PipeFields
  <2>2. Typed'
    BY <1>1, <1>3, <1>5, <1>6, <2>1 DEF PassInv, Typed
  <2>3. Apart'
    <3>1. {pipe'.use.slot, pass'.hand} \cup pipe'.leaked
            \subseteq {pipe.use.slot, pass.hand} \cup pipe.leaked
      BY <1>1, <1>3, <1>6, <2>1
    <3> QED BY <2>1, <3>1, StaysApart DEF PassInv, Apart
  <2>4. Borrowed' /\ InHand'
    BY <1>1, <1>3, <1>4, <1>5, <1>6, <1>7, <2>1 DEF Borrowed, InHand
  <2>5. Kept' /\ Agree'
    BY <1>1, <1>5, <1>6, <1>7, <2>1 DEF PassInv, Kept, Agree, Between, Within, Over
  <2> QED BY <2>2, <2>3, <2>4, <2>5 DEF PassInv
<1>8. CASE o # "ok"
  <2>1. /\ pipe'.gen = pipe.gen /\ pipe'.pending = <<>> /\ pipe'.poisoned = pipe.poisoned
        /\ pipe'.resident = pipe.resident /\ DOMAIN pipe' = PipeFields
        /\ pipe'.leaked = (IF leak THEN {pass.hand} ELSE {}) /\ pipe'.use = NoUse
    BY <1>1, <1>2, <1>3, <1>8 DEF PassInv, Typed, PipeFields
  <2>2. Typed'
    BY <1>1, <1>5, <1>6, <2>1 DEF PassInv, Typed
  <2>3. Apart'
    BY <2>1, NothingApart DEF Apart
  <2>4. Borrowed' /\ InHand'
    BY <1>1, <1>3, <1>4, <1>5, <1>6, <1>8, <2>1 DEF Borrowed, Leaks, InHand
  <2>5. Kept' /\ Agree'
    BY <1>1, <1>5, <1>6, <1>8, <2>1 DEF PassInv, Kept, Agree, Between, Within, Over
  <2> QED BY <2>2, <2>3, <2>4, <2>5 DEF PassInv
<1> QED BY <1>7, <1>8

\* A step that may end the borrow: what the provider reads afterwards is what it
\* read before, unless the provider took the abort or the reclaim.
Ends(to, layer) ==
  /\ pass.pc \in Within \cup {"layer_failed"}
  /\ pass' = [pass EXCEPT !.pc = to, !.layer = layer]
  /\ sequ' = sequ /\ prov' \in ProvType /\ prov'.alive = prov.alive
  /\ prov'.committed = prov.committed /\ prov'.seq = prov.seq
  /\ prov'.uses \subseteq prov.uses
  /\ DOMAIN pipe' = PipeFields /\ pipe'.gen = pipe.gen /\ pipe'.pending = pipe.pending
  /\ pipe'.resident = pipe.resident /\ pipe'.leaked = pipe.leaked
  /\ pipe'.poisoned \in BOOLEAN /\ pipe'.use \in Uses
  /\ \/ pipe'.use.gen = pipe.use.gen /\ pipe'.use.slot = pipe.use.slot
     \/ pipe'.use = NoUse /\ prov'.uses = {}
  /\ to \in Between => pipe'.use = NoUse /\ prov'.uses = {}
  /\ to \in Between \cup Within => pass.pc \in Within /\ ~pipe'.poisoned

LEMMA GivesBack ==
  ASSUME PassInv, NEW to \in PassPlaces \ {"upload", "ready", "prime", "settle", "closed"},
         NEW layer \in Layers, Ends(to, layer)
  PROVE  PassInv'
<1> USE DEF Ends
<1>1. /\ pass' \in PassType /\ pass'.pc = to /\ pass'.hand = pass.hand
      /\ pass'.suppress = pass.suppress /\ pass'.committed = pass.committed
  BY DEF PassInv, Typed, PassType
<1>2. pipe.leaked = {} /\ NoUse.slot = 0 /\ pass.hand = 0 /\ prov.alive
  BY ConstantFacts DEF PassInv, Kept, InHand, Within, Over
<1>3. Typed'
  BY <1>1 DEF PassInv, Typed
<1>4. Apart'
  <2>1. {pipe'.use.slot, pass'.hand} \cup pipe'.leaked
          \subseteq {pipe.use.slot, pass.hand} \cup pipe.leaked
    BY <1>1, <1>2
  <2> QED BY <2>1, StaysApart DEF PassInv, Apart
<1>5. Borrowed' /\ InHand'
  BY <1>1, <1>2 DEF PassInv, Borrowed, Leaks, InHand
<1>6. Kept'
  BY <1>1, <1>2 DEF PassInv, Kept, Between, Within, Over
<1>7. Agree'
  BY <1>1 DEF PassInv, Agree, Between, Within
<1> QED BY <1>3, <1>4, <1>5, <1>6, <1>7 DEF PassInv

LEMMA LayerFailedKeeps ==
  ASSUME PassInv, NEW o \in Outcomes, LayerFailed(o)
  PROVE  PassInv'
<1>1. /\ pass.pc = "layer_failed" /\ sequ' = sequ /\ pass.layer \in Layers
      /\ pass' = [pass EXCEPT !.pc = "failing", !.layer = pass.layer]
      /\ "failing" \in PassPlaces \ {"upload", "ready", "prime", "settle", "closed"}
  BY DEF LayerFailed, Go, PassInv, Typed, PassType, PassPlaces, Over
<1>2. /\ DOMAIN pipe = PipeFields /\ pipe.poisoned \in BOOLEAN /\ pipe.use \in Uses
      /\ prov \in ProvType
  BY DEF PassInv, Typed
<1>3. \A u \in prov.uses : u.gen = pipe.use.gen
  BY <1>1 DEF PassInv, Borrowed, Leaks, Kept, Over
<1>4. CASE pipe.use = NoUse
  <2>1. prov' = prov /\ pipe' = pipe
    BY <1>4 DEF LayerFailed
  <2>2. Ends("failing", pass.layer)
    BY <1>1, <1>2, <2>1 DEF Ends, Between, Within
  <2> QED BY <1>1, <2>2, GivesBack
<1>5. CASE pipe.use # NoUse
  <2>1. /\ prov' = IF o # "refused" THEN [prov EXCEPT !.uses = {}] ELSE prov
        /\ pipe' = IF o = "ok" THEN [pipe EXCEPT !.use = NoUse] ELSE [pipe EXCEPT !.poisoned = TRUE]
    BY <1>1, <1>3, <1>5 DEF LayerFailed, Abort, Happened
  <2>2. /\ prov' \in ProvType /\ prov'.alive = prov.alive /\ prov'.committed = prov.committed
        /\ prov'.seq = prov.seq /\ prov'.uses \subseteq prov.uses
        /\ o = "ok" => prov'.uses = {}
    BY <1>2, <2>1 DEF ProvType
  <2>3. /\ DOMAIN pipe' = PipeFields /\ pipe'.gen = pipe.gen /\ pipe'.pending = pipe.pending
        /\ pipe'.resident = pipe.resident /\ pipe'.leaked = pipe.leaked
        /\ pipe'.poisoned \in BOOLEAN
        /\ pipe'.use = IF o = "ok" THEN NoUse ELSE pipe.use
    BY <1>2, <2>1 DEF PipeFields
  <2>4. Ends("failing", pass.layer)
    BY <1>1, <1>2, <2>2, <2>3, ConstantFacts DEF Ends, Between, Within
  <2> QED BY <1>1, <2>4, GivesBack
<1> QED BY <1>4, <1>5

\* Where a layer's end leaves the pass.
LEMMA NextLayerType ==
  ASSUME PassInv, NextLayer
  PROVE  \E to \in {"tail", "bind"}, layer \in Layers :
           pass' = [pass EXCEPT !.pc = to, !.layer = layer]
<1>1. pass.layer \in 0 .. (NLayers - 1) /\ NLayers \in Nat
  BY ConstantFacts DEF PassInv, Typed, PassType, Layers
<1>2. (IF pass.layer + 1 = NLayers THEN pass.layer ELSE pass.layer + 1) \in Layers
  BY <1>1 DEF Layers
<1>3. PICK to \in {"tail", "bind"}, layer \in Layers :
        /\ to = IF pass.layer + 1 = NLayers THEN "tail" ELSE "bind"
        /\ layer = IF pass.layer + 1 = NLayers THEN pass.layer ELSE pass.layer + 1
  BY <1>2
<1>4. pass' = [pass EXCEPT !.layer = layer, !.pc = to]
  BY <1>3 DEF NextLayer
<1>5. [pass EXCEPT !.layer = layer, !.pc = to] = [pass EXCEPT !.pc = to, !.layer = layer]
  BY DEF PassInv, Typed, PassType
<1> QED BY <1>4, <1>5

LEMMA NoFenceKeeps == ASSUME PassInv, NoFence PROVE PassInv'
<1>1. PICK to \in {"tail", "bind"}, layer \in Layers :
        pass' = [pass EXCEPT !.pc = to, !.layer = layer]
  BY NextLayerType DEF NoFence
<1>2. /\ pass.pc = "fence" /\ pipe.use = NoUse /\ prov' = prov /\ pipe' = pipe /\ sequ' = sequ
      /\ DOMAIN pipe = PipeFields /\ ~pipe.poisoned /\ pipe.poisoned \in BOOLEAN
      /\ prov \in ProvType /\ NoUse \in Uses
      /\ to \in PassPlaces \ {"upload", "ready", "prime", "settle", "closed"}
  BY ConstantFacts DEF NoFence, PassInv, Typed, Kept, Within, PassPlaces, Between
<1>3. prov.uses = {}
  BY <1>2, ConstantFacts DEF PassInv, Borrowed, Leaks, Kept, Over
<1>4. Ends(to, layer)
  BY <1>1, <1>2, <1>3 DEF Ends, Within
<1> QED BY <1>2, <1>4, GivesBack

LEMMA SealKeeps ==
  ASSUME PassInv, NEW o \in Outcomes, Seal(o)
  PROVE  PassInv'
<1>1. PICK to \in PassPlaces \ {"upload", "ready", "prime", "settle", "closed"} :
        /\ to = IF o = "ok" THEN "reclaim" ELSE "layer_failed"
        /\ pass' = [pass EXCEPT !.pc = to, !.layer = pass.layer]
  BY DEF Seal, Go, PassInv, Typed, PassType, PassPlaces, Within
<1>2. /\ pass.pc = "fence" /\ prov' = prov /\ sequ' = sequ /\ pass.layer \in Layers
      /\ DOMAIN pipe = PipeFields /\ ~pipe.poisoned /\ pipe.poisoned \in BOOLEAN
      /\ prov \in ProvType /\ pipe.use \in Uses
      /\ to \notin Between
  BY <1>1 DEF Seal, PassInv, Typed, PassType, Kept, Within, Between
<1>3. [pipe.use EXCEPT !.sealed = TRUE] \in Uses
  BY <1>2 DEF Uses
<1>4. pipe' = IF o = "ok" THEN [pipe EXCEPT !.use = [pipe.use EXCEPT !.sealed = TRUE]] ELSE pipe
  BY <1>2 DEF Seal, PipeFields
<1>5. /\ DOMAIN pipe' = PipeFields /\ pipe'.gen = pipe.gen /\ pipe'.pending = pipe.pending
      /\ pipe'.resident = pipe.resident /\ pipe'.leaked = pipe.leaked
      /\ pipe'.poisoned = pipe.poisoned /\ pipe'.use \in Uses
      /\ pipe'.use.gen = pipe.use.gen /\ pipe'.use.slot = pipe.use.slot
  BY <1>2, <1>3, <1>4 DEF PipeFields, Uses
<1>6. Ends(to, pass.layer)
  BY <1>1, <1>2, <1>5 DEF Ends, Within
<1> QED BY <1>2, <1>6, GivesBack

LEMMA ReclaimKeeps ==
  ASSUME PassInv, NEW done \in BOOLEAN, NEW o \in Outcomes, Reclaim(done, o)
  PROVE  PassInv'
<1>1. /\ pass.pc = "reclaim" /\ sequ' = sequ /\ pass.layer \in Layers
      /\ DOMAIN pipe = PipeFields /\ ~pipe.poisoned /\ pipe.poisoned \in BOOLEAN
      /\ prov \in ProvType /\ pipe.use \in Uses
      /\ NoUse \in Uses
  BY ConstantFacts DEF Reclaim, PassInv, Typed, PassType, Kept, Within
<1>2. \A u \in prov.uses : u.gen = pipe.use.gen
  BY <1>1 DEF PassInv, Borrowed, Leaks, Kept, Over
<1>3. prov' = IF done /\ o # "refused" THEN [prov EXCEPT !.uses = {}] ELSE prov
  BY <1>2 DEF Reclaim, Happened
<1>4. /\ prov' \in ProvType /\ prov'.alive = prov.alive /\ prov'.committed = prov.committed
      /\ prov'.seq = prov.seq /\ prov'.uses \subseteq prov.uses
      /\ done /\ o = "ok" => prov'.uses = {}
  BY <1>1, <1>3 DEF ProvType
<1>5. CASE done /\ o = "ok"
  <2>1. pipe' = [pipe EXCEPT !.use = NoUse]
    BY <1>5 DEF Reclaim
  <2>2. PICK to \in {"tail", "bind"}, layer \in Layers :
          pass' = [pass EXCEPT !.pc = to, !.layer = layer]
    BY <1>5, NextLayerType DEF Reclaim
  <2>3. /\ DOMAIN pipe' = PipeFields /\ pipe'.gen = pipe.gen /\ pipe'.pending = pipe.pending
        /\ pipe'.resident = pipe.resident /\ pipe'.leaked = pipe.leaked
        /\ pipe'.poisoned = pipe.poisoned /\ pipe'.use = NoUse
        /\ to \in PassPlaces \ {"upload", "ready", "prime", "settle", "closed"}
    BY <1>1, <2>1 DEF PipeFields, PassPlaces, Between
  <2>4. Ends(to, layer)
    BY <1>1, <1>4, <1>5, <2>2, <2>3 DEF Ends, Within
  <2> QED BY <2>3, <2>4, GivesBack
<1>6. CASE ~(done /\ o = "ok")
  <2>1. PICK poison \in BOOLEAN : poison = (pipe.poisoned \/ o # "ok")
    OBVIOUS
  <2>2. pipe' = [pipe EXCEPT !.poisoned = poison]
    BY <1>6, <2>1 DEF Reclaim
  <2>3. pass' = [pass EXCEPT !.pc = "layer_failed", !.layer = pass.layer]
    BY <1>6 DEF Reclaim, Go, PassInv, Typed, PassType
  <2>4. /\ DOMAIN pipe' = PipeFields /\ pipe'.gen = pipe.gen /\ pipe'.pending = pipe.pending
        /\ pipe'.resident = pipe.resident /\ pipe'.leaked = pipe.leaked
        /\ pipe'.poisoned = poison /\ pipe'.use = pipe.use
        /\ "layer_failed" \in PassPlaces \ {"upload", "ready", "prime", "settle", "closed"}
    BY <1>1, <2>2 DEF PipeFields, PassPlaces
  <2>5. Ends("layer_failed", pass.layer)
    BY <1>1, <1>4, <2>1, <2>3, <2>4 DEF Ends, Within, Between
  <2> QED BY <1>1, <2>4, <2>5, GivesBack
<1> QED BY <1>5, <1>6

-----------------------------------------------------------------------------
(* The end of a pass and of the engine.                                      *)

\* Steps that only drop spine reads and the sequence.
LEMMA EndsKeep ==
  ASSUME PassInv, NEW to \in {"ready", "settle", "failing", "poisoned"}, NEW done \in Nat,
         pass' = [pass EXCEPT !.pc = to, !.committed = done],
         \/ pipe' = pipe \/ pipe' = [pipe EXCEPT !.pending = <<>>],
         sequ' \in SeqType, prov' \in ProvType, prov'.uses = prov.uses, prov'.alive = prov.alive,
         \/ pass.pc = "commit" /\ to \in {"settle", "failing"}
         \/ pass.pc = "settle" /\ to \in {"ready", "poisoned"}
         \/ pass.pc = "failing" /\ to = "poisoned",
         to \in {"ready", "settle"} =>
           sequ' = NoSeq /\ prov'.seq = NoSeq /\ done = prov'.committed,
         to = "ready" => pipe'.pending = <<>>
  PROVE  PassInv'
<1>1. /\ pass' \in PassType /\ pass'.pc = to /\ pass'.hand = pass.hand
      /\ pass'.suppress = pass.suppress /\ pass'.committed = done
  <2>1. to \in PassPlaces
    BY DEF PassPlaces, Between, Over
  <2> QED BY <2>1 DEF PassInv, Typed, PassType
<1>2. /\ DOMAIN pipe' = PipeFields /\ pipe'.gen = pipe.gen /\ pipe'.use = pipe.use
      /\ pipe'.pending \in {pipe.pending, <<>>} /\ pipe'.poisoned = pipe.poisoned
      /\ pipe'.leaked = pipe.leaked /\ pipe'.resident = pipe.resident
  BY DEF PassInv, Typed, PipeFields
<1>3. Typed'
  BY <1>1, <1>2 DEF PassInv, Typed
<1>4. Apart'
  BY <1>1, <1>2, NothingApart DEF PassInv, Apart
<1>5. Borrowed' /\ InHand'
  BY <1>1, <1>2 DEF PassInv, Borrowed, Leaks, InHand
<1>6. Kept'
  BY <1>1, <1>2 DEF PassInv, Kept, Between, Within, Over
<1>7. Agree'
  BY <1>1 DEF Agree, Between, Within
<1> QED BY <1>3, <1>4, <1>5, <1>6, <1>7 DEF PassInv

LEMMA CommitKeeps ==
  ASSUME PassInv, NEW k \in 1 .. Rows, NEW o \in Outcomes, NEW c \in Outcomes, Commit(k, o, c)
  PROVE  PassInv'
<1>1. /\ pass.pc = "commit" /\ sequ' = NoSeq /\ pipe' = pipe /\ NoSeq \in SeqType /\ k \in Nat
      /\ prov \in ProvType /\ pass \in PassType /\ pass.committed = prov.committed
      /\ prov.committed \in Nat /\ pass.committed \in Nat
  BY ConstantFacts DEF Commit, PassInv, Typed, PassType, ProvType, Agree, Between
<1>2. PICK sum \in Nat : sum = prov.committed + k
  BY <1>1
<1>3. /\ prov' = IF o # "refused" THEN [prov EXCEPT !.seq = NoSeq, !.committed = sum]
                 ELSE IF c = "ok" THEN [prov EXCEPT !.seq = NoSeq] ELSE prov
      /\ pass' = [pass EXCEPT !.pc = IF o = "ok" THEN "settle" ELSE "failing",
                              !.committed = IF o = "ok" THEN sum ELSE @]
  BY <1>1, <1>2 DEF Commit, Happened, ProvType
<1>4. /\ prov' \in ProvType /\ prov'.uses = prov.uses /\ prov'.alive = prov.alive
      /\ o = "ok" => prov'.seq = NoSeq /\ prov'.committed = sum
  BY <1>1, <1>2, <1>3 DEF ProvType
<1>5. CASE o = "ok"
  <2>1. pass' = [pass EXCEPT !.pc = "settle", !.committed = sum]
    BY <1>3, <1>5
  <2> QED BY <1>1, <1>2, <1>4, <1>5, <2>1, EndsKeep
<1>6. CASE o # "ok"
  <2>1. pass' = [pass EXCEPT !.pc = "failing", !.committed = pass.committed]
    BY <1>1, <1>3, <1>6 DEF PassType
  <2> QED BY <1>1, <1>4, <2>1, EndsKeep
<1> QED BY <1>5, <1>6

LEMMA SettleKeeps == ASSUME PassInv, Settle PROVE PassInv'
<1>1. /\ pass.pc = "settle" /\ prov' = prov /\ sequ' = sequ /\ sequ = NoSeq /\ prov.seq = NoSeq
      /\ prov \in ProvType /\ sequ \in SeqType /\ pass.committed = prov.committed
      /\ pass.committed \in Nat
  BY DEF Settle, PassInv, Typed, PassType, Agree, Between
<1>2. pipe' = [pipe EXCEPT !.pending = <<>>] /\ pipe'.pending = <<>>
  BY DEF Settle, PassInv, Typed, PipeFields
<1>3. PICK to \in {"ready", "poisoned"} :
        pass' = [pass EXCEPT !.pc = to, !.committed = pass.committed]
  BY DEF Settle, Go, PassInv, Typed, PassType
<1> QED BY <1>1, <1>2, <1>3, EndsKeep

LEMMA FailKeeps ==
  ASSUME PassInv, NEW c \in Outcomes, NEW d \in Outcomes, FailPass(c, d)
  PROVE  PassInv'
<1>1. /\ pass.pc = "failing" /\ sequ' = NoSeq /\ NoSeq \in SeqType /\ prov \in ProvType
      /\ pipe' = [pipe EXCEPT !.pending = <<>>] /\ pass.committed \in Nat
  BY ConstantFacts DEF FailPass, PassInv, Typed, PassType
<1>2. prov' \in {prov, [prov EXCEPT !.seq = NoSeq]}
  BY DEF FailPass
<1>3. prov' \in ProvType /\ prov'.uses = prov.uses /\ prov'.alive = prov.alive
  BY <1>1, <1>2 DEF ProvType
<1>4. pass' = [pass EXCEPT !.pc = "poisoned", !.committed = pass.committed]
  BY DEF FailPass, Go, PassInv, Typed, PassType
<1> QED BY <1>1, <1>3, <1>4, EndsKeep

LEMMA CloseKeeps ==
  ASSUME PassInv, NEW o \in Outcomes, Close(o)
  PROVE  PassInv'
<1> DEFINE unproven == pipe.use # NoUse /\ o # "ok"
           suppress == pass.suppress \/ unproven
           left == {u \in prov.uses : ~(u.gen = pipe.use.gen /\ o # "refused")}
<1>1. /\ pass.pc \in {"ready", "poisoned"} /\ sequ' = sequ /\ prov \in ProvType
      /\ pass \in PassType /\ DOMAIN pipe = PipeFields /\ pass.hand = 0 /\ pipe.use \in Uses
      /\ pipe.leaked \subseteq Slots /\ pass.suppress \in BOOLEAN
  BY DEF Close, PassInv, Typed, PassType, InHand
<1>2. /\ pipe' = [pipe EXCEPT !.poisoned = TRUE, !.pending = <<>>,
                    !.leaked = IF unproven THEN @ \cup ({pipe.use.slot} \ {0}) ELSE @]
      /\ prov' = [prov EXCEPT !.uses = left, !.alive = suppress]
      /\ pass' = [pass EXCEPT !.pc = "closed", !.suppress = suppress]
  BY DEF Close, Happened
<1>3. \A u \in left : /\ u.gen # 0 /\ u.slot \in Slots /\ suppress
                      /\ u.slot \in pipe.leaked \/ (unproven /\ u.slot = pipe.use.slot)
  BY <1>1, ConstantFacts DEF PassInv, Borrowed, Leaks, Outcomes
<1>4. left \subseteq prov.uses /\ suppress \in BOOLEAN
  BY <1>1
<1>5. /\ DOMAIN pipe' = PipeFields /\ pipe'.gen = pipe.gen /\ pipe'.resident = pipe.resident
      /\ pipe'.use = pipe.use /\ pipe'.poisoned \in BOOLEAN /\ pipe'.pending = <<>>
      /\ pipe.leaked \subseteq pipe'.leaked /\ pipe'.leaked \subseteq Slots
      /\ unproven => pipe.use.slot = 0 \/ pipe.use.slot \in pipe'.leaked
  <2>1. PICK l : l = IF unproven THEN pipe.leaked \cup ({pipe.use.slot} \ {0}) ELSE pipe.leaked
    OBVIOUS
  <2>2. pipe' = [pipe EXCEPT !.poisoned = TRUE, !.pending = <<>>, !.leaked = l]
    BY <1>2, <2>1
  <2>3. /\ pipe.leaked \subseteq l /\ l \subseteq Slots
        /\ unproven => pipe.use.slot = 0 \/ pipe.use.slot \in l
    BY <1>1, <2>1 DEF Uses
  <2> QED BY <1>1, <2>2, <2>3 DEF PipeFields
<1> HIDE DEF unproven, suppress, left
<1>6. /\ prov' \in ProvType /\ prov'.uses = left /\ prov'.alive = suppress
  BY <1>1, <1>2, <1>4 DEF ProvType
<1>7. /\ pass' \in PassType /\ pass'.pc = "closed" /\ pass'.hand = 0 /\ pass'.suppress = suppress
  <2>1. "closed" \in PassPlaces
    BY DEF PassPlaces, Over
  <2> QED BY <1>1, <1>2, <1>4, <2>1 DEF PassType
<1>8. Typed'
  BY <1>1, <1>5, <1>6, <1>7 DEF PassInv, Typed
<1>9. Apart'
  BY <1>5, NothingApart DEF Apart
<1>10. Borrowed' /\ InHand'
  <2>1. 0 \notin Slots
    BY ArenaSize
  <2>2. \A u \in left : u.slot \in pipe'.leaked
    BY <1>3, <1>5, <2>1
  <2> QED BY <1>3, <1>6, <1>7, <2>2 DEF Borrowed, Leaks, InHand
<1>11. Kept' /\ Agree'
  BY <1>3, <1>6, <1>7 DEF Kept, Agree, Between, Within, Over
<1> QED BY <1>8, <1>9, <1>10, <1>11 DEF PassInv

-----------------------------------------------------------------------------
(* The theorems.                                                             *)

LEMMA StepHolds == PassInv /\ [TNext]_tvars => PassInv'
<1> SUFFICES ASSUME PassInv, [TNext]_tvars PROVE PassInv'
  OBVIOUS
<1>1. CASE UNCHANGED tvars
  BY <1>1 DEF tvars, PassInv, Typed, Apart, Borrowed, Leaks, InHand, Kept, Agree
<1>2. ASSUME NEW full \in BOOLEAN, NEW o \in Outcomes, NEW c \in Outcomes, Begin(full, o, c)
      PROVE  PassInv'
  BY <1>2, BeginKeeps
<1>3. CASE Prime \/ BindResident \/ NoFence \/ Settle
  BY <1>3, PrimeKeeps, ResidentKeeps, NoFenceKeeps, SettleKeeps
<1>4. ASSUME NEW o \in Outcomes,
             ReadCurrent(o) \/ LayerFailed(o) \/ Seal(o) \/ Close(o) \/ MissReadFails(o)
      PROVE  PassInv'
  BY <1>4, ReadKeeps, LayerFailedKeeps, SealKeeps, CloseKeeps, MissKeeps
<1>5. ASSUME NEW borrow \in BOOLEAN, NEW named \in BOOLEAN, NEW o \in Outcomes,
             NEW a \in Outcomes, Bind(borrow, o, named, a)
      PROVE  PassInv'
  BY <1>5, BindKeeps
<1>6. ASSUME NEW o \in Outcomes, NEW c \in Outcomes,
             \/ Prepare(o, c) \/ PlanExpertTile(o, c) \/ TakePrefetchHint(o, c)
             \/ FinishTail(o, c) \/ FailPass(o, c)
      PROVE  PassInv'
  BY <1>6, PrepareKeeps, PlanKeeps, HintKeeps, TailKeeps, FailKeeps
<1>7. ASSUME NEW k \in 1 .. Rows, NEW o \in Outcomes, NEW c \in Outcomes,
             FinishExpertTile(k, o, c) \/ FinishPlannedTile(k, o, c) \/ Commit(k, o, c)
      PROVE  PassInv'
  BY <1>7, FinishKeeps, CommitKeeps
<1>8. ASSUME NEW done \in BOOLEAN, NEW o \in Outcomes, Reclaim(done, o)
      PROVE  PassInv'
  BY <1>8, ReclaimKeeps
<1> QED BY <1>1, <1>2, <1>3, <1>4, <1>5, <1>6, <1>7, <1>8 DEF TNext

\* The inductive invariant of a target pass: whatever call is refused or reports
\* nonsense (TargetSequence, SpinePipeline, SpineSourceUseController), what the
\* provider reads is the one use in flight or leaked with its session, spine
\* reads have slots of their own, and wrapper and provider agree until a failure.
THEOREM PassInvariance == TSpec => []PassInv
<1> QED BY InitHolds, StepHolds, PTL DEF TSpec

\* For every number of layers, any lookahead and any placing of failures, a slot
\* the provider still reads is neither free nor read into nor freed at teardown,
\* and an engine that accepts requests agrees with its provider and holds nothing.
THEOREM FailuresAreContained == TSpec => []FailedPassesAreContained
<1>1. PassInv => BorrowedBytesStayPut
  <2> SUFFICES ASSUME PassInv, NEW u \in prov.uses
               PROVE  u.slot \notin Free \cup SlotsOf(pipe.pending) \cup {pass.hand} /\ prov.alive
    BY DEF BorrowedBytesStayPut
  <2>1. u.slot \in Slots /\ u.slot \in {pipe.use.slot} \cup pipe.leaked
        /\ (pass.pc = "closed" => u.slot \in pipe.leaked)
    BY DEF PassInv, Borrowed, Leaks
  <2>2. SlotsOf(pipe.pending) \cap ({pipe.use.slot, pass.hand} \cup pipe.leaked) = {}
    BY DEF PassInv, Apart, IsPipe
  <2>3. u.slot \notin Free
    BY <2>1 DEF Free, Held
  <2>4. u.slot # pass.hand
    BY <2>1, ArenaSize DEF PassInv, InHand, Kept, Between
  <2>5. prov.alive
    BY DEF PassInv, Kept
  <2> QED BY <2>1, <2>2, <2>3, <2>4, <2>5
<1>2. PassInv => ReadyEngineIsClean
  BY DEF PassInv, Kept, Agree, ReadyEngineIsClean, Between, Within
<1> QED BY <1>1, <1>2, PassInvariance, PTL DEF FailedPassesAreContained

-----------------------------------------------------------------------------
(* Retained experts: the inductive invariant.                                *)

\* A part of a tile that is read into one slot, before and after it has memory.
Parts == [slot : ArenaSlots, ids : Seq(Experts)]
Fetched == [slot : ArenaSlots, buf : Allocs, ids : Seq(Experts)]
Entries == [expert : Experts, buf : Allocs, k : Nat \ {0}]
Slabs == [buf : Allocs \cup {NoBuf}, use : BOOLEAN]
Leases ==
  [layer : 0..NRouted, want : Seq(Parts), got : Seq(Fetched), kept : SUBSET Entries]
RPhases == {"idle", "reading", "retain", "failed", "ending", "closed"}

RTyped ==
  /\ arena \in [ArenaSlots -> Slabs]
  /\ lease \in Leases
  /\ store \in [RLayers -> [entries : SUBSET Entries, seq : Nat]]
  /\ grave \in [pending : SUBSET Allocs, blobs : SUBSET (Allocs \X Nat)]
  /\ pool \subseteq Allocs
  /\ env \in [Allocs -> Nat]
  /\ wrapped \subseteq Allocs \X Nat
  /\ rst \in [pc : RPhases, n : Nat, bad : Nat, metal : BOOLEAN]

\* What the tile in hand was routed to, whether or not it was read yet or was
\* retained already: no expert twice, and no more than a tile holds.
PartOf(g) == [slot |-> g.slot, ids |-> g.ids]
Routed(l) ==
  {PartOf(l.got[i]) : i \in DOMAIN l.got} \cup {l.want[i] : i \in DOMAIN l.want}
RoutedOnce(l) ==
  /\ \A p \in Routed(l) : p.ids # <<>>
  /\ \A p, q \in Routed(l) : \A k \in DOMAIN p.ids, m \in DOMAIN q.ids :
       p.ids[k] = q.ids[m] => p = q /\ k = m
  /\ \A e, f \in l.kept : e.expert = f.expert => e = f
  /\ \A e \in l.kept, p \in Routed(l) : \A k \in DOMAIN p.ids : p.ids[k] # e.expert
  /\ \E W \in SUBSET Experts :
       /\ Cardinality(W) <= TileWidth
       /\ \A p \in Routed(l) : \A k \in DOMAIN p.ids : p.ids[k] \in W
       /\ \A e \in l.kept : e.expert \in W

\* Every part has a slot of its own, and its memory stays under it.
OneSlotEach(l) ==
  /\ \A i, j \in DOMAIN l.want : l.want[i].slot = l.want[j].slot => i = j
  /\ \A i \in DOMAIN l.got, j \in DOMAIN l.want : l.got[i].slot # l.want[j].slot
  /\ \A i, j \in DOMAIN l.got : l.got[i].slot = l.got[j].slot => i = j
  /\ \A i \in DOMAIN l.got : arena[l.got[i].slot].buf = l.got[i].buf

\* The tile in hand: nothing between tiles; what it takes over from the retained
\* store stays there until the tile is retained itself.  A layer retains an
\* expert once.
Tile ==
  /\ RoutedOnce(lease) /\ OneSlotEach(lease)
  /\ rst.pc \in {"idle", "ending", "closed"} => lease = NoLease
  /\ rst.pc \in {"reading", "retain"} => lease.layer \in RLayers
  /\ lease.kept # {} => /\ lease.layer \in RLayers /\ InSet(lease.layer)
                        /\ lease.kept \subseteq store[lease.layer].entries
  /\ \A l \in RLayers : \A e, f \in store[l].entries : e.expert = f.expert => e = f

\* Every span lies in its allocation.
InBounds(es) == \A e \in es : e.k <= env[e.buf]
Sized ==
  /\ \A l \in RLayers : InBounds(store[l].entries)
  /\ InBounds(lease.kept)
  /\ \A i \in DOMAIN lease.got : Len(lease.got[i].ids) <= env[lease.got[i].buf]

\* Memory has one owner: a slot, the pool, or the store with the graveyard.
Owned ==
  /\ \A s, t \in ArenaSlots : arena[s].buf = arena[t].buf => s = t \/ arena[s].buf = NoBuf
  /\ \A s \in ArenaSlots : arena[s].buf \notin RetainedAllocs \cup grave.pending \cup pool
  /\ pool \cap (RetainedAllocs \cup grave.pending) = {}

\* The provider names spans of memory that someone holds, and what is buried has
\* all its spans on the list of those to drop.
Wrapped ==
  /\ \A w \in wrapped : w[1] \in Alive /\ w[2] \in 1..env[w[1]]
  /\ ~rst.metal => wrapped = {}
  /\ rst.pc # "closed" => \A b \in grave.pending : Surface(b) \subseteq grave.blobs

RetainInv == RTyped /\ Tile /\ Sized /\ Owned /\ Wrapped

-----------------------------------------------------------------------------
(* Operators.                                                                *)

\* A finite set in some order.
LEMMA InSomeOrder ==
  ASSUME NEW S, IsFiniteSet(S)
  PROVE  /\ SetToSeq(S) \in Seq(S) /\ Len(SetToSeq(S)) = Cardinality(S) /\ Cardinality(S) \in Nat
         /\ \A i, j \in 1..Cardinality(S) : SetToSeq(S)[i] = SetToSeq(S)[j] => i = j
<1> DEFINE n == Cardinality(S)
<1>1. n \in Nat /\ ExistsBijection(1..n, S)
  BY FS_CardinalityType
<1>2. PICK f \in [1..n -> S] : IsInjective(f)
  BY <1>1 DEF ExistsBijection, Bijection, Injection
<1>3. SetToSeq(S) = CHOOSE g \in [1..n -> S] : IsInjective(g)
  BY DEF SetToSeq
<1> HIDE DEF n
<1>4. SetToSeq(S) \in [1..n -> S] /\ IsInjective(SetToSeq(S))
  BY <1>2, <1>3
<1>5. PICK q : q = SetToSeq(S)
  OBVIOUS
<1>6. q \in [1..n -> S] /\ IsInjective(q)
  BY <1>4, <1>5
<1>7. q \in Seq(S) /\ Len(q) = n
  BY <1>1, <1>6
<1>8. \A i, j \in 1..n : q[i] = q[j] => i = j
  BY <1>6 DEF IsInjective
<1> QED BY <1>1, <1>5, <1>7, <1>8 DEF n

LEMMA MaxOfTwo ==
  ASSUME NEW a \in Nat, NEW b \in Nat
  PROVE  Max({a, b}) = IF a >= b THEN a ELSE b
<1>1. \E x \in {a, b} : \A y \in {a, b} : x >= y
  OBVIOUS
<1>2. Max({a, b}) \in {a, b} /\ \A y \in {a, b} : Max({a, b}) >= y
  BY <1>1 DEF Max
<1> QED BY <1>2

\* What was read so far is typed, part by part.
LEMMA GotIsTyped ==
  ASSUME RTyped, NEW i \in DOMAIN lease.got
  PROVE  /\ lease.got[i] \in Fetched /\ lease.got[i].slot \in ArenaSlots
         /\ lease.got[i].buf \in Allocs /\ lease.got[i].ids \in Seq(Experts)
         /\ Len(lease.got[i].ids) \in Nat
<1>1. PICK r : r = lease.got
  OBVIOUS
<1>2. r \in Seq(Fetched)
  BY <1>1 DEF RTyped, Leases
<1>3. PICK g : g = r[i]
  OBVIOUS
<1>4. g \in Fetched
  BY <1>1, <1>2, <1>3
<1>5. g.slot \in ArenaSlots /\ g.buf \in Allocs /\ g.ids \in Seq(Experts)
  BY <1>4 DEF Fetched
<1> QED BY <1>1, <1>3, <1>4, <1>5

\* The faults of a call stay a number.
LEMMA FaultsCounted ==
  ASSUME RTyped, NEW n \in Nat, NEW os \in [1..n -> BOOLEAN]
  PROVE  BadAfter(os) \in Nat
<1>1. IsFiniteSet(1..n)
  BY FS_Interval
<1>2. {i \in DOMAIN os : ~os[i]} \in SUBSET (1..n)
  OBVIOUS
<1>3. IsFiniteSet({i \in DOMAIN os : ~os[i]})
  BY <1>1, <1>2, FS_Subset
<1>4. Failures(os) \in Nat
  BY <1>3, FS_CardinalityType DEF Failures
<1> QED BY <1>4 DEF BadAfter, RTyped

\* Sets of experts are finite.
LEMMA FewExperts ==
  ASSUME NEW W \in SUBSET Experts
  PROVE  IsFiniteSet(W) /\ Cardinality(W) \in Nat
BY RetainAssumption, FS_Subset, FS_CardinalityType

-----------------------------------------------------------------------------
(* The beginning of a tile.                                                  *)

LEMMA RInitHolds == RInit => RetainInv
<1> SUFFICES ASSUME RInit PROVE RetainInv
  OBVIOUS
<1>1. NoLease.want = <<>> /\ NoLease.got = <<>> /\ NoLease.kept = {} /\ NoLease.layer = 0
      /\ NoLease \in Leases
  BY RetainAssumption DEF NoLease, Leases
<1>2. /\ lease = NoLease /\ pool = {} /\ wrapped = {} /\ grave = [pending |-> {}, blobs |-> {}]
      /\ arena = [s \in ArenaSlots |-> [buf |-> NoBuf, use |-> FALSE]]
      /\ store = [l \in RLayers |-> [entries |-> {}, seq |-> 0]]
      /\ env = [a \in Allocs |-> 0] /\ rst \in [pc : {"idle"}, n : {0}, bad : {0}, metal : BOOLEAN]
  BY DEF RInit
<1>3. RTyped
  BY <1>1, <1>2 DEF RTyped, Slabs, RPhases
<1>4. Routed(lease) = {}
  BY <1>1, <1>2 DEF Routed
<1>5. RoutedOnce(lease)
  <2>1. {} \in SUBSET Experts /\ Cardinality({}) <= TileWidth
    BY FS_EmptySet, RetainAssumption
  <2>2. lease.kept = {}
    BY <1>1, <1>2
  <2> QED BY <1>4, <2>1, <2>2 DEF RoutedOnce
<1>6. Tile
  BY <1>1, <1>2, <1>5 DEF Tile, OneSlotEach
<1>7. Sized
  BY <1>1, <1>2 DEF Sized, InBounds
<1>8. RetainedAllocs = {} /\ \A s \in ArenaSlots : arena[s].buf = NoBuf
  BY <1>2 DEF RetainedAllocs, InEntries
<1>9. Owned
  BY <1>2, <1>8 DEF Owned
<1>10. Wrapped
  BY <1>2 DEF Wrapped
<1> QED BY <1>3, <1>6, <1>7, <1>9, <1>10 DEF RetainInv

\* The parts of a new tile: each prefetched expert in a slot of its own, and the
\* rest in the slot for demand.
Singles(hits) ==
  [i \in 1..Cardinality(hits) |-> [slot |-> i + 1, ids |-> <<SetToSeq(hits)[i]>>]]
AllParts(hits, missing) ==
  IF missing = {} THEN Singles(hits)
  ELSE Append(Singles(hits), [slot |-> 1, ids |-> SetToSeq(missing)])

\* They have slots of their own and route every expert once.
GoodParts(want, wanted) ==
  /\ want \in Seq(Parts)
  /\ \A i, j \in DOMAIN want : want[i].slot = want[j].slot => i = j
  /\ \A i \in DOMAIN want : want[i].ids # <<>>
  /\ \A i \in DOMAIN want : \A k \in DOMAIN want[i].ids : want[i].ids[k] \in wanted
  /\ \A i, j \in DOMAIN want : \A k \in DOMAIN want[i].ids, m \in DOMAIN want[j].ids :
       want[i].ids[k] = want[j].ids[m] => i = j /\ k = m

LEMMA NewParts ==
  ASSUME NEW wanted \in SUBSET Experts, NEW hits \in SUBSET wanted,
         NEW missing \in SUBSET (wanted \ hits), Cardinality(hits) < TileWidth
  PROVE  GoodParts(AllParts(hits, missing), wanted)
<1> DEFINE n == Cardinality(hits)
<1>1. IsFiniteSet(hits) /\ IsFiniteSet(missing) /\ n \in Nat /\ n < TileWidth /\ TileWidth \in Nat
  BY FewExperts, RetainAssumption
<1>2. PICK hs : hs = SetToSeq(hits)
  OBVIOUS
<1>3. hs \in Seq(hits) /\ Len(hs) = n /\ \A i, j \in 1..n : hs[i] = hs[j] => i = j
  BY <1>1, <1>2, InSomeOrder
<1>4. PICK d : d = SetToSeq(missing)
  OBVIOUS
<1>5. /\ d \in Seq(missing) /\ Len(d) = Cardinality(missing)
      /\ \A i, j \in 1..Len(d) : d[i] = d[j] => i = j
  BY <1>1, <1>4, InSomeOrder
<1>6. missing # {} => d # <<>>
  BY <1>1, <1>5, FS_EmptySet
<1> HIDE DEF n
<1>7. PICK single : single = Singles(hits)
  OBVIOUS
<1>8. single = [i \in 1..n |-> [slot |-> i + 1, ids |-> <<hs[i]>>]]
  BY <1>2, <1>7 DEF Singles, n
<1>9. ASSUME NEW i \in 1..n
      PROVE  /\ single[i] \in Parts /\ single[i].slot = i + 1 /\ single[i].ids = <<hs[i]>>
             /\ hs[i] \in hits
  <2>1. hs[i] \in hits
    BY <1>3
  <2>2. single[i] = [slot |-> i + 1, ids |-> <<hs[i]>>]
    BY <1>8
  <2>3. i + 1 \in ArenaSlots
    BY <1>1 DEF ArenaSlots
  <2>4. <<hs[i]>> \in Seq(Experts)
    BY <2>1
  <2> QED BY <2>1, <2>2, <2>3, <2>4 DEF Parts
<1>10. single \in Seq(Parts) /\ Len(single) = n /\ DOMAIN single = 1..n
  <2>1. single \in [1..n -> Parts]
    BY <1>8, <1>9
  <2> QED BY <1>1, <2>1
<1>11. CASE missing = {}
  <2>1. AllParts(hits, missing) = single
    BY <1>7, <1>11 DEF AllParts
  <2>2. GoodParts(single, wanted)
    <3>1. ASSUME NEW i \in 1..n, NEW j \in 1..n, NEW k \in DOMAIN single[i].ids,
                 NEW m \in DOMAIN single[j].ids, single[i].ids[k] = single[j].ids[m]
          PROVE  i = j /\ k = m
      <4>1. k = 1 /\ m = 1 /\ hs[i] = hs[j]
        BY <1>9, <3>1
      <4> QED BY <1>3, <4>1
    <3>2. ASSUME NEW i \in 1..n, NEW j \in 1..n, single[i].slot = single[j].slot
          PROVE  i = j
      BY <1>9, <1>1, <3>2
    <3>3. ASSUME NEW i \in 1..n
          PROVE  single[i].ids # <<>> /\ \A k \in DOMAIN single[i].ids : single[i].ids[k] \in wanted
      <4>1. PICK x : x = hs[i]
        OBVIOUS
      <4>2. single[i].ids = <<x>> /\ x \in wanted
        BY <1>9, <4>1
      <4> QED BY <4>2
    <3> QED BY <1>10, <3>1, <3>2, <3>3 DEF GoodParts
  <2> QED BY <2>1, <2>2
<1>12. CASE missing # {}
  <2>1. PICK p : p = [slot |-> 1, ids |-> d]
    OBVIOUS
  <2>2. p \in Parts /\ p.slot = 1 /\ p.ids = d
    <3>1. 1 \in ArenaSlots /\ d \in Seq(Experts)
      BY <1>1, <1>5 DEF ArenaSlots
    <3> QED BY <2>1, <3>1 DEF Parts
  <2>3. PICK want : want = Append(single, p)
    OBVIOUS
  <2>4. AllParts(hits, missing) = want
    BY <1>4, <1>7, <1>12, <2>1, <2>3 DEF AllParts
  <2>5. /\ want \in Seq(Parts) /\ Len(want) = n + 1 /\ want[n + 1] = p
        /\ \A i \in 1..n : want[i] = single[i]
    BY <1>1, <1>10, <2>2, <2>3
  <2>6. DOMAIN want = 1..(n + 1)
    BY <1>1, <2>5
  <2>7. \A i \in 1..(n + 1) : i \in 1..n \/ i = n + 1
    BY <1>1
  <2>8. \A k \in DOMAIN d : d[k] \in missing /\ k \in 1..Len(d)
    BY <1>5
  <2>9. ASSUME NEW i \in DOMAIN want
        PROVE  \/ i \in 1..n /\ want[i].slot = i + 1 /\ want[i].ids = <<hs[i]>> /\ hs[i] \in hits
               \/ i = n + 1 /\ want[i].slot = 1 /\ want[i].ids = d
    BY <1>9, <2>2, <2>5, <2>6, <2>7
  <2>10. ASSUME NEW i \in DOMAIN want, NEW j \in DOMAIN want, want[i].slot = want[j].slot
         PROVE  i = j
    <3>1. i \in Nat /\ j \in Nat
      BY <2>6
    <3> QED BY <1>1, <2>9, <2>10, <3>1
  <2>11. ASSUME NEW i \in DOMAIN want
         PROVE  want[i].ids # <<>> /\ \A k \in DOMAIN want[i].ids : want[i].ids[k] \in wanted
    <3>1. CASE want[i].ids = <<hs[i]>> /\ hs[i] \in hits
      BY <3>1
    <3>2. CASE want[i].ids = d
      BY <1>6, <1>12, <2>8, <3>2
    <3> QED BY <2>9, <3>1, <3>2
  <2>12. ASSUME NEW i \in DOMAIN want, NEW j \in DOMAIN want,
                NEW k \in DOMAIN want[i].ids, NEW m \in DOMAIN want[j].ids,
                want[i].ids[k] = want[j].ids[m]
         PROVE  i = j /\ k = m
    <3>1. CASE i \in 1..n /\ j \in 1..n
      <4>1. want[i].ids = <<hs[i]>> /\ want[j].ids = <<hs[j]>>
        BY <1>1, <2>9, <3>1
      <4>2. k = 1 /\ m = 1 /\ hs[i] = hs[j]
        BY <2>12, <4>1
      <4> QED BY <1>3, <3>1, <4>2
    <3>2. CASE i = n + 1 /\ j = n + 1
      <4>1. want[i].ids = d /\ want[j].ids = d
        BY <1>1, <2>9, <3>2
      <4> QED BY <1>5, <2>8, <2>12, <3>2, <4>1
    <3>3. CASE i \in 1..n /\ j = n + 1
      <4>1. want[i].ids = <<hs[i]>> /\ hs[i] \in hits /\ want[j].ids = d
        BY <1>1, <2>9, <3>3
      <4>2. want[i].ids[k] = hs[i] /\ want[j].ids[m] \in missing
        BY <2>8, <4>1
      <4> QED BY <2>12, <4>1, <4>2
    <3>4. CASE i = n + 1 /\ j \in 1..n
      <4>1. want[j].ids = <<hs[j]>> /\ hs[j] \in hits /\ want[i].ids = d
        BY <1>1, <2>9, <3>4
      <4>2. want[j].ids[m] = hs[j] /\ want[i].ids[k] \in missing
        BY <2>8, <4>1
      <4> QED BY <2>12, <4>1, <4>2
    <3> QED BY <2>6, <2>7, <3>1, <3>2, <3>3, <3>4
  <2>13. GoodParts(want, wanted)
    BY <2>5, <2>10, <2>11, <2>12 DEF GoodParts
  <2> QED BY <2>4, <2>13
<1> QED BY <1>11, <1>12

\* A tile in hand of which nothing was read yet.
LEMMA FreshTile ==
  ASSUME NEW want, NEW wanted \in SUBSET Experts, Cardinality(wanted) <= TileWidth,
         NEW reads \in SUBSET wanted, GoodParts(want, reads),
         NEW l, l.want = want, l.got = <<>>,
         \A e \in l.kept : e.expert \in wanted \ reads,
         \A e, f \in l.kept : e.expert = f.expert => e = f
  PROVE  RoutedOnce(l) /\ OneSlotEach(l)
<1>1. DOMAIN l.got = {}
  OBVIOUS
<1>2. Routed(l) = {want[i] : i \in DOMAIN want}
  BY <1>1 DEF Routed
<1>3. \A p \in Routed(l) : p.ids # <<>>
  BY <1>2 DEF GoodParts
<1>4. \A p, q \in Routed(l) : \A k \in DOMAIN p.ids, m \in DOMAIN q.ids :
        p.ids[k] = q.ids[m] => p = q /\ k = m
  BY <1>2 DEF GoodParts
<1>5. \A p \in Routed(l) : \A k \in DOMAIN p.ids : p.ids[k] \in reads
  BY <1>2 DEF GoodParts
<1>6. \A e \in l.kept, p \in Routed(l) : \A k \in DOMAIN p.ids : p.ids[k] # e.expert
  BY <1>5
<1>7. RoutedOnce(l)
  BY <1>3, <1>4, <1>5, <1>6 DEF RoutedOnce
<1>8. OneSlotEach(l)
  BY <1>1 DEF OneSlotEach, GoodParts
<1> QED BY <1>7, <1>8

LEMMA BeginTileKeeps ==
  ASSUME RetainInv, NEW l \in RLayers, NEW wanted \in SUBSET Experts, NEW hits \in SUBSET wanted,
         Cardinality(wanted) <= TileWidth, Cardinality(hits) < TileWidth,
         BeginTile(l, wanted, hits)
  PROVE  RetainInv'
<1> DEFINE kept == RetainedHits(l, wanted \ hits)
           missing == wanted \ (hits \cup {e.expert : e \in kept})
<1>1. /\ UNCHANGED <<arena, store, grave, pool, env, wrapped>> /\ rst.pc = "idle"
      /\ rst' = [rst EXCEPT !.n = @ + 1, !.pc = "reading"]
      /\ lease' = [layer |-> l, want |-> AllParts(hits, missing), got |-> <<>>, kept |-> kept]
  BY DEF BeginTile, AllParts, Singles
<1>2. GoodParts(AllParts(hits, missing), hits \cup missing)
  <2>1. missing \in SUBSET ((hits \cup missing) \ hits) /\ hits \cup missing \in SUBSET Experts
    OBVIOUS
  <2> QED BY <2>1, NewParts
<1>3. /\ kept \subseteq store[l].entries /\ (kept # {} => InSet(l)) /\ kept \in SUBSET Entries
      /\ \A e \in kept : e.expert \in wanted \ (hits \cup missing)
  BY DEF RetainedHits, RetainInv, RTyped
<1>16. hits \cup missing \in SUBSET wanted
  OBVIOUS
<1>17. \A e, f \in kept : e.expert = f.expert => e = f
  BY <1>3 DEF RetainInv, Tile
<1> HIDE DEF kept, missing
<1>4. PICK want : want = AllParts(hits, missing)
  OBVIOUS
<1>5. /\ lease' \in Leases /\ lease'.layer = l /\ lease'.want = want /\ lease'.got = <<>>
      /\ lease'.kept = kept
  <2>1. want \in Seq(Parts) /\ l \in 0..NRouted
    BY <1>2, <1>4, RetainAssumption DEF GoodParts, RLayers
  <2> QED BY <1>1, <1>3, <1>4, <2>1 DEF Leases
<1>6. rst'.pc = "reading" /\ rst'.metal = rst.metal
  BY <1>1 DEF RetainInv, RTyped
<1>7. RTyped'
  <2>1. PICK m : m = rst.n + 1
    OBVIOUS
  <2>2. rst \in [pc : RPhases, n : Nat, bad : Nat, metal : BOOLEAN]
    BY DEF RetainInv, RTyped
  <2>3. m \in Nat /\ "reading" \in RPhases
    BY <2>1, <2>2 DEF RPhases
  <2>4. rst' = [rst EXCEPT !.n = m, !.pc = "reading"]
    BY <1>1, <2>1
  <2>5. rst' \in [pc : RPhases, n : Nat, bad : Nat, metal : BOOLEAN]
    BY <2>2, <2>3, <2>4
  <2> QED BY <1>1, <1>5, <2>5 DEF RetainInv, RTyped
<1>8. RoutedOnce(lease') /\ OneSlotEach(lease')
  <2>1. /\ \A e \in lease'.kept : e.expert \in wanted \ (hits \cup missing)
        /\ \A e, f \in lease'.kept : e.expert = f.expert => e = f
    BY <1>3, <1>5, <1>17
  <2>2. GoodParts(want, hits \cup missing)
    BY <1>2, <1>4
  <2>3. PICK reads : reads = hits \cup missing
    OBVIOUS
  <2>4. PICK new : new = lease'
    OBVIOUS
  <2>5. RoutedOnce(new) /\ OneSlotEach(new)
    BY <1>5, <1>16, <2>1, <2>2, <2>3, <2>4, FreshTile
  <2> QED BY <2>4, <2>5
<1>9. OneSlotEach(lease)'
  BY <1>1, <1>8 DEF OneSlotEach
<1>10. Tile'
  <2>1. RoutedOnce(lease)'
    BY <1>8 DEF RoutedOnce, Routed
  <2>2. /\ \A k \in RLayers : \A e, f \in store'[k].entries : e.expert = f.expert => e = f
        /\ store' = store
    BY <1>1 DEF RetainInv, Tile
  <2> QED BY <1>3, <1>5, <1>6, <1>9, <2>1, <2>2 DEF Tile, InSet
<1>11. Sized'
  BY <1>1, <1>3, <1>5 DEF RetainInv, Sized, InBounds
<1>12. RetainedAllocs' = RetainedAllocs
  BY <1>1 DEF RetainedAllocs
<1>13. Owned'
  BY <1>1, <1>12 DEF RetainInv, Owned
<1>14. Alive \subseteq Alive'
  <2>1. lease.got = <<>> /\ lease.kept = {}
    BY <1>1 DEF RetainInv, Tile, NoLease
  <2> QED BY <1>1, <1>12, <2>1 DEF Alive, InEntries
<1>15. Wrapped'
  BY <1>1, <1>6, <1>14 DEF RetainInv, Wrapped, Surface
<1> QED BY <1>7, <1>10, <1>11, <1>13, <1>15 DEF RetainInv

-----------------------------------------------------------------------------
(* Memory for a part.                                                        *)

\* The next part gets this allocation.
Takes(b) ==
  LET w == Head(lease.want)
  IN  /\ arena' = [arena EXCEPT ![w.slot] = [buf |-> b, use |-> TRUE]]
      /\ lease' = [lease EXCEPT !.want = Tail(@),
                                !.got = Append(@, [slot |-> w.slot, buf |-> b, ids |-> w.ids])]

\* What taking it changes.
Taken(w, b) ==
  /\ w \in Parts /\ Len(w.ids) \in Nat /\ w.ids # <<>>
  /\ lease' \in Leases /\ lease'.layer = lease.layer /\ lease'.kept = lease.kept
  /\ DOMAIN lease'.got = 1..(Len(lease.got) + 1) /\ Len(lease.got) \in Nat
  /\ DOMAIN lease.got = 1..Len(lease.got)
  /\ \A i \in DOMAIN lease.got : lease'.got[i] = lease.got[i]
  /\ lease'.got[Len(lease.got) + 1] = [slot |-> w.slot, buf |-> b, ids |-> w.ids]
  /\ \A j \in DOMAIN lease'.want :
       j \in Nat /\ j + 1 \in DOMAIN lease.want /\ lease'.want[j] = lease.want[j + 1]
  /\ \A j \in DOMAIN lease.want : lease.want[j] = w \/ (j - 1 \in DOMAIN lease'.want /\ j \in Nat)
  /\ 1 \in DOMAIN lease.want /\ lease.want[1] = w
  /\ arena' \in [ArenaSlots -> Slabs] /\ arena'[w.slot].buf = b
  /\ \A s \in ArenaSlots : s # w.slot => arena'[s] = arena[s]
  /\ \A i \in DOMAIN lease.got : lease.got[i].slot # w.slot

LEMMA TakingIt ==
  ASSUME RTyped, Tile, lease.want # <<>>, NEW b \in Allocs, Takes(b)
  PROVE  Taken(Head(lease.want), b)
<1>1. PICK q : q = lease.want
  OBVIOUS
<1>2. PICK r : r = lease.got
  OBVIOUS
<1>3. q \in Seq(Parts) /\ q # <<>> /\ r \in Seq(Fetched) /\ lease \in Leases
  BY <1>1, <1>2 DEF RTyped, Leases
<1>4. PICK w : w = Head(q)
  OBVIOUS
<1>5. w \in Parts /\ w = q[1] /\ 1 \in DOMAIN q
  BY <1>3, <1>4
<1>6. w.slot \in ArenaSlots /\ w.ids \in Seq(Experts) /\ Len(w.ids) \in Nat
  BY <1>5 DEF Parts
<1>7. w.ids # <<>>
  BY <1>1, <1>5 DEF Tile, RoutedOnce, Routed
<1>8. PICK g : g = [slot |-> w.slot, buf |-> b, ids |-> w.ids]
  OBVIOUS
<1>9. g \in Fetched
  BY <1>6, <1>8 DEF Fetched
<1>10. lease' = [lease EXCEPT !.want = Tail(q), !.got = Append(r, g)]
  BY <1>1, <1>2, <1>4, <1>8 DEF Takes
<1>11. /\ Tail(q) \in Seq(Parts) /\ DOMAIN Tail(q) = 1..(Len(q) - 1) /\ Len(q) \in Nat
       /\ DOMAIN q = 1..Len(q) /\ \A j \in 1..(Len(q) - 1) : Tail(q)[j] = q[j + 1]
  BY <1>3
<1>12. /\ Append(r, g) \in Seq(Fetched) /\ DOMAIN Append(r, g) = 1..(Len(r) + 1) /\ Len(r) \in Nat
       /\ DOMAIN r = 1..Len(r) /\ \A i \in 1..Len(r) : Append(r, g)[i] = r[i]
       /\ Append(r, g)[Len(r) + 1] = g
  BY <1>3, <1>9
<1>13. PICK t : t = Tail(q)
  OBVIOUS
<1>14. PICK u : u = Append(r, g)
  OBVIOUS
<1>15. /\ lease' \in Leases /\ lease'.layer = lease.layer /\ lease'.kept = lease.kept
       /\ lease'.want = t /\ lease'.got = u
  BY <1>3, <1>10, <1>11, <1>12, <1>13, <1>14 DEF Leases
<1>16. \A j \in DOMAIN t : j \in Nat /\ j + 1 \in DOMAIN q /\ t[j] = q[j + 1]
  BY <1>11, <1>13
<1>17. ASSUME NEW j \in DOMAIN q PROVE q[j] = w \/ (j - 1 \in DOMAIN t /\ j \in Nat)
  BY <1>5, <1>11, <1>13
<1>18. PICK slab : slab = [buf |-> b, use |-> TRUE]
  OBVIOUS
<1>19. slab \in Slabs /\ slab.buf = b
  BY <1>18 DEF Slabs
<1>20. arena' = [arena EXCEPT ![w.slot] = slab]
  BY <1>1, <1>4, <1>18 DEF Takes
<1>21. /\ arena' \in [ArenaSlots -> Slabs] /\ arena'[w.slot].buf = b
       /\ \A s \in ArenaSlots : s # w.slot => arena'[s] = arena[s]
  BY <1>6, <1>19, <1>20 DEF RTyped
<1>22. \A i \in DOMAIN r : r[i].slot # w.slot
  BY <1>1, <1>2, <1>5 DEF Tile, OneSlotEach
<1>23. /\ DOMAIN u = 1..(Len(r) + 1) /\ \A i \in DOMAIN r : u[i] = r[i]
       /\ u[Len(r) + 1] = g
  BY <1>12, <1>14
<1> QED
  BY <1>1, <1>2, <1>4, <1>5, <1>6, <1>7, <1>8, <1>12, <1>15, <1>16, <1>17, <1>21, <1>22, <1>23
  DEF Taken

\* The tile in hand stays what it was routed to, one slot for every part.
LEMMA TakenTile ==
  ASSUME RTyped, Tile, NEW w, NEW b \in Allocs, Taken(w, b),
         rst'.pc = rst.pc, rst.pc = "reading", store' = store
  PROVE  Tile'
<1> DEFINE n == Len(lease.got) + 1
           g == [slot |-> w.slot, buf |-> b, ids |-> w.ids]
<1>1. w \in Parts /\ PartOf(g) = w /\ g.slot = w.slot /\ g.buf = b
  BY DEF Taken, Parts, PartOf
<1>2. \A i \in DOMAIN lease'.got : (i \in DOMAIN lease.got /\ lease'.got[i] = lease.got[i])
                                   \/ (i = n /\ lease'.got[i] = g)
  BY DEF Taken
<1>3. n \in DOMAIN lease'.got /\ lease'.got[n] = g /\ DOMAIN lease.got \subseteq DOMAIN lease'.got
  BY DEF Taken
<1> HIDE DEF n, g
<1>4. Routed(lease') = Routed(lease)
  <2>1. ASSUME NEW p \in Routed(lease') PROVE p \in Routed(lease)
    <3>1. CASE \E i \in DOMAIN lease'.got : p = PartOf(lease'.got[i])
      <4>1. PICK i \in DOMAIN lease'.got : p = PartOf(lease'.got[i])
        BY <3>1
      <4>2. CASE i \in DOMAIN lease.got /\ lease'.got[i] = lease.got[i]
        BY <4>1, <4>2 DEF Routed
      <4>3. CASE lease'.got[i] = g
        <5>1. w = lease.want[1] /\ 1 \in DOMAIN lease.want
          BY DEF Taken
        <5>2. p = w
          BY <1>1, <4>1, <4>3
        <5> QED BY <5>1, <5>2 DEF Routed
      <4> QED BY <1>2, <4>2, <4>3
    <3>2. CASE \E j \in DOMAIN lease'.want : p = lease'.want[j]
      <4>1. PICK j \in DOMAIN lease'.want : p = lease'.want[j]
        BY <3>2
      <4>2. j + 1 \in DOMAIN lease.want /\ p = lease.want[j + 1]
        BY <4>1 DEF Taken
      <4> QED BY <4>2 DEF Routed
    <3> QED BY <2>1, <3>1, <3>2 DEF Routed
  <2>2. ASSUME NEW p \in Routed(lease) PROVE p \in Routed(lease')
    <3>1. CASE \E i \in DOMAIN lease.got : p = PartOf(lease.got[i])
      <4>1. PICK i \in DOMAIN lease.got : p = PartOf(lease.got[i])
        BY <3>1
      <4>2. i \in DOMAIN lease'.got /\ lease'.got[i] = lease.got[i]
        BY <1>3 DEF Taken
      <4> QED BY <4>1, <4>2 DEF Routed
    <3>2. CASE p = w
      <4>1. p = PartOf(lease'.got[n]) /\ n \in DOMAIN lease'.got
        BY <1>1, <1>3, <3>2
      <4> QED BY <4>1 DEF Routed
    <3>3. CASE p # w /\ \E j \in DOMAIN lease.want : p = lease.want[j]
      <4>1. PICK j \in DOMAIN lease.want : p = lease.want[j]
        BY <3>3
      <4>2. j - 1 \in DOMAIN lease'.want /\ j \in Nat
        BY <3>3, <4>1 DEF Taken
      <4>3. lease'.want[j - 1] = lease.want[(j - 1) + 1]
        BY <4>2 DEF Taken
      <4>4. (j - 1) + 1 = j
        BY <4>2
      <4>5. p = lease'.want[j - 1]
        BY <4>1, <4>3, <4>4
      <4> QED BY <4>2, <4>5 DEF Routed
    <3> QED BY <2>2, <3>1, <3>2, <3>3 DEF Routed
  <2> QED BY <2>1, <2>2
<1>5. RoutedOnce(lease)'
  <2>1. lease'.kept = lease.kept
    BY DEF Taken
  <2>2. RoutedOnce(lease) /\ Routed(lease)' = Routed(lease)
    BY <1>4 DEF Tile, Routed
  <2> QED BY <2>1, <2>2 DEF RoutedOnce
<1>9. \A j \in DOMAIN lease'.want : j >= 1
  <2>1. PICK q : q = lease'.want
    OBVIOUS
  <2>2. q \in Seq(Parts)
    BY <2>1 DEF Taken, Leases
  <2> QED BY <2>1, <2>2
<1>6. OneSlotEach(lease)'
  <2>1. ASSUME NEW i \in DOMAIN lease'.want, NEW j \in DOMAIN lease'.want,
               lease'.want[i].slot = lease'.want[j].slot
        PROVE  i = j
    <3>1. /\ i \in Nat /\ i + 1 \in DOMAIN lease.want /\ lease'.want[i] = lease.want[i + 1]
          /\ j \in Nat /\ j + 1 \in DOMAIN lease.want /\ lease'.want[j] = lease.want[j + 1]
      BY DEF Taken
    <3>2. i + 1 = j + 1
      BY <2>1, <3>1 DEF Tile, OneSlotEach
    <3> QED BY <3>1, <3>2
  <2>2. ASSUME NEW i \in DOMAIN lease'.got, NEW j \in DOMAIN lease'.want
        PROVE  lease'.got[i].slot # lease'.want[j].slot
    <3>1. j \in Nat /\ j + 1 \in DOMAIN lease.want /\ lease'.want[j] = lease.want[j + 1]
      BY DEF Taken
    <3>2. CASE i \in DOMAIN lease.got /\ lease'.got[i] = lease.got[i]
      BY <3>1, <3>2 DEF Tile, OneSlotEach
    <3>3. CASE lease'.got[i] = g
      <4>1. 1 \in DOMAIN lease.want /\ lease.want[1].slot = w.slot
        BY DEF Taken
      <4>a. j >= 1
        BY <3>1, <1>9
      <4>b. j + 1 # 1
        BY <3>1, <4>a
      <4>2. lease.want[1].slot # lease.want[j + 1].slot
        BY <3>1, <4>1, <4>b DEF Tile, OneSlotEach
      <4> QED BY <1>1, <3>1, <3>3, <4>1, <4>2
    <3> QED BY <1>2, <3>2, <3>3
  <2>3. ASSUME NEW i \in DOMAIN lease'.got, NEW j \in DOMAIN lease'.got,
               lease'.got[i].slot = lease'.got[j].slot
        PROVE  i = j
    <3>1. \A k \in DOMAIN lease.got : lease.got[k].slot # g.slot
      BY <1>1 DEF Taken
    <3>2. \A k, m \in DOMAIN lease.got : lease.got[k].slot = lease.got[m].slot => k = m
      BY DEF Tile, OneSlotEach
    <3> QED BY <1>2, <2>3, <3>1, <3>2
  <2>4. ASSUME NEW i \in DOMAIN lease'.got
        PROVE  arena'[lease'.got[i].slot].buf = lease'.got[i].buf
    <3>1. CASE i \in DOMAIN lease.got /\ lease'.got[i] = lease.got[i]
      <4>1. lease.got[i].slot \in ArenaSlots /\ lease.got[i].slot # w.slot
        BY <3>1, GotIsTyped DEF Taken
      <4>2. arena'[lease.got[i].slot] = arena[lease.got[i].slot]
        BY <4>1 DEF Taken
      <4> QED BY <3>1, <4>2 DEF Tile, OneSlotEach
    <3>2. CASE lease'.got[i] = g
      BY <1>1, <3>2 DEF Taken
    <3> QED BY <1>2, <3>1, <3>2
  <2> QED BY <2>1, <2>2, <2>3, <2>4 DEF OneSlotEach
<1>7. lease'.layer = lease.layer /\ lease'.kept = lease.kept
  BY DEF Taken
<1> QED BY <1>5, <1>6, <1>7 DEF Tile, InSet

\* Memory that is nobody's but the slot's or the pool's may be taken, if what the
\* slot held before is no longer named.
MayTake(w, b) ==
  /\ b \in Allocs /\ b \notin RetainedAllocs \cup grave.pending \cup pool'
  /\ pool' \cup {b} = pool \cup {b}
  /\ \A s \in ArenaSlots : s # w.slot => arena[s].buf # b
  /\ env' \in [Allocs -> Nat] /\ Len(w.ids) <= env'[b]
  /\ \A a \in Allocs : a # b \/ a \in Alive => env'[a] = env[a]
  /\ wrapped' = {} \/ (wrapped' = wrapped /\ arena[w.slot].buf \in {b, NoBuf})

LEMMA TakenKeeps ==
  ASSUME RetainInv, NEW w, NEW b, Taken(w, b), MayTake(w, b), rst.pc = "reading",
         UNCHANGED <<store, grave>>, rst'.pc = rst.pc, rst'.metal = rst.metal,
         rst' \in [pc : RPhases, n : Nat, bad : Nat, metal : BOOLEAN]
  PROVE  RetainInv'
<1>1. b \in Allocs /\ b \notin RetainedAllocs /\ b \notin grave.pending /\ b \notin pool'
  BY DEF MayTake
<1>2. RTyped /\ Tile /\ Sized /\ Owned /\ Wrapped
  BY DEF RetainInv
<1>3. RetainedAllocs' = RetainedAllocs
  BY DEF RetainedAllocs
<1>4. w.slot \in ArenaSlots /\ lease'.kept = lease.kept
  BY DEF Taken, Parts
<1>5. RTyped'
  <2>1. wrapped' \subseteq Allocs \X Nat
    BY <1>2 DEF MayTake, RTyped
  <2>2. pool' \subseteq Allocs
    BY <1>1, <1>2 DEF MayTake, RTyped
  <2>3. arena' \in [ArenaSlots -> Slabs] /\ lease' \in Leases /\ env' \in [Allocs -> Nat]
    BY DEF Taken, MayTake
  <2> QED BY <1>2, <2>1, <2>2, <2>3 DEF RTyped
<1>6. Tile'
  BY <1>1, <1>2, TakenTile
<1>7. \A a \in Allocs : a # b => env'[a] = env[a]
  BY DEF MayTake
<1>8. ASSUME NEW l \in RLayers, NEW e \in store[l].entries
      PROVE  e.buf \in Allocs /\ e.buf \in RetainedAllocs /\ e.buf # b
  <2>1. e \in Entries
    BY <1>2 DEF RTyped
  <2>2. e.buf \in RetainedAllocs
    BY DEF RetainedAllocs, InEntries
  <2> QED BY <1>1, <2>1, <2>2 DEF Entries
<1>9. ASSUME NEW e \in lease.kept
      PROVE  lease.layer \in RLayers /\ e \in store[lease.layer].entries
  BY <1>2 DEF Tile
<1>10. Sized'
  <2>1. ASSUME NEW l \in RLayers, NEW e \in store[l].entries PROVE e.k <= env'[e.buf]
    BY <1>2, <1>7, <1>8 DEF Sized, InBounds
  <2>2. ASSUME NEW e \in lease.kept PROVE e.k <= env'[e.buf]
    BY <1>9, <2>1
  <2>3. ASSUME NEW i \in DOMAIN lease'.got
        PROVE  Len(lease'.got[i].ids) <= env'[lease'.got[i].buf]
    <3>1. CASE i \in DOMAIN lease.got
      <4>1. lease'.got[i] = lease.got[i] /\ lease.got[i].slot # w.slot
        BY <3>1 DEF Taken
      <4>2. lease.got[i].slot \in ArenaSlots /\ lease.got[i].buf \in Allocs
        BY <1>2, <3>1, GotIsTyped
      <4>3. arena[lease.got[i].slot].buf = lease.got[i].buf
        BY <1>2, <3>1 DEF Tile, OneSlotEach
      <4>4. lease.got[i].buf # b
        BY <4>1, <4>2, <4>3 DEF MayTake
      <4> QED BY <1>2, <1>7, <3>1, <4>1, <4>2, <4>4 DEF Sized
    <3>2. CASE i \notin DOMAIN lease.got
      <4>1. i = Len(lease.got) + 1
        BY <3>2 DEF Taken
      <4>2. lease'.got[i].ids = w.ids /\ lease'.got[i].buf = b
        BY <4>1 DEF Taken
      <4> QED BY <4>2 DEF MayTake
    <3> QED BY <3>1, <3>2
  <2> QED BY <1>4, <2>1, <2>2, <2>3 DEF Sized, InBounds
<1>11. Owned'
  <2>1. arena'[w.slot].buf = b /\ \A s \in ArenaSlots : s # w.slot => arena'[s] = arena[s]
    BY DEF Taken
  <2>2. \A s \in ArenaSlots : s # w.slot => arena[s].buf # b
    BY DEF MayTake
  <2>3. \A s, t \in ArenaSlots : arena'[s].buf = arena'[t].buf => s = t \/ arena'[s].buf = NoBuf
    BY <1>2, <2>1, <2>2 DEF Owned
  <2>4. pool' \subseteq pool
    BY <1>1 DEF MayTake
  <2>5. \A s \in ArenaSlots : arena'[s].buf \notin RetainedAllocs \cup grave.pending \cup pool'
    BY <1>1, <1>2, <2>1, <2>4 DEF Owned
  <2>6. pool' \cap (RetainedAllocs \cup grave.pending) = {}
    BY <1>2, <2>4 DEF Owned
  <2> QED BY <1>3, <2>3, <2>5, <2>6 DEF Owned
<1>12. ASSUME NEW x \in Alive PROVE x \in Alive' \/ x = arena[w.slot].buf
  <2>1. b \in Alive'
    <3>1. b # NoBuf
      BY <1>1, RetainAssumption
    <3> QED BY <1>4, <3>1 DEF Alive, Taken
  <2>2. CASE x \in {arena[s].buf : s \in ArenaSlots} \ {NoBuf}
    <3>1. PICK s \in ArenaSlots : x = arena[s].buf /\ x # NoBuf
      BY <2>2
    <3>2. s # w.slot => arena'[s].buf = x
      BY <3>1 DEF Taken
    <3> QED BY <3>1, <3>2 DEF Alive
  <2>3. CASE x \in RetainedAllocs \cup grave.pending \cup InEntries(lease.kept)
    BY <1>3, <1>4, <2>3 DEF Alive
  <2>4. CASE x \in pool
    <3>1. x \in pool' \/ x = b
      BY <2>4 DEF MayTake
    <3> QED BY <2>1, <3>1 DEF Alive
  <2>5. CASE x \in {lease.got[i].buf : i \in DOMAIN lease.got}
    <3>1. PICK i \in DOMAIN lease.got : x = lease.got[i].buf
      BY <2>5
    <3>2. i \in DOMAIN lease'.got /\ lease'.got[i] = lease.got[i]
      BY <3>1 DEF Taken
    <3> QED BY <3>1, <3>2 DEF Alive
  <2> QED BY <2>2, <2>3, <2>4, <2>5 DEF Alive
<1>13. Wrapped'
  <2>1. ASSUME NEW v \in wrapped', wrapped' = wrapped, arena[w.slot].buf \in {b, NoBuf}
        PROVE  v[1] \in Alive' /\ v[2] \in 1..env'[v[1]]
    <3>1. v[1] \in Alive /\ v[2] \in 1..env[v[1]] /\ v[1] \in Allocs
      BY <1>2, <2>1 DEF Wrapped, RTyped
    <3>2. env'[v[1]] = env[v[1]]
      BY <3>1 DEF MayTake
    <3>3. v[1] \in Alive'
      <4>1. v[1] # NoBuf
        BY <3>1, RetainAssumption
      <4>2. b \in Alive'
        BY <1>1, <1>4, RetainAssumption DEF Alive, Taken
      <4> QED BY <1>12, <2>1, <3>1, <4>1, <4>2
    <3> QED BY <3>1, <3>2, <3>3
  <2>2. ~rst'.metal => wrapped' = {}
    BY <1>2 DEF Wrapped, MayTake
  <2>3. ASSUME NEW c \in grave.pending PROVE Surface(c)' \subseteq grave.blobs
    <3>1. c \in Allocs /\ c # b
      BY <1>1, <1>2 DEF RTyped
    <3>2. Surface(c)' = Surface(c)
      BY <1>7, <3>1 DEF Surface
    <3>3. Surface(c) \subseteq grave.blobs
      BY <1>2 DEF Wrapped
    <3> QED BY <3>2, <3>3
  <2>4. \A v \in wrapped' : v[1] \in Alive' /\ v[2] \in 1..env'[v[1]]
    BY <2>1 DEF MayTake
  <2> QED BY <2>2, <2>3, <2>4 DEF Wrapped
<1> QED BY <1>5, <1>6, <1>10, <1>11, <1>13 DEF RetainInv

LEMMA OneFault == ASSUME RTyped, NEW ok \in BOOLEAN PROVE BadAfter(<<ok>>) \in Nat
<1>1. <<ok>> \in [1..1 -> BOOLEAN]
  OBVIOUS
<1> QED BY <1>1, FaultsCounted

LEMMA TwoFaults ==
  ASSUME RTyped, NEW a \in BOOLEAN, NEW b \in BOOLEAN PROVE BadAfter(<<a, b>>) \in Nat
<1>1. <<a, b>> \in [1..2 -> BOOLEAN]
  OBVIOUS
<1> QED BY <1>1, FaultsCounted

LEMMA AcquireKeeps ==
  ASSUME RetainInv, NEW flushed \in BOOLEAN, Acquire(flushed)
  PROVE  RetainInv'
<1> DEFINE w == Head(lease.want)
           old == arena[w.slot].buf
           n == Max({Len(w.ids), Spans(old)})
           regrow == Spans(old) < Len(w.ids)
<1>1. RTyped /\ Tile /\ Sized /\ Owned /\ Wrapped
  BY DEF RetainInv
<1>2. /\ rst.pc = "reading" /\ lease.want # <<>> /\ UNCHANGED <<store, grave>>
      /\ rst' = [rst EXCEPT !.bad = BadAfter(<<flushed>>), !.pc = IF flushed THEN @ ELSE "failed"]
  BY DEF Acquire
<1>3. /\ rst' \in [pc : RPhases, n : Nat, bad : Nat, metal : BOOLEAN]
      /\ rst'.pc = (IF flushed THEN rst.pc ELSE "failed") /\ rst'.metal = rst.metal
  <2>1. PICK m : m = BadAfter(<<flushed>>)
    OBVIOUS
  <2>2. m \in Nat
    BY <1>1, <2>1, OneFault
  <2>3. rst \in [pc : RPhases, n : Nat, bad : Nat, metal : BOOLEAN]
    BY <1>1 DEF RTyped
  <2>4. PICK p : p = (IF flushed THEN rst.pc ELSE "failed")
    OBVIOUS
  <2>5. p \in RPhases
    BY <2>3, <2>4 DEF RPhases
  <2>6. rst' = [rst EXCEPT !.bad = m, !.pc = p]
    BY <1>2, <2>1, <2>4
  <2> QED BY <2>2, <2>3, <2>4, <2>5, <2>6
<1>4. CASE ~flushed
  <2>1. UNCHANGED <<arena, lease, pool, env, wrapped>>
    BY <1>4 DEF Acquire
  <2>2. rst'.pc = "failed"
    BY <1>3, <1>4
  <2>3. RTyped'
    BY <1>1, <1>2, <1>3, <2>1 DEF RTyped
  <2>4. Tile'
    BY <1>1, <1>2, <2>1, <2>2 DEF Tile, RoutedOnce, Routed, OneSlotEach, InSet
  <2>5. Sized' /\ Owned' /\ RetainedAllocs' = RetainedAllocs
    BY <1>1, <1>2, <2>1 DEF Sized, Owned, InBounds, RetainedAllocs
  <2>6. Alive' = Alive
    BY <1>2, <2>1, <2>5 DEF Alive
  <2>7. Wrapped'
    BY <1>1, <1>2, <1>3, <2>1, <2>6 DEF Wrapped, Surface
  <2> QED BY <2>3, <2>4, <2>5, <2>7 DEF RetainInv
<1>5. CASE flushed
  <2>1. /\ w \in Parts /\ w.slot \in ArenaSlots /\ Len(w.ids) \in Nat /\ Len(w.ids) >= 1
    <3>1. PICK q : q = lease.want
      OBVIOUS
    <3>2. q \in Seq(Parts) /\ q # <<>>
      BY <1>1, <1>2, <3>1 DEF RTyped, Leases
    <3>3. w = q[1] /\ 1 \in DOMAIN q /\ w \in Parts
      BY <3>1, <3>2
    <3> HIDE DEF w
    <3>4. w.ids # <<>>
      BY <1>1, <3>1, <3>3 DEF Tile, RoutedOnce, Routed
    <3>5. w.slot \in ArenaSlots /\ w.ids \in Seq(Experts)
      BY <3>3 DEF Parts
    <3> QED BY <3>3, <3>4, <3>5
  <2>2. wrapped' = IF regrow /\ old # NoBuf THEN {} ELSE wrapped
    BY <1>5 DEF Acquire
  <2>3. \/ ~regrow /\ Takes(old) /\ UNCHANGED <<pool, env>>
        \/ regrow /\ \E b \in Donations(n) : Takes(b) /\ pool' = pool \ {b} /\ UNCHANGED env
        \/ /\ regrow
           /\ \E b \in Allocs \ Alive :
                 Takes(b) /\ env' = [env EXCEPT ![b] = n] /\ UNCHANGED pool
    BY <1>5 DEF Acquire, Takes
  <2>4. old \in Allocs \cup {NoBuf}
    BY <1>1, <2>1 DEF RTyped, Slabs
  <2>5. /\ Spans(old) \in Nat /\ (old # NoBuf => Spans(old) = env[old])
        /\ (old = NoBuf => Spans(old) = 0)
    BY <1>1, <2>4 DEF RTyped, Spans
  <2>6. n \in Nat /\ n >= Len(w.ids)
    <3>1. PICK x : x = Len(w.ids)
      OBVIOUS
    <3>2. PICK y : y = Spans(old)
      OBVIOUS
    <3>3. x \in Nat /\ y \in Nat
      BY <2>1, <2>5, <3>1, <3>2
    <3>4. n = Max({x, y})
      BY <3>1, <3>2
    <3> HIDE DEF n
    <3> QED BY <3>1, <3>3, <3>4, MaxOfTwo
  <2> HIDE DEF w, n
  <2>7. \A b \in Allocs : Takes(b) => Taken(w, b)
    BY <1>1, <1>2, TakingIt DEF w
  <2>8. \A b : Taken(w, b) /\ MayTake(w, b) => RetainInv'
    BY <1>2, <1>3, <1>5, TakenKeeps
  <2>9. CASE ~regrow /\ Takes(old) /\ UNCHANGED <<pool, env>>
    <3>1. old \in Allocs /\ Len(w.ids) <= env[old]
      BY <2>1, <2>4, <2>5, <2>9
    <3>2. MayTake(w, old)
      <4>1. old \notin RetainedAllocs \cup grave.pending \cup pool
        BY <1>1, <2>1 DEF Owned
      <4>2. \A s \in ArenaSlots : s # w.slot => arena[s].buf # old
        BY <1>1, <2>1, <3>1, RetainAssumption DEF Owned
      <4>3. wrapped' = wrapped
        BY <2>2, <2>9
      <4>4. \A a \in Allocs : env'[a] = env[a]
        BY <2>9
      <4>5. env' \in [Allocs -> Nat] /\ Len(w.ids) <= env'[old]
        BY <1>1, <2>9, <3>1 DEF RTyped
      <4>6. pool' \cup {old} = pool \cup {old} /\ pool' = pool
        BY <2>9
      <4> QED BY <3>1, <4>1, <4>2, <4>3, <4>4, <4>5, <4>6 DEF MayTake
    <3> QED BY <2>7, <2>8, <2>9, <3>1, <3>2
  <2>10. ASSUME NEW b \in Donations(n), regrow, Takes(b), pool' = pool \ {b}, UNCHANGED env
         PROVE  RetainInv'
    <3>1. b \in pool /\ env[b] >= n /\ b \in Allocs /\ env[b] \in Nat
      BY <1>1, <2>10 DEF Donations, RTyped
    <3>2. MayTake(w, b)
      <4>1. b \notin RetainedAllocs \cup grave.pending \cup pool'
        BY <1>1, <2>10, <3>1 DEF Owned
      <4>2. \A s \in ArenaSlots : s # w.slot => arena[s].buf # b
        BY <1>1, <3>1 DEF Owned
      <4>3. wrapped' = {} \/ (wrapped' = wrapped /\ old \in {b, NoBuf})
        BY <2>2, <2>10
      <4>4. \A a \in Allocs : env'[a] = env[a]
        BY <2>10
      <4>5. env' \in [Allocs -> Nat] /\ Len(w.ids) <= env'[b]
        BY <1>1, <2>1, <2>6, <2>10, <3>1 DEF RTyped
      <4>6. pool' \cup {b} = pool \cup {b}
        BY <2>10
      <4> QED BY <3>1, <4>1, <4>2, <4>3, <4>4, <4>5, <4>6 DEF MayTake
    <3> QED BY <2>7, <2>8, <2>10, <3>1, <3>2
  <2>11. ASSUME NEW b \in Allocs \ Alive, regrow, Takes(b), env' = [env EXCEPT ![b] = n],
                UNCHANGED pool
         PROVE  RetainInv'
    <3>1. b \in Allocs /\ b \notin Alive /\ b # NoBuf
      BY RetainAssumption
    <3>2. MayTake(w, b)
      <4>1. b \notin RetainedAllocs \cup grave.pending \cup pool'
        BY <2>11 DEF Alive
      <4>2. \A s \in ArenaSlots : arena[s].buf # b
        BY <3>1 DEF Alive
      <4>3. wrapped' = {} \/ (wrapped' = wrapped /\ old \in {b, NoBuf})
        BY <2>2, <2>11
      <4>4. \A a \in Allocs : a # b \/ a \in Alive => env'[a] = env[a]
        BY <1>1, <2>11, <3>1 DEF RTyped
      <4>5. env' \in [Allocs -> Nat] /\ Len(w.ids) <= env'[b]
        BY <1>1, <2>6, <2>11, <3>1 DEF RTyped
      <4>6. pool' \cup {b} = pool \cup {b}
        BY <2>11
      <4> QED BY <3>1, <4>1, <4>2, <4>3, <4>4, <4>5, <4>6 DEF MayTake
    <3> QED BY <2>7, <2>8, <2>11, <3>1, <3>2
  <2> QED BY <2>3, <2>9, <2>10, <2>11
<1> QED BY <1>4, <1>5

-----------------------------------------------------------------------------
(* The provider computes, and the tile is given up.                          *)

\* What the tile in hand reads is held by a slot or by the retained store.
LEMMA LeaseIsHeld ==
  ASSUME RTyped, Tile
  PROVE  /\ \A i \in DOMAIN lease.got :
              lease.got[i].buf \in {arena[s].buf : s \in ArenaSlots} \ {NoBuf}
         /\ InEntries(lease.kept) \subseteq RetainedAllocs
<1>1. ASSUME NEW i \in DOMAIN lease.got
      PROVE  lease.got[i].buf \in {arena[s].buf : s \in ArenaSlots} \ {NoBuf}
  <2>1. lease.got[i].slot \in ArenaSlots /\ lease.got[i].buf \in Allocs
    BY GotIsTyped
  <2>2. arena[lease.got[i].slot].buf = lease.got[i].buf
    BY DEF Tile, OneSlotEach
  <2> QED BY <2>1, <2>2, RetainAssumption
<1>2. ASSUME NEW e \in lease.kept PROVE e.buf \in RetainedAllocs
  BY DEF Tile, RetainedAllocs, InEntries
<1> QED BY <1>1, <1>2 DEF InEntries

\* Nothing in hand.
LEMMA NothingInHand ==
  /\ NoLease \in Leases /\ NoLease.layer = 0 /\ NoLease.want = <<>> /\ NoLease.got = <<>>
  /\ NoLease.kept = {} /\ RoutedOnce(NoLease)
<1>1. /\ NoLease \in Leases /\ NoLease.layer = 0 /\ NoLease.want = <<>> /\ NoLease.got = <<>>
      /\ NoLease.kept = {}
  BY RetainAssumption DEF NoLease, Leases
<1>2. Routed(NoLease) = {}
  BY <1>1 DEF Routed
<1>3. {} \in SUBSET Experts /\ Cardinality({}) <= TileWidth
  BY FS_EmptySet, RetainAssumption
<1> QED BY <1>1, <1>2, <1>3 DEF RoutedOnce

LEMMA EmptyTile ==
  ASSUME lease' = NoLease, rst'.pc \notin {"reading", "retain"},
         \A l \in RLayers : \A e, f \in store'[l].entries : e.expert = f.expert => e = f
  PROVE  Tile'
<1>1. OneSlotEach(NoLease)'
  BY NothingInHand DEF OneSlotEach
<1> QED BY <1>1, NothingInHand DEF Tile, RoutedOnce, Routed, OneSlotEach

LEMMA ComputeKeeps ==
  ASSUME RetainInv, NEW ok \in BOOLEAN, Finish(ok)
  PROVE  RetainInv'
<1> DEFINE spans == (UNION {{<<g.buf, k>> : k \in 1..Len(g.ids)} : g \in Range(lease.got)})
                    \cup {<<e.buf, e.k>> : e \in lease.kept}
<1>1. RTyped /\ Tile /\ Sized /\ Owned /\ Wrapped
  BY DEF RetainInv
<1>2. /\ rst.pc = "reading" /\ UNCHANGED <<arena, lease, store, grave, pool, env>>
      /\ wrapped' = IF rst.metal THEN wrapped \cup spans ELSE wrapped
      /\ rst' = [rst EXCEPT !.pc = IF ok THEN "retain" ELSE "failed"]
  BY DEF Finish
<1>3. ASSUME NEW v \in spans
      PROVE  v \in Allocs \X Nat /\ v[1] \in Alive /\ v[2] \in 1..env[v[1]]
  <2>1. CASE v \in {<<e.buf, e.k>> : e \in lease.kept}
    <3>1. PICK e \in lease.kept : v = <<e.buf, e.k>>
      BY <2>1
    <3>2. e \in Entries /\ e.k <= env[e.buf]
      BY <1>1 DEF Sized, InBounds, RTyped, Leases
    <3>3. e.buf \in Allocs /\ e.k \in Nat \ {0} /\ env[e.buf] \in Nat
      BY <1>1, <3>2 DEF Entries, RTyped
    <3>4. e.buf \in Alive
      BY DEF Alive, InEntries
    <3>5. v[1] = e.buf /\ v[2] = e.k /\ v \in Allocs \X Nat
      BY <3>1, <3>3
    <3>6. e.k \in 1..env[e.buf]
      BY <3>2, <3>3
    <3> QED BY <3>4, <3>5, <3>6
  <2>2. CASE v \in UNION {{<<g.buf, k>> : k \in 1..Len(g.ids)} : g \in Range(lease.got)}
    <3>1. PICK g \in Range(lease.got) : v \in {<<g.buf, k>> : k \in 1..Len(g.ids)}
      BY <2>2
    <3>2. PICK i \in DOMAIN lease.got : g = lease.got[i]
      BY <3>1 DEF Range
    <3>3. PICK k \in 1..Len(g.ids) : v = <<g.buf, k>>
      BY <3>1
    <3>4. g.buf \in Allocs /\ Len(g.ids) \in Nat /\ env[g.buf] \in Nat /\ Len(g.ids) <= env[g.buf]
      BY <1>1, <3>2, GotIsTyped DEF Sized, RTyped
    <3>5. g.buf \in Alive
      BY <3>2 DEF Alive
    <3>6. v[1] = g.buf /\ v[2] = k /\ v \in Allocs \X Nat
      BY <3>3, <3>4
    <3>7. k \in 1..env[g.buf]
      BY <3>4
    <3> QED BY <3>5, <3>6, <3>7
  <2> QED BY <1>3, <2>1, <2>2
<1> HIDE DEF spans
<1>4. rst'.pc \in {"retain", "failed"} /\ rst'.metal = rst.metal
      /\ rst' \in [pc : RPhases, n : Nat, bad : Nat, metal : BOOLEAN]
  BY <1>1, <1>2 DEF RTyped, RPhases
<1>5. RTyped'
  BY <1>1, <1>2, <1>3, <1>4 DEF RTyped
<1>6. Tile'
  BY <1>1, <1>2, <1>4 DEF Tile, RoutedOnce, Routed, OneSlotEach, InSet
<1>7. Sized' /\ Owned' /\ RetainedAllocs' = RetainedAllocs
  BY <1>1, <1>2 DEF Sized, Owned, InBounds, RetainedAllocs
<1>8. Alive' = Alive
  BY <1>2, <1>7 DEF Alive
<1>9. Wrapped'
  BY <1>1, <1>2, <1>3, <1>4, <1>8 DEF Wrapped, Surface
<1> QED BY <1>5, <1>6, <1>7, <1>9 DEF RetainInv

LEMMA AbandonKeeps ==
  ASSUME RetainInv, Abandon
  PROVE  RetainInv'
<1>1. RTyped /\ Tile /\ Sized /\ Owned /\ Wrapped
  BY DEF RetainInv
<1>2. /\ rst.pc = "failed" /\ lease' = NoLease /\ UNCHANGED <<store, grave, pool, env, wrapped>>
      /\ arena' = [s \in ArenaSlots |-> [arena[s] EXCEPT !.use = FALSE]]
      /\ rst' = [rst EXCEPT !.pc = "ending"]
  BY DEF Abandon
<1>3. /\ rst'.pc = "ending" /\ rst'.metal = rst.metal
      /\ rst' \in [pc : RPhases, n : Nat, bad : Nat, metal : BOOLEAN]
  BY <1>1, <1>2 DEF RTyped, RPhases
<1>4. /\ arena' \in [ArenaSlots -> Slabs]
      /\ \A s \in ArenaSlots : arena'[s].buf = arena[s].buf
  <2>1. arena \in [ArenaSlots -> Slabs]
    BY <1>1 DEF RTyped
  <2>2. ASSUME NEW s \in ArenaSlots
        PROVE  arena'[s] \in Slabs /\ arena'[s].buf = arena[s].buf
    <3>1. PICK a : a = arena[s]
      OBVIOUS
    <3>2. a \in Slabs /\ arena'[s] = [a EXCEPT !.use = FALSE]
      BY <1>2, <2>1, <3>1
    <3> QED BY <3>1, <3>2 DEF Slabs
  <2> QED BY <1>2, <2>2
<1>5. RTyped'
  BY <1>1, <1>2, <1>3, <1>4, NothingInHand DEF RTyped
<1>6. Tile'
  <2>1. \A l \in RLayers : \A e, f \in store'[l].entries : e.expert = f.expert => e = f
    BY <1>1, <1>2 DEF Tile
  <2> QED BY <1>2, <1>3, <2>1, EmptyTile
<1>7. Sized'
  BY <1>1, <1>2, NothingInHand DEF Sized, InBounds
<1>8. RetainedAllocs' = RetainedAllocs
  BY <1>2 DEF RetainedAllocs
<1>9. Owned'
  BY <1>1, <1>2, <1>4, <1>8 DEF Owned
<1>10. Alive \subseteq Alive'
  <2>1. {arena'[s].buf : s \in ArenaSlots} = {arena[s].buf : s \in ArenaSlots}
    BY <1>4
  <2>2. Alive \subseteq ({arena[s].buf : s \in ArenaSlots} \ {NoBuf}) \cup RetainedAllocs
                       \cup grave.pending \cup pool
    BY <1>1, LeaseIsHeld DEF Alive
  <2> QED BY <1>2, <1>8, <2>1, <2>2 DEF Alive
<1>11. Wrapped'
  BY <1>1, <1>2, <1>3, <1>10 DEF Wrapped, Surface
<1> QED BY <1>5, <1>6, <1>7, <1>9, <1>11 DEF RetainInv

LEMMA TeardownKeeps ==
  ASSUME RetainInv, NEW flushOk \in BOOLEAN, NEW arenaOk \in BOOLEAN, Teardown(flushOk, arenaOk)
  PROVE  RetainInv'
<1> DEFINE buried == grave.pending \cup RetainedAllocs
           slabs == {arena[s].buf : s \in ArenaSlots} \ {NoBuf}
           pending == (IF flushOk THEN {} ELSE buried) \cup IF arenaOk THEN {} ELSE slabs
<1>1. RTyped /\ Tile /\ Sized /\ Owned /\ Wrapped
  BY DEF RetainInv
<1>2. /\ rst.pc \in {"idle", "ending"} /\ UNCHANGED <<lease, pool, env>>
      /\ store' = [l \in RLayers |-> [entries |-> {}, seq |-> 0]]
      /\ slabs # {} \/ arenaOk
      /\ grave' = [grave EXCEPT !.pending = pending]
      /\ wrapped' = IF flushOk \/ (slabs # {} /\ arenaOk) THEN {} ELSE wrapped
      /\ arena' = [s \in ArenaSlots |-> [buf |-> NoBuf, use |-> FALSE]]
      /\ rst' = [rst EXCEPT !.pc = "closed", !.bad = BadAfter(<<flushOk, arenaOk>>)]
  BY DEF Teardown
<1>3. /\ rst'.pc = "closed" /\ rst'.metal = rst.metal
      /\ rst' \in [pc : RPhases, n : Nat, bad : Nat, metal : BOOLEAN]
  <2>1. PICK m : m = BadAfter(<<flushOk, arenaOk>>)
    OBVIOUS
  <2>2. m \in Nat
    BY <1>1, <2>1, TwoFaults
  <2>3. rst' = [rst EXCEPT !.pc = "closed", !.bad = m]
    BY <1>2, <2>1
  <2> QED BY <1>1, <2>2, <2>3 DEF RTyped, RPhases
<1>4. lease' = NoLease
  BY <1>1, <1>2 DEF Tile
<1>5. RetainedAllocs \subseteq Allocs /\ RetainedAllocs' = {}
  <2>1. ASSUME NEW l \in RLayers, NEW e \in store[l].entries PROVE e.buf \in Allocs
    BY <1>1 DEF RTyped, Entries
  <2>2. \A l \in RLayers : store'[l].entries = {}
    BY <1>2
  <2> QED BY <2>1, <2>2 DEF RetainedAllocs, InEntries
<1>6. slabs \subseteq Allocs /\ \A s \in ArenaSlots : arena[s].buf \in slabs \cup {NoBuf}
  BY <1>1 DEF RTyped, Slabs
<1>7. pending \subseteq Allocs /\ pending \cap pool = {}
  BY <1>1, <1>5, <1>6 DEF RTyped, Owned
<1>8. Alive \subseteq slabs \cup buried \cup pool
  BY <1>1, LeaseIsHeld DEF Alive
<1>9. wrapped' = {} \/ (wrapped' = wrapped /\ slabs \cup buried \subseteq pending)
  BY <1>2
<1> HIDE DEF slabs, buried, pending
<1>10. grave'.pending = pending /\ grave'.blobs = grave.blobs
       /\ grave' \in [pending : SUBSET Allocs, blobs : SUBSET (Allocs \X Nat)]
  BY <1>1, <1>2, <1>7 DEF RTyped
<1>11. RTyped'
  <2>1. wrapped' \subseteq Allocs \X Nat
    BY <1>1, <1>9 DEF RTyped
  <2>2. /\ arena' \in [ArenaSlots -> Slabs]
        /\ store' \in [RLayers -> [entries : SUBSET Entries, seq : Nat]]
    BY <1>2 DEF Slabs
  <2> QED BY <1>1, <1>2, <1>3, <1>4, <1>10, <2>1, <2>2, NothingInHand DEF RTyped
<1>12. Tile'
  <2>1. \A l \in RLayers : store'[l].entries = {}
    BY <1>2
  <2> QED BY <1>3, <1>4, <2>1, EmptyTile
<1>13. Sized'
  BY <1>2, <1>4, NothingInHand DEF Sized, InBounds
<1>14. Owned'
  <2>1. \A s \in ArenaSlots : arena'[s].buf = NoBuf
    BY <1>2
  <2>2. NoBuf \notin pending /\ NoBuf \notin pool
    BY <1>1, <1>7, RetainAssumption DEF RTyped
  <2> QED BY <1>2, <1>5, <1>7, <1>10, <2>1, <2>2 DEF Owned
<1>15. Wrapped'
  <2>1. pending \cup pool \subseteq Alive'
    BY <1>2, <1>10 DEF Alive
  <2>2. ~rst'.metal => wrapped' = {}
    BY <1>1, <1>3, <1>9 DEF Wrapped
  <2>3. ASSUME NEW v \in wrapped' PROVE v[1] \in Alive' /\ v[2] \in 1..env'[v[1]]
    BY <1>1, <1>2, <1>8, <1>9, <2>1 DEF Wrapped
  <2> QED BY <1>3, <2>2, <2>3 DEF Wrapped
<1> QED BY <1>11, <1>12, <1>13, <1>14, <1>15 DEF RetainInv

-----------------------------------------------------------------------------
(* Retaining the tile.                                                       *)

Fits == TileWidth <= TopK

\* A place and the expert read there.
ExpertAt(p) == lease.got[p[1]].ids[p[2]]

LEMMA PlacesDiffer ==
  ASSUME RTyped, Tile, NEW p \in Places, NEW q \in Places, ExpertAt(p) = ExpertAt(q)
  PROVE  p = q
<1>1. /\ p[1] \in Batches /\ p[2] \in 1..TopK /\ p[2] <= Len(lease.got[p[1]].ids)
      /\ q[1] \in Batches /\ q[2] \in 1..TopK /\ q[2] <= Len(lease.got[q[1]].ids)
      /\ p = <<p[1], p[2]>> /\ q = <<q[1], q[2]>>
  BY DEF Places
<1>2. PICK i : i = p[1]
  OBVIOUS
<1>3. PICK j : j = q[1]
  OBVIOUS
<1>4. i \in DOMAIN lease.got /\ j \in DOMAIN lease.got
  BY <1>1, <1>2, <1>3 DEF Batches
<1>5. /\ lease.got[i] \in Fetched /\ lease.got[j] \in Fetched
      /\ lease.got[i].ids \in Seq(Experts) /\ lease.got[j].ids \in Seq(Experts)
  BY <1>4, GotIsTyped
<1>6. p[2] \in DOMAIN lease.got[i].ids /\ q[2] \in DOMAIN lease.got[j].ids
  <2>1. PICK r : r = lease.got[i].ids
    OBVIOUS
  <2>2. PICK t : t = lease.got[j].ids
    OBVIOUS
  <2>3. r \in Seq(Experts) /\ t \in Seq(Experts)
    BY <1>5, <2>1, <2>2
  <2>4. p[2] \in 1..TopK /\ p[2] <= Len(r) /\ q[2] \in 1..TopK /\ q[2] <= Len(t)
    BY <1>1, <1>2, <1>3, <2>1, <2>2
  <2>5. p[2] \in DOMAIN r /\ q[2] \in DOMAIN t
    BY <2>3, <2>4, RetainAssumption
  <2> QED BY <2>1, <2>2, <2>5
<1>7. PICK a : a = PartOf(lease.got[i])
  OBVIOUS
<1>8. PICK b : b = PartOf(lease.got[j])
  OBVIOUS
<1>9. /\ a.ids = lease.got[i].ids /\ b.ids = lease.got[j].ids
      /\ a.slot = lease.got[i].slot /\ b.slot = lease.got[j].slot
  BY <1>7, <1>8 DEF PartOf
<1>10. a \in Routed(lease) /\ b \in Routed(lease)
  BY <1>4, <1>7, <1>8 DEF Routed
<1>11. a.ids[p[2]] = b.ids[q[2]]
  BY <1>2, <1>3, <1>9 DEF ExpertAt
<1>12. a = b /\ p[2] = q[2]
  BY <1>6, <1>9, <1>10, <1>11 DEF Tile, RoutedOnce
<1>13. i = j
  BY <1>4, <1>9, <1>12 DEF Tile, OneSlotEach
<1> QED BY <1>1, <1>2, <1>3, <1>12, <1>13

\* An expert at a place is one the tile was routed to.
LEMMA PlaceIsRouted ==
  ASSUME RTyped, NEW q \in Places
  PROVE  \E p \in Routed(lease) : \E k \in DOMAIN p.ids : ExpertAt(q) = p.ids[k]
<1>1. q[1] \in DOMAIN lease.got /\ q[2] \in 1..TopK /\ q[2] <= Len(lease.got[q[1]].ids)
  BY DEF Places, Batches
<1>2. PICK r : r = lease.got[q[1]].ids
  OBVIOUS
<1>3. r \in Seq(Experts)
  BY <1>1, <1>2, GotIsTyped
<1>4. q[2] \in DOMAIN r
  BY <1>1, <1>2, <1>3, RetainAssumption
<1>5. PartOf(lease.got[q[1]]) \in Routed(lease) /\ PartOf(lease.got[q[1]]).ids = r
  BY <1>1, <1>2 DEF Routed, PartOf
<1> QED BY <1>2, <1>4, <1>5 DEF ExpertAt

\* A tile no wider than the experts of one position has an entry for every place.
LEMMA EveryPlaceCounts ==
  ASSUME Fits, RTyped, Tile, NEW p \in Places
  PROVE  Cardinality(Before(p)) < TopK
<1>1. PICK W \in SUBSET Experts :
        /\ Cardinality(W) <= TileWidth
        /\ \A q \in Routed(lease) : \A k \in DOMAIN q.ids : q.ids[k] \in W
  BY DEF Tile, RoutedOnce
<1>2. IsFiniteSet(W) /\ Cardinality(W) \in Nat
  BY FewExperts
<1>3. ASSUME NEW q \in Places PROVE ExpertAt(q) \in W
  BY <1>1, PlaceIsRouted
<1>4. PICK f : f = [q \in Places |-> ExpertAt(q)]
  OBVIOUS
<1>5. f \in [Places -> W]
  BY <1>3, <1>4
<1>6. f \in Injection(Places, W)
  <2>1. \A q, r \in Places : f[q] = f[r] => q = r
    BY <1>4, PlacesDiffer
  <2> QED BY <1>5, <2>1 DEF Injection, IsInjective
<1>7. IsFiniteSet(Places) /\ Cardinality(Places) <= Cardinality(W)
  BY <1>2, <1>6, FS_Injection
<1>8. Before(p) \in SUBSET (Places \ {p})
  <2>1. p[2] \in Nat /\ p[1] \in Nat
    <3>1. p[2] \in 1..TopK /\ p[1] \in DOMAIN lease.got
      BY DEF Places, Batches
    <3>2. lease.got \in Seq(Fetched)
      BY DEF RTyped, Leases
    <3> QED BY <3>1, <3>2, RetainAssumption
  <2> QED BY <2>1 DEF Before
<1>9. Cardinality(Places \ {p}) = Cardinality(Places) - 1 /\ IsFiniteSet(Places \ {p})
  BY <1>7, FS_RemoveElement
<1>10. Cardinality(Before(p)) <= Cardinality(Places \ {p}) /\ IsFiniteSet(Before(p))
  BY <1>8, <1>9, FS_Subset
<1>11. Cardinality(Places) \in Nat /\ Cardinality(Before(p)) \in Nat
  BY <1>7, <1>10, FS_CardinalityType
<1> QED BY <1>1, <1>2, <1>7, <1>9, <1>10, <1>11, RetainAssumption DEF Fits

\* The entries: in bounds, and over what was read or what was retained already.
LEMMA EntriesAre ==
  ASSUME RetainInv, NEW e \in NewEntries
  PROVE  /\ e \in Entries /\ e.k <= env[e.buf]
         /\ e \in lease.kept \/ \E i \in Batches : e.buf = lease.got[i].buf
<1>1. RTyped /\ Tile /\ Sized
  BY DEF RetainInv
<1>2. CASE e \in lease.kept
  <2>1. e \in Entries /\ e.k <= env[e.buf]
    BY <1>1, <1>2 DEF RTyped, Leases, Sized, InBounds
  <2> QED BY <1>2, <2>1
<1>3. CASE e \notin lease.kept
  <2>1. PICK p \in Places : e = EntryAt(p)
    BY <1>3 DEF NewEntries
  <2>2. p[1] \in Batches /\ p[2] \in 1..TopK /\ p[2] <= Len(lease.got[p[1]].ids)
    BY DEF Places
  <2>3. PICK i : i = p[1]
    OBVIOUS
  <2>4. i \in DOMAIN lease.got
    BY <2>2, <2>3 DEF Batches
  <2>5. lease.got[i].ids \in Seq(Experts) /\ lease.got[i].buf \in Allocs
        /\ Len(lease.got[i].ids) \in Nat
    BY <1>1, <2>4, GotIsTyped
  <2>6. e = [expert |-> lease.got[i].ids[p[2]], buf |-> lease.got[i].buf, k |-> p[2]]
    BY <2>1, <2>3 DEF EntryAt
  <2>7. p[2] \in Nat \ {0} /\ p[2] \in DOMAIN lease.got[i].ids
    BY <2>2, <2>3, <2>5, RetainAssumption
  <2>8. lease.got[i].ids[p[2]] \in Experts
    BY <2>5, <2>7
  <2>9. e \in Entries /\ e.buf = lease.got[i].buf /\ e.k = p[2]
    BY <2>5, <2>6, <2>7, <2>8 DEF Entries
  <2>10. Len(lease.got[i].ids) <= env[lease.got[i].buf] /\ env[lease.got[i].buf] \in Nat
    BY <1>1, <2>4, <2>5 DEF Sized, RTyped
  <2>11. p[2] <= env[lease.got[i].buf]
    BY <2>2, <2>3, <2>5, <2>7, <2>10
  <2> QED BY <2>2, <2>3, <2>9, <2>11
<1> QED BY <1>2, <1>3

\* An expert has one entry, and so a tile of one position is within the cap.
LEMMA EntriesDiffer ==
  ASSUME RTyped, Tile, NEW e \in NewEntries, NEW f \in NewEntries, e.expert = f.expert
  PROVE  e = f
<1>1. ASSUME NEW p \in Places
      PROVE  /\ EntryAt(p).expert = ExpertAt(p)
             /\ \A g \in lease.kept : ExpertAt(p) # g.expert
  <2>1. EntryAt(p).expert = ExpertAt(p)
    BY DEF EntryAt, ExpertAt
  <2>2. ASSUME NEW g \in lease.kept PROVE ExpertAt(p) # g.expert
    <3>1. PICK q \in Routed(lease) : \E k \in DOMAIN q.ids : ExpertAt(p) = q.ids[k]
      BY PlaceIsRouted
    <3> QED BY <3>1 DEF Tile, RoutedOnce
  <2> QED BY <2>1, <2>2
<1>2. \A g \in NewEntries : g \in lease.kept \/ \E p \in Places : g = EntryAt(p)
  BY DEF NewEntries
<1>3. CASE e \in lease.kept /\ f \in lease.kept
  BY <1>3 DEF Tile, RoutedOnce
<1>4. CASE e \in lease.kept /\ f \notin lease.kept
  BY <1>1, <1>2, <1>4
<1>5. CASE e \notin lease.kept /\ f \in lease.kept
  BY <1>1, <1>2, <1>5
<1>6. CASE e \notin lease.kept /\ f \notin lease.kept
  <2>1. PICK p \in Places : e = EntryAt(p)
    BY <1>2, <1>6
  <2>2. PICK q \in Places : f = EntryAt(q)
    BY <1>2, <1>6
  <2>3. ExpertAt(p) = ExpertAt(q)
    BY <1>1, <2>1, <2>2
  <2> QED BY <2>1, <2>2, <2>3, PlacesDiffer
<1> QED BY <1>3, <1>4, <1>5, <1>6

LEMMA EntriesFit ==
  ASSUME Fits, RTyped, Tile
  PROVE  Cardinality(NewEntries) <= CapTiles * TopK
<1>1. PICK W \in SUBSET Experts :
        /\ Cardinality(W) <= TileWidth
        /\ \A q \in Routed(lease) : \A k \in DOMAIN q.ids : q.ids[k] \in W
        /\ \A e \in lease.kept : e.expert \in W
  BY DEF Tile, RoutedOnce
<1>2. IsFiniteSet(W) /\ Cardinality(W) \in Nat
  BY FewExperts
<1>3. ASSUME NEW e \in NewEntries PROVE e.expert \in W
  <2>1. CASE e \in lease.kept
    BY <1>1, <2>1
  <2>2. CASE e \notin lease.kept
    <3>1. PICK p \in Places : e = EntryAt(p)
      BY <2>2 DEF NewEntries
    <3>2. e.expert = ExpertAt(p)
      BY <3>1 DEF EntryAt, ExpertAt
    <3> QED BY <1>1, <3>2, PlaceIsRouted
  <2> QED BY <2>1, <2>2
<1>4. PICK f : f = [e \in NewEntries |-> e.expert]
  OBVIOUS
<1>5. f \in [NewEntries -> W]
  BY <1>3, <1>4
<1>6. f \in Injection(NewEntries, W)
  <2>1. \A a, b \in NewEntries : f[a] = f[b] => a = b
    BY <1>4, EntriesDiffer
  <2> QED BY <1>5, <2>1 DEF Injection, IsInjective
<1>7. IsFiniteSet(NewEntries) /\ Cardinality(NewEntries) <= Cardinality(W)
  BY <1>2, <1>6, FS_Injection
<1>8. Cardinality(NewEntries) \in Nat
  BY <1>7, FS_CardinalityType
<1>9. Cardinality(NewEntries) <= TopK /\ TopK \in Nat /\ CapTiles \in Nat /\ CapTiles >= 1
  BY <1>1, <1>2, <1>7, <1>8, RetainAssumption DEF Fits
<1>10. TopK <= CapTiles * TopK /\ CapTiles * TopK \in Nat
  BY <1>9
<1> QED BY <1>8, <1>9, <1>10

\* Whatever is detached from its slot is entered.
LEMMA BatchesAreEntered ==
  ASSUME Fits, RTyped, Tile, NEW i \in Batches
  PROVE  lease.got[i].buf \in InEntries(NewEntries)
<1>1. i \in DOMAIN lease.got
  BY DEF Batches
<1>2. lease.got[i].ids \in Seq(Experts)
  BY <1>1, GotIsTyped
<1>3. lease.got[i].ids # <<>>
  <2>1. PartOf(lease.got[i]) \in Routed(lease) /\ PartOf(lease.got[i]).ids = lease.got[i].ids
    BY <1>1 DEF Routed, PartOf
  <2> QED BY <2>1 DEF Tile, RoutedOnce
<1>4. 1 <= Len(lease.got[i].ids)
  BY <1>2, <1>3
<1>5. PICK p : p = <<i, 1>>
  OBVIOUS
<1>6. p \in Places /\ p[1] = i
  BY <1>4, <1>5, RetainAssumption DEF Places
<1>7. EntryAt(p) \in NewEntries
  BY <1>6, EveryPlaceCounts DEF NewEntries
<1>8. EntryAt(p).buf = lease.got[i].buf
  BY <1>6 DEF EntryAt
<1> QED BY <1>7, <1>8 DEF InEntries

\* What retaining the tile replaces and keeps (RetainTile): the tile enters the
\* store of its layer, some other layers stay, the rest goes; memory that only
\* these hold is let go, and everything that is kept is in StillHeld.
Enters ==
  InSet(lease.layer) /\ NewEntries # {} /\ Cardinality(NewEntries) <= CapTiles * TopK
Stay == IF Enters THEN Survivors(lease.layer, Cardinality(NewEntries)) ELSE RLayers
Gone == IF Enters THEN RLayers \ Stay ELSE {}
Out == UNION {InEntries(store[m].entries) : m \in Gone}
StillHeld ==
  InEntries(NewEntries) \cup (UNION {InEntries(store[m].entries) : m \in Stay})
    \cup grave.pending \cup {lease.got[i].buf : i \in DOMAIN lease.got} \cup InEntries(lease.kept)

Replaces(donated, dropOk, flushOk) ==
  /\ rst.pc = "retain" /\ lease' = NoLease /\ env' = env
  /\ Bury(Out, StillHeld, donated, dropOk, flushOk)
  /\ store' = [m \in RLayers |->
       IF Enters /\ m = lease.layer THEN [entries |-> NewEntries, seq |-> rst.n]
       ELSE IF m \in Gone THEN [entries |-> {}, seq |-> 0] ELSE store[m]]
  /\ arena' = [s \in ArenaSlots |->
       [buf |-> IF s \in Detached THEN NoBuf ELSE arena[s].buf, use |-> FALSE]]
  /\ rst' = [rst EXCEPT !.pc = "idle", !.bad = BadAfter(<<dropOk, flushOk>>)]

LEMMA RetainTileParts ==
  ASSUME NEW donated, NEW dropOk \in BOOLEAN, NEW flushOk \in BOOLEAN,
         RetainTile(donated, dropOk, flushOk)
  PROVE  Replaces(donated, dropOk, flushOk)
BY DEF RetainTile, Replaces, Enters, Stay, Gone, Out, StillHeld

\* The layer of the tile is replaced; the others stay or go.
LEMMA StayAndGone ==
  /\ Stay \subseteq RLayers /\ Gone \subseteq RLayers /\ Stay \cup Gone = RLayers
  /\ Stay \cap Gone = {} /\ (Enters => lease.layer \notin Stay) /\ (~Enters => Gone = {})
<1>1. Enters => Stay \subseteq RLayers \ {lease.layer}
  BY DEF Stay, Survivors, Newer
<1> QED BY <1>1 DEF Stay, Gone

\* What the store holds afterwards.
LEMMA StoreAfter ==
  ASSUME RetainInv, lease.layer \in RLayers,
         store' = [m \in RLayers |->
              IF Enters /\ m = lease.layer THEN [entries |-> NewEntries, seq |-> rst.n]
              ELSE IF m \in Gone THEN [entries |-> {}, seq |-> 0] ELSE store[m]]
  PROVE  /\ store' \in [RLayers -> [entries : SUBSET Entries, seq : Nat]]
         /\ \A m \in RLayers :
              \/ Enters /\ m = lease.layer /\ store'[m].entries = NewEntries
              \/ m \in Gone /\ store'[m].entries = {}
              \/ m \in Stay /\ store'[m] = store[m]
         /\ \A m \in Stay : store'[m] = store[m]
         /\ Enters => store'[lease.layer].entries = NewEntries
<1>1. NewEntries \subseteq Entries
  BY EntriesAre
<1>2. rst.n \in Nat /\ store \in [RLayers -> [entries : SUBSET Entries, seq : Nat]]
  BY DEF RetainInv, RTyped
<1>3. ASSUME NEW m \in RLayers
      PROVE  /\ store'[m] \in [entries : SUBSET Entries, seq : Nat]
             /\ \/ Enters /\ m = lease.layer /\ store'[m].entries = NewEntries
                \/ m \in Gone /\ store'[m].entries = {}
                \/ m \in Stay /\ store'[m] = store[m]
  <2>1. CASE Enters /\ m = lease.layer
    <3>1. store'[m] = [entries |-> NewEntries, seq |-> rst.n]
      BY <2>1
    <3> QED BY <1>1, <1>2, <2>1, <3>1
  <2>2. CASE ~(Enters /\ m = lease.layer) /\ m \in Gone
    <3>1. store'[m] = [entries |-> {}, seq |-> 0]
      BY <2>2
    <3> QED BY <2>2, <3>1
  <2>3. CASE ~(Enters /\ m = lease.layer) /\ m \notin Gone
    <3>1. store'[m] = store[m] /\ m \in Stay
      BY <2>3, StayAndGone
    <3> QED BY <1>2, <3>1
  <2> QED BY <2>1, <2>2, <2>3
<1>4. ASSUME NEW m \in Stay PROVE store'[m] = store[m]
  BY StayAndGone
<1>5. Enters => store'[lease.layer].entries = NewEntries
  BY <1>3, StayAndGone
<1>6. store' \in [RLayers -> [entries : SUBSET Entries, seq : Nat]]
  <2>1. \A m \in RLayers : store'[m] \in [entries : SUBSET Entries, seq : Nat]
    BY <1>3
  <2>2. DOMAIN store' = RLayers /\ store' = [m \in DOMAIN store' |-> store'[m]]
    OBVIOUS
  <2> QED BY <2>1, <2>2
<1> QED BY <1>3, <1>4, <1>5, <1>6

\* What is buried with the tile: the memory that is let go goes to the pool or
\* to the graveyard, and what leaves the graveyard is no longer named.
Buried(donated) ==
  /\ donated \subseteq Out \ StillHeld /\ pool' = pool \cup donated
  /\ grave' \in [pending : SUBSET Allocs, blobs : SUBSET (Allocs \X Nat)]
  /\ grave'.pending \subseteq grave.pending \cup (Out \ donated)
  /\ \A b \in grave'.pending : Surface(b) \subseteq grave'.blobs
  /\ wrapped' \subseteq wrapped
  /\ rst.metal => \A v \in wrapped' :
       v[1] \in grave.pending \cup (Out \ donated) => v[1] \in grave'.pending

LEMMA Burial ==
  ASSUME RetainInv, NEW donated, NEW dropOk \in BOOLEAN, NEW flushOk \in BOOLEAN,
         Bury(Out, StillHeld, donated, dropOk, flushOk), Out \subseteq Allocs, rst.pc = "retain"
  PROVE  Buried(donated)
<1> DEFINE left == Out \ donated
           pending == grave.pending \cup left
           blobs == grave.blobs \cup UNION {Surface(b) : b \in left}
           full == Cardinality(pending) >= FlushThreshold
           released == rst.metal /\ full /\ (dropOk \/ flushOk)
<1>1. RTyped /\ Wrapped
  BY DEF RetainInv
<1>2. /\ donated \subseteq SoleOwner(Out, StillHeld) /\ pool' = pool \cup donated
      /\ wrapped' = IF ~rst.metal \/ ~full \/ Out = {} THEN wrapped
                    ELSE IF dropOk THEN wrapped \ blobs
                    ELSE IF flushOk THEN {} ELSE wrapped
      /\ grave' = IF ~rst.metal \/ Out = {} THEN grave
                  ELSE IF released THEN [pending |-> {}, blobs |-> {}]
                  ELSE [pending |-> pending, blobs |-> blobs]
  BY DEF Bury
<1>3. grave \in [pending : SUBSET Allocs, blobs : SUBSET (Allocs \X Nat)]
      /\ env \in [Allocs -> Nat] /\ wrapped \subseteq Allocs \X Nat
  BY <1>1 DEF RTyped
<1>4. \A b \in Allocs : Surface(b) \subseteq Allocs \X Nat
  BY <1>3 DEF Surface
<1>5. \A b \in grave.pending : Surface(b) \subseteq grave.blobs
  BY <1>1 DEF Wrapped
<1>6. /\ pending \subseteq Allocs /\ blobs \subseteq Allocs \X Nat
      /\ \A b \in pending : Surface(b) \subseteq blobs
  BY <1>3, <1>4, <1>5
<1>7. ASSUME NEW v \in wrapped, v[1] \in pending PROVE v \in blobs
  <2>1. v = <<v[1], v[2]>> /\ v[2] \in 1..env[v[1]]
    BY <1>1, <1>3 DEF Wrapped
  <2>2. v \in Surface(v[1])
    BY <2>1 DEF Surface
  <2> QED BY <1>6, <1>7, <2>2
<1> HIDE DEF pending, blobs, full
<1>8. CASE ~rst.metal \/ Out = {}
  <2>1. wrapped' = wrapped /\ grave' = grave
    BY <1>2, <1>8
  <2>2. rst.metal => left = {}
    BY <1>8
  <2> QED BY <1>2, <1>3, <1>5, <2>1, <2>2 DEF SoleOwner, Buried
<1>9. CASE rst.metal /\ Out # {} /\ ~released
  <2>1. grave' = [pending |-> pending, blobs |-> blobs] /\ wrapped' = wrapped
    BY <1>2, <1>9
  <2>2. grave'.pending = pending /\ grave'.blobs = blobs
        /\ grave' \in [pending : SUBSET Allocs, blobs : SUBSET (Allocs \X Nat)]
    BY <1>6, <2>1
  <2> QED BY <1>2, <1>6, <2>1, <2>2 DEF SoleOwner, pending, Buried
<1>10. CASE rst.metal /\ Out # {} /\ released
  <2>1. grave' = [pending |-> {}, blobs |-> {}] /\ (wrapped' = wrapped \ blobs \/ wrapped' = {})
    BY <1>2, <1>10
  <2>2. grave'.pending = {} /\ grave'.blobs = {}
        /\ grave' \in [pending : SUBSET Allocs, blobs : SUBSET (Allocs \X Nat)]
    BY <2>1
  <2>3. \A v \in wrapped' : v[1] \notin pending
    BY <1>7, <2>1
  <2>4. wrapped' \subseteq wrapped
    BY <2>1
  <2> QED BY <1>2, <2>2, <2>3, <2>4 DEF SoleOwner, pending, Buried
<1> QED BY <1>8, <1>9, <1>10

LEMMA RetainTileKeeps ==
  ASSUME Fits, RetainInv, NEW donated, NEW dropOk \in BOOLEAN, NEW flushOk \in BOOLEAN,
         RetainTile(donated, dropOk, flushOk)
  PROVE  RetainInv'
<1>1. RTyped /\ Tile /\ Sized /\ Owned /\ Wrapped
  BY DEF RetainInv
<1>2. /\ rst.pc = "retain" /\ lease' = NoLease /\ env' = env
      /\ Bury(Out, StillHeld, donated, dropOk, flushOk)
      /\ arena' = [s \in ArenaSlots |->
              [buf |-> IF s \in Detached THEN NoBuf ELSE arena[s].buf, use |-> FALSE]]
      /\ rst' = [rst EXCEPT !.pc = "idle", !.bad = BadAfter(<<dropOk, flushOk>>)]
  <2>1. Replaces(donated, dropOk, flushOk)
    BY RetainTileParts
  <2> QED BY <2>1 DEF Replaces
<1>3. /\ rst'.pc = "idle" /\ rst'.metal = rst.metal
      /\ rst' \in [pc : RPhases, n : Nat, bad : Nat, metal : BOOLEAN]
  <2>1. PICK m : m = BadAfter(<<dropOk, flushOk>>)
    OBVIOUS
  <2>2. m \in Nat
    BY <1>1, <2>1, TwoFaults
  <2>3. rst' = [rst EXCEPT !.pc = "idle", !.bad = m]
    BY <1>2, <2>1
  <2> QED BY <1>1, <2>2, <2>3 DEF RTyped, RPhases
<1>4. lease.layer \in RLayers
  BY <1>1, <1>2 DEF Tile
<1>5. /\ store' \in [RLayers -> [entries : SUBSET Entries, seq : Nat]]
      /\ \A m \in RLayers :
           \/ Enters /\ m = lease.layer /\ store'[m].entries = NewEntries
           \/ m \in Gone /\ store'[m].entries = {}
           \/ m \in Stay /\ store'[m] = store[m]
      /\ \A m \in Stay : store'[m] = store[m]
      /\ Enters => store'[lease.layer].entries = NewEntries
  BY <1>4, RetainTileParts, StoreAfter DEF Replaces
<1>6. Stay \subseteq RLayers /\ Gone \subseteq RLayers /\ Stay \cup Gone = RLayers
  BY StayAndGone
<1>7. Out \subseteq RetainedAllocs /\ RetainedAllocs \subseteq Allocs
  <2>1. ASSUME NEW l \in RLayers, NEW e \in store[l].entries PROVE e.buf \in Allocs
    BY <1>1 DEF RTyped, Entries
  <2> QED BY <1>6, <2>1 DEF Out, RetainedAllocs, InEntries
<1>8. /\ donated \subseteq Out \ StillHeld /\ pool' = pool \cup donated
      /\ grave' \in [pending : SUBSET Allocs, blobs : SUBSET (Allocs \X Nat)]
      /\ grave'.pending \subseteq grave.pending \cup (Out \ donated)
      /\ \A b \in grave'.pending : Surface(b) \subseteq grave'.blobs
      /\ wrapped' \subseteq wrapped
      /\ rst.metal => \A v \in wrapped' :
           v[1] \in grave.pending \cup (Out \ donated) => v[1] \in grave'.pending
  <2>1. Out \subseteq Allocs
    BY <1>7
  <2>2. Bury(Out, StillHeld, donated, dropOk, flushOk) /\ rst.pc = "retain"
    BY <1>2
  <2>3. Buried(donated)
    BY <2>1, <2>2, Burial
  <2> QED BY <2>3 DEF Buried
<1>9. arena' \in [ArenaSlots -> Slabs]
      /\ \A s \in ArenaSlots : arena'[s].buf = IF s \in Detached THEN NoBuf ELSE arena[s].buf
  BY <1>1, <1>2 DEF RTyped, Slabs
\* A slot is detached only when what it held is entered.
<1>10. ASSUME NEW s \in Detached
       PROVE  Enters /\ \E i \in Batches : s = lease.got[i].slot /\ arena[s].buf = lease.got[i].buf
  <2>1. PICK i \in Batches : s = lease.got[i].slot /\ InSet(lease.layer)
    BY DEF Detached
  <2>2. NewEntries # {}
    BY <1>1, BatchesAreEntered DEF InEntries
  <2>3. arena[s].buf = lease.got[i].buf
    BY <1>1, <2>1 DEF Tile, OneSlotEach, Batches
  <2> QED BY <1>1, <2>1, <2>2, <2>3, EntriesFit DEF Enters
<1>11. ASSUME NEW s \in Detached PROVE arena[s].buf \in RetainedAllocs'
  <2>1. PICK i \in Batches : arena[s].buf = lease.got[i].buf
    BY <1>10
  <2>2. Enters /\ lease.got[i].buf \in InEntries(NewEntries)
    BY <1>1, <1>10, BatchesAreEntered
  <2> QED BY <1>4, <1>5, <2>1, <2>2 DEF RetainedAllocs, InEntries
\* What is retained now was retained before, or was detached.
<1>12. ASSUME NEW b \in RetainedAllocs'
       PROVE  b \in StillHeld /\ (b \in RetainedAllocs \/ \E s \in Detached : b = arena[s].buf)
  <2>1. PICK m \in RLayers : b \in InEntries(store'[m].entries)
    BY DEF RetainedAllocs, InEntries
  <2>2. CASE m \in Stay /\ store'[m] = store[m]
    <3>1. b \in InEntries(store[m].entries)
      BY <2>1, <2>2
    <3> QED BY <2>2, <3>1 DEF StillHeld, RetainedAllocs
  <2>3. CASE Enters /\ store'[m].entries = NewEntries
    <3>1. PICK e \in NewEntries : b = e.buf
      BY <2>1, <2>3 DEF InEntries
    <3>2. b \in StillHeld
      BY <3>1 DEF StillHeld, InEntries
    <3>3. CASE e \in lease.kept
      BY <1>1, <3>1, <3>2, <3>3, LeaseIsHeld DEF InEntries
    <3>4. CASE \E i \in Batches : e.buf = lease.got[i].buf
      <4>1. PICK i \in Batches : e.buf = lease.got[i].buf
        BY <3>4
      <4>2. lease.got[i].slot \in Detached /\ arena[lease.got[i].slot].buf = lease.got[i].buf
        BY <1>1, <2>3 DEF Detached, Enters, Tile, OneSlotEach, Batches
      <4> QED BY <3>1, <3>2, <4>1, <4>2
    <3> QED BY <3>3, <3>4, EntriesAre
  <2>4. CASE store'[m].entries = {}
    BY <2>1, <2>4 DEF InEntries
  <2> QED BY <1>5, <2>2, <2>3, <2>4
<1>13. RTyped'
  <2>1. wrapped' \subseteq Allocs \X Nat
    BY <1>1, <1>8 DEF RTyped
  <2>2. pool' \subseteq Allocs /\ env' \in [Allocs -> Nat]
    BY <1>1, <1>2, <1>7, <1>8 DEF RTyped
  <2> QED BY <1>2, <1>3, <1>5, <1>8, <1>9, <2>1, <2>2, NothingInHand DEF RTyped
<1>14. Tile'
  <2>1. ASSUME NEW l \in RLayers, NEW e \in store'[l].entries, NEW f \in store'[l].entries,
               e.expert = f.expert
        PROVE  e = f
    <3>1. CASE store'[l].entries = NewEntries
      BY <1>1, <2>1, <3>1, EntriesDiffer
    <3>2. CASE store'[l] = store[l]
      BY <1>1, <2>1, <3>2 DEF Tile
    <3>3. CASE store'[l].entries = {}
      BY <3>3
    <3> QED BY <1>5, <3>1, <3>2, <3>3
  <2> QED BY <1>2, <1>3, <2>1, EmptyTile
<1>15. Sized'
  <2>1. ASSUME NEW l \in RLayers, NEW e \in store'[l].entries PROVE e.k <= env[e.buf]
    BY <1>1, <1>5, EntriesAre DEF Sized, InBounds
  <2> QED BY <1>2, <2>1, NothingInHand DEF Sized, InBounds
<1>16. Owned'
  <2>1. \A s, t \in ArenaSlots : arena'[s].buf = arena'[t].buf => s = t \/ arena'[s].buf = NoBuf
    BY <1>1, <1>9 DEF Owned
  <2>2. NoBuf \notin Allocs /\ RetainedAllocs' \subseteq Allocs /\ grave'.pending \subseteq Allocs
        /\ pool' \subseteq Allocs
    <3>1. \A m \in RLayers : \A e \in store'[m].entries : e.buf \in Allocs
      BY <1>5 DEF Entries
    <3>2. RetainedAllocs' \subseteq Allocs
      BY <3>1 DEF RetainedAllocs, InEntries
    <3> QED BY <1>13, <3>2, RetainAssumption DEF RTyped
  <2>3. ASSUME NEW s \in ArenaSlots
        PROVE  arena'[s].buf \notin RetainedAllocs' \cup grave'.pending \cup pool'
    <3>1. CASE arena'[s].buf = NoBuf
      BY <2>2, <3>1
    <3>2. CASE arena'[s].buf # NoBuf
      <4>1. arena'[s].buf = arena[s].buf /\ s \notin Detached
        BY <1>9, <3>2
      <4>2. arena[s].buf \notin RetainedAllocs \cup grave.pending \cup pool
        BY <1>1 DEF Owned
      <4>3. \A t \in Detached : t \in ArenaSlots
        BY <1>1, GotIsTyped DEF Detached, Batches
      <4>4. \A t \in Detached : arena[s].buf # arena[t].buf
        BY <1>1, <3>2, <4>1, <4>3 DEF Owned
      <4> QED BY <1>7, <1>8, <1>12, <4>1, <4>2, <4>4
    <3> QED BY <3>1, <3>2
  <2>4. ASSUME NEW b \in pool' PROVE b \notin RetainedAllocs' \cup grave'.pending
    <3>1. CASE b \in donated
      <4>1. b \in Out /\ b \notin StillHeld /\ b \notin grave.pending
        BY <1>8, <3>1 DEF StillHeld
      <4> QED BY <1>8, <1>12, <3>1, <4>1
    <3>2. CASE b \in pool
      <4>1. b \notin RetainedAllocs /\ b \notin grave.pending
        BY <1>1, <3>2 DEF Owned
      <4>2. \A t \in Detached : t \in ArenaSlots
        BY <1>1, GotIsTyped DEF Detached, Batches
      <4>3. \A t \in Detached : b # arena[t].buf
        BY <1>1, <3>2, <4>2 DEF Owned
      <4> QED BY <1>7, <1>8, <1>12, <4>1, <4>3
    <3> QED BY <1>8, <3>1, <3>2
  <2> QED BY <2>1, <2>3, <2>4 DEF Owned
<1>17. ASSUME NEW v \in wrapped', rst.metal PROVE v[1] \in Alive'
  <2>1. v[1] \in Alive
    BY <1>1, <1>8 DEF Wrapped
  <2>2. v[1] \in (({arena[s].buf : s \in ArenaSlots} \ {NoBuf}) \cup RetainedAllocs
                  \cup grave.pending \cup pool)
    BY <1>1, <2>1, LeaseIsHeld DEF Alive
  <2>3. RetainedAllocs' \cup grave'.pending \cup pool' \subseteq Alive'
    BY DEF Alive
  <2>4. CASE v[1] \in {arena[s].buf : s \in ArenaSlots} \ {NoBuf}
    <3>1. PICK s \in ArenaSlots : v[1] = arena[s].buf /\ arena[s].buf # NoBuf
      BY <2>4
    <3>2. CASE s \in Detached
      BY <1>11, <2>3, <3>1, <3>2
    <3>3. CASE s \notin Detached
      <4>1. arena'[s].buf = v[1]
        BY <1>9, <3>1, <3>3
      <4> QED BY <3>1, <4>1 DEF Alive
    <3> QED BY <3>2, <3>3
  <2>5. CASE v[1] \in pool
    BY <1>8, <2>3, <2>5
  <2>6. CASE v[1] \in grave.pending
    BY <1>8, <1>17, <2>3, <2>6
  <2>7. CASE v[1] \in RetainedAllocs
    <3>1. PICK m \in RLayers : v[1] \in InEntries(store[m].entries)
      BY <2>7 DEF RetainedAllocs
    <3>2. CASE m \in Stay
      BY <1>5, <2>3, <3>1, <3>2 DEF RetainedAllocs, InEntries
    <3>3. CASE m \in Gone
      <4>1. v[1] \in Out
        BY <3>1, <3>3 DEF Out
      <4> QED BY <1>8, <1>17, <2>3, <4>1
    <3> QED BY <1>6, <3>1, <3>2, <3>3
  <2> QED BY <2>2, <2>4, <2>5, <2>6, <2>7
<1>18. Wrapped'
  <2>1. ASSUME NEW v \in wrapped' PROVE v[1] \in Alive' /\ v[2] \in 1..env'[v[1]]
    BY <1>1, <1>2, <1>8, <1>17 DEF Wrapped
  <2>2. ~rst'.metal => wrapped' = {}
    BY <1>1, <1>3, <1>8 DEF Wrapped
  <2>3. \A b \in grave'.pending : Surface(b)' \subseteq grave'.blobs
    BY <1>2, <1>8 DEF Surface
  <2> QED BY <2>1, <2>2, <2>3 DEF Wrapped
<1> QED BY <1>13, <1>14, <1>15, <1>16, <1>18 DEF RetainInv

-----------------------------------------------------------------------------
(* The theorems.                                                             *)

LEMMA RStutterKeeps == ASSUME RetainInv, UNCHANGED rvars PROVE RetainInv'
<1>1. UNCHANGED <<arena, lease, store, grave, pool, env, wrapped, rst>>
  BY DEF rvars
<1>2. RTyped' /\ Sized'
  BY <1>1 DEF RetainInv, RTyped, Sized, InBounds
<1>6. Tile'
  BY <1>1 DEF RetainInv, Tile, RoutedOnce, Routed, OneSlotEach, InSet
<1>3. RetainedAllocs' = RetainedAllocs
  BY <1>1 DEF RetainedAllocs
<1>4. Alive' = Alive
  BY <1>1, <1>3 DEF Alive
<1>5. Owned' /\ Wrapped'
  BY <1>1, <1>3, <1>4 DEF RetainInv, Owned, Wrapped, Surface
<1> QED BY <1>2, <1>5, <1>6 DEF RetainInv

LEMMA RNextKeeps == ASSUME Fits, RetainInv, RNext PROVE RetainInv'
<1>1. CASE \E l \in RLayers, wanted \in SUBSET Experts : \E hits \in SUBSET wanted :
             /\ wanted # {} /\ Cardinality(wanted) <= TileWidth /\ Cardinality(hits) < TileWidth
             /\ BeginTile(l, wanted, hits)
  BY <1>1, BeginTileKeeps
<1>2. CASE \E ok \in BOOLEAN : Acquire(ok) \/ Finish(ok)
  BY <1>2, AcquireKeeps, ComputeKeeps
<1>3. CASE \E donated \in SUBSET RetainedAllocs, a, b \in BOOLEAN : RetainTile(donated, a, b)
  BY <1>3, RetainTileKeeps
<1>4. CASE Abandon
  BY <1>4, AbandonKeeps
<1>5. CASE \E a, b \in BOOLEAN : Teardown(a, b)
  BY <1>5, TeardownKeeps
<1> QED BY <1>1, <1>2, <1>3, <1>4, <1>5 DEF RNext

\* While a tile is no wider than the experts of one position, as it is without
\* K3_RETAIN_DRAFTED, the invariant of the retained memory holds throughout.
THEOREM RetainInvariance == ASSUME TileWidth <= TopK PROVE RSpec => []RetainInv
<1>1. RInit => RetainInv
  BY RInitHolds
<1>2. RetainInv /\ [RNext]_rvars => RetainInv'
  BY RNextKeeps, RStutterKeeps DEF Fits
<1> QED BY <1>1, <1>2, PTL DEF RSpec

\* ... and then the provider names only memory that someone holds, and memory in
\* the donation pool is nobody else's.
THEOREM RetainedMemoryIsHeld == ASSUME TileWidth <= TopK PROVE RSpec => []NoWrapperOutlivesItsMemory
<1>1. ASSUME RetainInv PROVE NoWrapperOutlivesItsMemory
  <2>1. RTyped /\ Tile /\ Owned /\ Wrapped
    BY <1>1 DEF RetainInv
  <2>2. WrappersAreOverLiveMemory
    BY <2>1 DEF Wrapped, WrappersAreOverLiveMemory
  <2>3. \A b \in pool : /\ b \notin RetainedAllocs /\ b \notin grave.pending
                         /\ b \notin {arena[s].buf : s \in ArenaSlots}
    BY <2>1 DEF Owned
  <2>4. DonationsAreUnshared
    BY <2>1, <2>3, LeaseIsHeld DEF DonationsAreUnshared
  <2> QED BY <2>2, <2>4 DEF NoWrapperOutlivesItsMemory
<1> QED BY <1>1, RetainInvariance, PTL

-----------------------------------------------------------------------------
(* Provider handles: the inductive invariant.                                *)

Entry == [live : Nat, owned : Nat, stranded : Nat]
Version == [prov : Nat, wrap : Nat, poisoned : BOOLEAN]

\* Every living handle is owned or known to be lost.
Accounted(e) == e \in Entry /\ e.live = e.owned + e.stranded

\* One ticket of a kind at a time, prepared from the version the wrapper knows;
\* and each KDA or MLA ticket still owns the output of its decode, so that
\* giving that up cannot take somebody else's tensor.
HandlesInv ==
  /\ h \in [Kinds -> Entry] /\ ver \in [Caches -> Version]
  /\ \A k \in Kinds : Accounted(h[k])
  /\ \A c \in Caches : h[TicketOf[c]].owned <= 1
  /\ h["tensor"].owned >= h["kda_ticket"].owned + h["mla_ticket"].owned
  /\ TicketsSeeTheirCache

LEMMA KindsAre ==
  /\ Kinds = {"cache", "kda", "mla", "layer", "kda_ticket",
               "mla_ticket", "tensor", "position", "branch"}
  /\ TicketOf["cache"] = "layer" /\ TicketOf["kda"] = "kda_ticket" /\ TicketOf["mla"] = "mla_ticket"
BY DEF Kinds, Caches, TicketOf

\* What a call or a release does to one kind's entry.
LEMMA BornAccounted ==
  ASSUME NEW e, Accounted(e), NEW o, NEW named, NEW r
  PROVE  /\ Accounted(Born(e, o, named, r))
         /\ Born(e, o, named, r).owned = IF o = "ok" THEN e.owned + 1 ELSE e.owned
<1> DEFINE B == Born(e, o, named, r)
<1>0. e \in Entry /\ e.live = e.owned + e.stranded /\ e.live \in Nat /\ e.owned \in Nat
      /\ e.stranded \in Nat
  BY DEF Accounted, Entry
<1>1. \/ o # "ok" /\ B = e
      \/ o = "ok" /\ B = [e EXCEPT !.live = e.live + 1, !.owned = e.owned + 1]
      \/ o # "ok" /\ B = [e EXCEPT !.live = e.live + 1, !.stranded = e.stranded + 1]
  BY DEF Born
<1>2. \/ o # "ok" /\ B = e
      \/ o = "ok" /\ B = [live |-> e.live + 1, owned |-> e.owned + 1, stranded |-> e.stranded]
      \/ o # "ok" /\ B = [live |-> e.live + 1, owned |-> e.owned, stranded |-> e.stranded + 1]
  BY <1>0, <1>1 DEF Entry
<1> HIDE DEF B
<1>3. B \in Entry /\ B.live = B.owned + B.stranded
      /\ B.owned = IF o = "ok" THEN e.owned + 1 ELSE e.owned
  BY <1>0, <1>2 DEF Entry
<1> QED BY <1>3 DEF B, Accounted

LEMMA FreedAccounted ==
  ASSUME NEW e, Accounted(e), e.owned > 0, NEW r
  PROVE  Accounted(Freed(e, r)) /\ Freed(e, r).owned = e.owned - 1
<1> DEFINE F == Freed(e, r)
<1>0. e \in Entry /\ e.live = e.owned + e.stranded /\ e.live \in Nat /\ e.owned \in Nat
      /\ e.stranded \in Nat /\ e.owned - 1 \in Nat /\ e.live - 1 \in Nat
  BY DEF Accounted, Entry
<1> DEFINE l == IF r = "ok" THEN e.live - 1 ELSE e.live
           s == IF r = "ok" THEN e.stranded ELSE e.stranded + 1
<1>1. F = [e EXCEPT !.owned = e.owned - 1, !.live = l, !.stranded = s]
  <2>1. CASE r = "ok"
    BY <2>1 DEF Freed
  <2>2. CASE r # "ok"
    BY <2>2 DEF Freed
  <2> QED BY <2>1, <2>2
<1>2. l \in Nat /\ s \in Nat /\ l = (e.owned - 1) + s
  <2>1. CASE r = "ok"
    BY <1>0, <2>1
  <2>2. CASE r # "ok"
    BY <1>0, <2>2
  <2> QED BY <2>1, <2>2
<1> HIDE DEF F, l, s
<1>3. F \in Entry /\ F.owned = e.owned - 1 /\ F.live = l /\ F.stranded = s
  BY <1>0, <1>1, <1>2 DEF Entry
<1> QED BY <1>2, <1>3 DEF F, Accounted

\* A step keeps the invariant when it accounts for every entry, keeps the outputs
\* owned, and each kind's ticket is gone, is made from a version both sides
\* agree on, or was there before.
LEMMA HandlesKept ==
  ASSUME HandlesInv, h' \in [Kinds -> Entry], ver' \in [Caches -> Version],
         \A k \in Kinds : Accounted(h'[k]),
         h'["tensor"].owned >= h'["kda_ticket"].owned + h'["mla_ticket"].owned,
         \A c \in Caches :
           \/ h'[TicketOf[c]].owned = 0
           \/ h'[TicketOf[c]].owned = 1 /\ ver'[c].prov = ver'[c].wrap
           \/ h'[TicketOf[c]].owned <= h[TicketOf[c]].owned /\ ver'[c] = ver[c]
  PROVE  HandlesInv'
<1>1. ASSUME NEW c \in Caches
      PROVE  /\ h'[TicketOf[c]].owned <= 1
             /\ h'[TicketOf[c]].owned > 0 => ver'[c].prov = ver'[c].wrap
  <2>1. TicketOf[c] \in Kinds
    BY DEF Kinds
  <2>2. h[TicketOf[c]].owned \in Nat /\ h'[TicketOf[c]].owned \in Nat
    BY <2>1 DEF HandlesInv, Entry
  <2>3. /\ h[TicketOf[c]].owned <= 1
        /\ h[TicketOf[c]].owned > 0 => ver[c].prov = ver[c].wrap
    BY DEF HandlesInv, TicketsSeeTheirCache, Has
  <2> QED BY <2>2, <2>3
<1>2. TicketsSeeTheirCache'
  BY <1>1 DEF TicketsSeeTheirCache, Has
<1> QED BY <1>1, <1>2 DEF HandlesInv

\* A step on one kind that is no ticket and does not take a tensor away.
LEMMA OneEntry ==
  ASSUME HandlesInv, NEW k \in Kinds, NEW e, Accounted(e), h' = [h EXCEPT ![k] = e],
         k \in {"kda_ticket", "mla_ticket", "layer"} => e.owned <= h[k].owned,
         k = "tensor" => e.owned >= h[k].owned \/ ~Busy("tensor"),
         ver' \in [Caches -> Version],
         \A c \in Caches : ver'[c] = ver[c] \/ ver'[c].prov = ver'[c].wrap
  PROVE  HandlesInv'
<1>1. e \in Entry /\ h \in [Kinds -> Entry]
  BY DEF Accounted, HandlesInv
<1>2. h' \in [Kinds -> Entry] /\ h'[k] = e /\ \A j \in Kinds : j # k => h'[j] = h[j]
  BY <1>1
<1>3. \A j \in Kinds : Accounted(h'[j])
  BY <1>2 DEF HandlesInv
<1>4. \A j \in Kinds : h[j].owned \in Nat /\ h'[j].owned \in Nat
  BY <1>1, <1>2 DEF Entry
<1>5. h["tensor"].owned >= h["kda_ticket"].owned + h["mla_ticket"].owned
  BY DEF HandlesInv
<1>6. ~Busy("tensor") => h["kda_ticket"].owned = 0 /\ h["mla_ticket"].owned = 0
  BY <1>4, KindsAre DEF Busy, Has
<1>7. h'["tensor"].owned >= h'["kda_ticket"].owned + h'["mla_ticket"].owned
  <2>1. CASE k = "tensor"
    <3>1. h'["tensor"] = e /\ h'["kda_ticket"] = h["kda_ticket"]
          /\ h'["mla_ticket"] = h["mla_ticket"]
      BY <1>2, <2>1, KindsAre
    <3> QED BY <2>1, <3>1, <1>2, <1>4, <1>5, <1>6, KindsAre
  <2>2. CASE k # "tensor"
    <3>1. /\ h'["tensor"] = h["tensor"]
          /\ h'["kda_ticket"].owned <= h["kda_ticket"].owned
          /\ h'["mla_ticket"].owned <= h["mla_ticket"].owned
      BY <1>2, <1>4, <2>2, KindsAre
    <3> QED BY <3>1, <1>4, <1>5, KindsAre
  <2> QED BY <2>1, <2>2
<1>8. ASSUME NEW c \in Caches
      PROVE  \/ h'[TicketOf[c]].owned = 0
             \/ h'[TicketOf[c]].owned = 1 /\ ver'[c].prov = ver'[c].wrap
             \/ h'[TicketOf[c]].owned <= h[TicketOf[c]].owned /\ ver'[c] = ver[c]
  <2>1. TicketOf[c] \in Kinds /\ TicketOf[c] \in {"kda_ticket", "mla_ticket", "layer"}
    BY KindsAre DEF Caches
  <2>2. h'[TicketOf[c]].owned <= h[TicketOf[c]].owned
    BY <2>1, <1>2, <1>4
  <2>3. h[TicketOf[c]].owned <= 1
    BY DEF HandlesInv
  <2> QED BY <2>1, <2>2, <2>3, <1>4
<1> QED BY <1>2, <1>3, <1>7, <1>8, HandlesKept

\* A step on a ticket of cache c and the tensors that takes or gives both.
LEMMA TicketAndOutput ==
  ASSUME HandlesInv, NEW c \in Caches, NEW e, NEW t, Accounted(e), Accounted(t),
         h' = [h EXCEPT ![TicketOf[c]] = e, !["tensor"] = t],
         e.owned <= 1,
         \/ e.owned = h[TicketOf[c]].owned /\ t.owned >= h["tensor"].owned
         \/ /\ e.owned = h[TicketOf[c]].owned + 1 /\ t.owned >= h["tensor"].owned
            /\ c # "cache" => t.owned >= h["tensor"].owned + 1
         \/ e.owned = h[TicketOf[c]].owned - 1
              /\ (t.owned >= h["tensor"].owned \/ (c # "cache" /\ t.owned = h["tensor"].owned - 1)),
         ver' \in [Caches -> Version], \A d \in Caches \ {c} : ver'[d] = ver[d],
         \/ e.owned = 0
         \/ e.owned = 1 /\ ver'[c].prov = ver'[c].wrap
         \/ e.owned <= h[TicketOf[c]].owned /\ ver'[c] = ver[c]
  PROVE  HandlesInv'
<1> DEFINE k == TicketOf[c]
<1>1. e \in Entry /\ t \in Entry /\ h \in [Kinds -> Entry]
  BY DEF Accounted, HandlesInv
<1>2. k \in {"layer", "kda_ticket", "mla_ticket"} /\ k # "tensor" /\ (c # "cache" <=> k # "layer")
  BY KindsAre DEF Caches
<1>3. k \in Kinds /\ "tensor" \in Kinds
  BY <1>2, KindsAre
<1>4. \A d \in Caches : TicketOf[d] # "tensor" /\ TicketOf[d] \in Kinds
                   /\ (d # c => TicketOf[d] # k)
  BY KindsAre DEF Caches
<1> HIDE DEF k
<1>h. h' = [h EXCEPT ![k] = e, !["tensor"] = t]
  BY DEF k
<1>5. /\ h' \in [Kinds -> Entry] /\ h'[k] = e /\ h'["tensor"] = t
      /\ \A j \in Kinds : j # k /\ j # "tensor" => h'[j] = h[j]
  BY <1>1, <1>2, <1>3, <1>h
<1>6. \A j \in Kinds : Accounted(h'[j])
  BY <1>5 DEF HandlesInv
<1>7. \A j \in Kinds : h[j].owned \in Nat /\ h'[j].owned \in Nat
  BY <1>1, <1>5 DEF Entry
<1>8. h["tensor"].owned >= h["kda_ticket"].owned + h["mla_ticket"].owned
  BY DEF HandlesInv
<1>9. \/ e.owned = h[k].owned /\ t.owned >= h["tensor"].owned
      \/ /\ e.owned = h[k].owned + 1 /\ t.owned >= h["tensor"].owned
         /\ c # "cache" => t.owned >= h["tensor"].owned + 1
      \/ e.owned = h[k].owned - 1
           /\ (t.owned >= h["tensor"].owned \/ (c # "cache" /\ t.owned = h["tensor"].owned - 1))
  BY DEF k
<1>10. h'["tensor"].owned >= h'["kda_ticket"].owned + h'["mla_ticket"].owned
  <2>1. CASE k = "layer"
    <3>1. /\ h'["kda_ticket"] = h["kda_ticket"] /\ h'["mla_ticket"] = h["mla_ticket"]
          /\ t.owned >= h["tensor"].owned
      BY <1>2, <1>5, <1>9, <2>1, KindsAre
    <3> QED BY <3>1, <1>3, <1>5, <1>7, <1>8, KindsAre
  <2>2. CASE k = "kda_ticket"
    <3>1. h'["kda_ticket"] = e /\ h'["mla_ticket"] = h["mla_ticket"] /\ c # "cache"
      BY <1>2, <1>5, <2>2, KindsAre
    <3> QED BY <3>1, <2>2, <1>5, <1>7, <1>8, <1>9, KindsAre
  <2>3. CASE k = "mla_ticket"
    <3>1. h'["mla_ticket"] = e /\ h'["kda_ticket"] = h["kda_ticket"] /\ c # "cache"
      BY <1>2, <1>5, <2>3, KindsAre
    <3> QED BY <3>1, <2>3, <1>5, <1>7, <1>8, <1>9, KindsAre
  <2> QED BY <1>2, <2>1, <2>2, <2>3
<1>11. ASSUME NEW d \in Caches
       PROVE  \/ h'[TicketOf[d]].owned = 0
              \/ h'[TicketOf[d]].owned = 1 /\ ver'[d].prov = ver'[d].wrap
              \/ h'[TicketOf[d]].owned <= h[TicketOf[d]].owned /\ ver'[d] = ver[d]
  <2>1. CASE d = c
    BY <2>1, <1>5 DEF k
  <2>2. CASE d # c
    <3>1. h'[TicketOf[d]] = h[TicketOf[d]] /\ TicketOf[d] \in Kinds
      BY <2>2, <1>4, <1>5
    <3> QED BY <2>2, <3>1, <1>7
  <2> QED BY <2>1, <2>2
<1> QED BY <1>5, <1>6, <1>10, <1>11, HandlesKept

LEMMA HandlesStart == PInit => HandlesInv
<1> SUFFICES ASSUME PInit PROVE HandlesInv
  OBVIOUS
<1>1. /\ h = [k \in Kinds |-> [live |-> 0, owned |-> 0, stranded |-> 0]]
      /\ ver = [c \in Caches |-> [prov |-> 0, wrap |-> 0, poisoned |-> FALSE]]
  BY DEF PInit
<1>2. h \in [Kinds -> Entry] /\ ver \in [Caches -> Version]
  BY <1>1 DEF Entry, Version
<1>3. \A k \in Kinds : h[k].owned = 0 /\ h[k].live = 0 /\ h[k].stranded = 0
  BY <1>1
<1>4. \A c \in Caches : TicketOf[c] \in Kinds
  BY DEF Kinds
<1> QED
  BY <1>2, <1>3, <1>4, KindsAre DEF HandlesInv, Accounted, TicketsSeeTheirCache, Has

\* Facts of a state of the invariant that the actions use.
LEMMA HandleFacts ==
  ASSUME HandlesInv
  PROVE  /\ \A k \in Kinds : Accounted(h[k]) /\ h[k].owned \in Nat
         /\ \A c \in Caches : TicketOf[c] \in Kinds /\ TicketOf[c] # "tensor"
                              /\ h[TicketOf[c]].owned <= 1
         /\ \A c \in Caches : c # "cache" => h["tensor"].owned >= h[TicketOf[c]].owned
         /\ ver \in [Caches -> Version] /\ h \in [Kinds -> Entry]
<1>1. \A k \in Kinds : Accounted(h[k]) /\ h[k].owned \in Nat
  BY DEF HandlesInv, Entry
<1>2. \A c \in Caches : TicketOf[c] \in Kinds /\ TicketOf[c] # "tensor" /\ h[TicketOf[c]].owned <= 1
  BY KindsAre DEF HandlesInv, Caches
<1>3. ASSUME NEW c \in Caches, c # "cache" PROVE h["tensor"].owned >= h[TicketOf[c]].owned
  <2>1. /\ h["tensor"].owned \in Nat /\ h["kda_ticket"].owned \in Nat
        /\ h["mla_ticket"].owned \in Nat
        /\ h["tensor"].owned >= h["kda_ticket"].owned + h["mla_ticket"].owned
    BY <1>1, KindsAre DEF HandlesInv
  <2>2. TicketOf[c] = "kda_ticket" \/ TicketOf[c] = "mla_ticket"
    BY <1>3, KindsAre DEF Caches
  <2> QED BY <2>1, <2>2
<1> QED BY <1>1, <1>2, <1>3 DEF HandlesInv

LEMMA UploadKeeps ==
  ASSUME HandlesInv, NEW o, NEW named, NEW r, Upload(o, named, r) PROVE HandlesInv'
<1> DEFINE e == Born(h["tensor"], o, named, r)
<1>1. h' = [h EXCEPT !["tensor"] = e] /\ ver' = ver
  BY DEF Upload
<1>2. "tensor" \in Kinds /\ Accounted(h["tensor"]) /\ h["tensor"].owned \in Nat
  BY HandleFacts, KindsAre
<1>3. Accounted(e) /\ e.owned >= h["tensor"].owned
  BY <1>2, BornAccounted
<1> HIDE DEF e
<1> QED BY <1>1, <1>2, <1>3, HandleFacts, OneEntry

LEMMA CreateKeeps ==
  ASSUME HandlesInv, NEW c \in Caches, NEW o, NEW named, NEW r, CreateCache(c, o, named, r)
  PROVE  HandlesInv'
<1> DEFINE e == Born(h[c], o, named, r)
<1>1. h' = [h EXCEPT ![c] = e]
  BY DEF CreateCache
<1>2. c \in Kinds /\ c \notin {"kda_ticket", "mla_ticket", "layer", "tensor"}
  BY KindsAre DEF Caches
<1>3. Accounted(e)
  BY <1>2, BornAccounted, HandleFacts
<1>4. \/ ver' = ver
      \/ ver' = [ver EXCEPT ![c] = [prov |-> 0, wrap |-> 0, poisoned |-> FALSE]]
  BY DEF CreateCache
<1>5. ver' \in [Caches -> Version]
      /\ \A d \in Caches : ver'[d] = ver[d] \/ ver'[d].prov = ver'[d].wrap
  <2>1. CASE ver' = ver
    BY <2>1, HandleFacts
  <2>2. CASE ver' = [ver EXCEPT ![c] = [prov |-> 0, wrap |-> 0, poisoned |-> FALSE]]
    <3>1. [prov |-> 0, wrap |-> 0, poisoned |-> FALSE] \in Version
      BY DEF Version
    <3>2. ver' \in [Caches -> Version]
      BY <2>2, <3>1, HandleFacts
    <3> QED BY <2>2, <3>2, HandleFacts
  <2> QED BY <1>4, <2>1, <2>2
<1> HIDE DEF e
<1> QED BY <1>1, <1>2, <1>3, <1>5, OneEntry

LEMMA DecodeKeeps ==
  ASSUME HandlesInv, NEW c \in Caches, NEW o, NEW named, NEW rt, NEW ro, Decode(c, o, named, rt, ro)
  PROVE  HandlesInv'
<1> DEFINE seen == IF o = "ok" /\ ver[c].prov # ver[c].wrap THEN "garbled" ELSE o
           e == Born(h[TicketOf[c]], seen, named, rt)
           t == Born(h["tensor"], seen, named, ro)
<1>1. ver' = ver /\ ~Has(TicketOf[c])
      /\ h' = [h EXCEPT ![TicketOf[c]] = e, !["tensor"] = t]
  BY HandleFacts DEF Decode
<1>2. /\ "tensor" \in Kinds /\ Accounted(h["tensor"]) /\ h["tensor"].owned \in Nat
      /\ TicketOf[c] \in Kinds /\ Accounted(h[TicketOf[c]]) /\ h[TicketOf[c]].owned = 0
  BY <1>1, HandleFacts, KindsAre DEF Has
<1>3. seen = "ok" => ver[c].prov = ver[c].wrap
  OBVIOUS
<1>4. /\ Accounted(e) /\ Accounted(t)
      /\ e.owned = IF seen = "ok" THEN 1 ELSE 0
      /\ t.owned = IF seen = "ok" THEN h["tensor"].owned + 1 ELSE h["tensor"].owned
  BY <1>2, BornAccounted
<1> HIDE DEF e, t, seen
<1>5. /\ e.owned <= 1
      /\ \/ e.owned = h[TicketOf[c]].owned /\ t.owned >= h["tensor"].owned
         \/ e.owned = h[TicketOf[c]].owned + 1 /\ t.owned >= h["tensor"].owned + 1
              /\ t.owned >= h["tensor"].owned
      /\ e.owned = 0 \/ (e.owned = 1 /\ ver'[c].prov = ver'[c].wrap)
  BY <1>1, <1>2, <1>3, <1>4
<1> QED BY <1>1, <1>4, <1>5, HandleFacts, TicketAndOutput

LEMMA TicketMadeKeeps ==
  ASSUME HandlesInv, NEW o, NEW named, NEW r, PrepareLayer(o, named, r) PROVE HandlesInv'
<1> DEFINE seen == ValidRoute(o)
           e == Born(h["layer"], seen, named, r)
           t == h["tensor"]
<1>1. ver' = ver /\ ~Has("layer") /\ h' = [h EXCEPT !["layer"] = e]
  BY DEF PrepareLayer
<1>2. /\ "tensor" \in Kinds /\ Accounted(t) /\ t.owned \in Nat
      /\ "cache" \in Caches /\ TicketOf["cache"] = "layer" /\ "layer" \in Kinds
      /\ Accounted(h["layer"]) /\ h["layer"].owned = 0
  BY <1>1, HandleFacts, KindsAre DEF Has, Caches
<1>3. seen = "ok" => ver["cache"].prov = ver["cache"].wrap
  BY DEF ValidRoute
<1>4. Accounted(e) /\ e.owned = IF seen = "ok" THEN 1 ELSE 0
  BY <1>2, BornAccounted
<1>5. h' = [h EXCEPT !["layer"] = e, !["tensor"] = t]
  BY <1>1, <1>2, HandleFacts
<1> HIDE DEF e, t, seen
<1>6. /\ e.owned <= 1 /\ t.owned = h["tensor"].owned /\ t.owned >= h["tensor"].owned
      /\ e.owned = h["layer"].owned \/ e.owned = h["layer"].owned + 1
      /\ e.owned = 0 \/ (e.owned = 1 /\ ver'["cache"].prov = ver'["cache"].wrap)
  BY <1>1, <1>2, <1>3, <1>4 DEF t
<1>7. PICK c \in Caches : c = "cache" /\ TicketOf[c] = "layer"
  BY <1>2
<1>8. \/ e.owned = h[TicketOf[c]].owned /\ t.owned >= h["tensor"].owned
      \/ /\ e.owned = h[TicketOf[c]].owned + 1 /\ t.owned >= h["tensor"].owned
         /\ c # "cache" => t.owned >= h["tensor"].owned + 1
  BY <1>6, <1>7
<1>9. /\ h' = [h EXCEPT ![TicketOf[c]] = e, !["tensor"] = t]
      /\ e.owned = 0 \/ (e.owned = 1 /\ ver'[c].prov = ver'[c].wrap)
      /\ ver' \in [Caches -> Version] /\ \A d \in Caches \ {c} : ver'[d] = ver[d]
  BY <1>1, <1>5, <1>6, <1>7, HandleFacts
<1> QED BY <1>2, <1>4, <1>6, <1>8, <1>9, TicketAndOutput

\* FinishLayer, the commits and the cancellations: the ticket goes.
LEMMA TicketGoes ==
  ASSUME HandlesInv, NEW c \in Caches, Has(TicketOf[c]), NEW r, NEW t, Accounted(t),
         h' = [h EXCEPT ![TicketOf[c]] = Freed(h[TicketOf[c]], r), !["tensor"] = t],
         t.owned >= h["tensor"].owned \/ (c # "cache" /\ t.owned = h["tensor"].owned - 1),
         ver' \in [Caches -> Version], \A d \in Caches \ {c} : ver'[d] = ver[d]
  PROVE  HandlesInv'
<1> DEFINE e == Freed(h[TicketOf[c]], r)
<1>1. /\ TicketOf[c] \in Kinds /\ Accounted(h[TicketOf[c]]) /\ h[TicketOf[c]].owned = 1
  BY HandleFacts DEF Has
<1>2. Accounted(e) /\ e.owned = 0
  BY <1>1, FreedAccounted
<1> HIDE DEF e
<1>3. h' = [h EXCEPT ![TicketOf[c]] = e, !["tensor"] = t]
  BY DEF e
<1>4. e.owned <= 1 /\ e.owned = h[TicketOf[c]].owned - 1
  BY <1>1, <1>2
<1> QED BY <1>2, <1>3, <1>4, TicketAndOutput

LEMMA TicketFinishKeeps ==
  ASSUME HandlesInv, NEW o, NEW named, NEW r, FinishLayer(o, named, r) PROVE HandlesInv'
<1> DEFINE t == Born(h["tensor"], o, named, r)
           x == IF o = "refused" THEN r ELSE "ok"
<1>1. "cache" \in Caches /\ TicketOf["cache"] = "layer" /\ "layer" \in Kinds /\ "tensor" \in Kinds
  BY KindsAre DEF Caches
<1>2. Has("layer") /\ h' = [h EXCEPT !["layer"] = Freed(h["layer"], x), !["tensor"] = t]
  BY <1>1, HandleFacts DEF FinishLayer
<1>3. \/ ver' = ver
      \/ \E w \in Nat :
           ver' = [ver EXCEPT !["cache"].prov = ver["cache"].prov + 1, !["cache"].wrap = w]
  <2>1. ver["cache"].wrap \in Nat /\ ver["cache"].wrap + 1 \in Nat
    BY <1>1, HandleFacts DEF Version
  <2>2. CASE o = "refused"
    BY <2>2 DEF FinishLayer
  <2>3. CASE o = "ok"
    <3>1. ver' = [ver EXCEPT !["cache"].prov = ver["cache"].prov + 1,
                      !["cache"].wrap = ver["cache"].wrap + 1]
      BY <2>3, <1>1, HandleFacts DEF FinishLayer
    <3> QED BY <3>1, <2>1
  <2>4. CASE o # "refused" /\ o # "ok"
    <3>1. ver' = [ver EXCEPT !["cache"].prov = ver["cache"].prov + 1,
                      !["cache"].wrap = ver["cache"].wrap]
      BY <2>4, <1>1, HandleFacts DEF FinishLayer
    <3> QED BY <3>1, <2>1
  <2> QED BY <2>2, <2>3, <2>4
<1>4. ver' \in [Caches -> Version] /\ \A d \in Caches \ {"cache"} : ver'[d] = ver[d]
  BY <1>1, <1>3, HandleFacts DEF Version
<1>5. Accounted(t) /\ t.owned >= h["tensor"].owned
  BY <1>1, HandleFacts, BornAccounted
<1> HIDE DEF t, x
<1> QED BY <1>1, <1>2, <1>4, <1>5, TicketGoes

LEMMA TicketCommitKeeps ==
  ASSUME HandlesInv, NEW c \in {"kda", "mla"}, NEW o, NEW rt, NEW ro, CommitDecode(c, o, rt, ro)
  PROVE  HandlesInv'
<1> DEFINE t == IF o = "ok" THEN h["tensor"] ELSE Freed(h["tensor"], ro)
<1>1. c \in Caches /\ c # "cache" /\ TicketOf[c] \in Kinds /\ "tensor" \in Kinds
  BY KindsAre DEF Caches
<1>2. Has(TicketOf[c])
      /\ h' = [h EXCEPT ![TicketOf[c]] = Freed(h[TicketOf[c]], rt), !["tensor"] = t]
  BY <1>1, HandleFacts DEF CommitDecode
<1>3. h["tensor"].owned \in Nat /\ h["tensor"].owned > 0 /\ Accounted(h["tensor"])
  BY <1>1, <1>2, HandleFacts DEF Has
<1>4. Accounted(t) /\ (t.owned >= h["tensor"].owned \/ t.owned = h["tensor"].owned - 1)
  BY <1>3, FreedAccounted
<1>5. \/ ver' = ver
      \/ \E u \in Version : ver' = [ver EXCEPT ![c] = u]
  <2>1. /\ ver[c] \in Version /\ ver[c].prov + 1 \in Nat /\ ver[c].wrap + 1 \in Nat
    BY <1>1, HandleFacts DEF Version
  <2>2. CASE o = "refused"
    BY <2>2 DEF CommitDecode
  <2>3. CASE o = "ok"
    <3>1. ver' = [ver EXCEPT ![c] = [ver[c] EXCEPT !.prov = ver[c].prov + 1,
                                               !.wrap = ver[c].wrap + 1]]
      BY <2>3, <1>1, HandleFacts DEF CommitDecode
    <3>2. [ver[c] EXCEPT !.prov = ver[c].prov + 1, !.wrap = ver[c].wrap + 1] \in Version
      BY <2>1 DEF Version
    <3> QED BY <3>1, <3>2
  <2>4. CASE o # "refused" /\ o # "ok"
    <3>1. ver' = [ver EXCEPT ![c] = [ver[c] EXCEPT !.prov = ver[c].prov + 1, !.poisoned = TRUE]]
      BY <2>4, <1>1, HandleFacts DEF CommitDecode
    <3>2. [ver[c] EXCEPT !.prov = ver[c].prov + 1, !.poisoned = TRUE] \in Version
      BY <2>1 DEF Version
    <3> QED BY <3>1, <3>2
  <2> QED BY <2>2, <2>3, <2>4
<1>6. ver' \in [Caches -> Version] /\ \A d \in Caches \ {c} : ver'[d] = ver[d]
  BY <1>1, <1>5, HandleFacts DEF Version
<1> HIDE DEF t
<1> QED BY <1>1, <1>2, <1>4, <1>6, TicketGoes

LEMMA CancelKeeps ==
  ASSUME HandlesInv, NEW c \in {"kda", "mla"}, NEW r1, NEW r2, NEW ro, Cancel(c, r1, r2, ro)
  PROVE  HandlesInv'
<1> DEFINE t == Freed(h["tensor"], ro)
           x == IF r1 = "ok" THEN r1 ELSE r2
<1>1. c \in Caches /\ c # "cache" /\ TicketOf[c] \in Kinds /\ "tensor" \in Kinds
  BY KindsAre DEF Caches
<1>2. /\ Has(TicketOf[c]) /\ ver' = ver
      /\ h' = [h EXCEPT ![TicketOf[c]] = Freed(h[TicketOf[c]], x), !["tensor"] = t]
  BY <1>1, HandleFacts DEF Cancel
<1>3. h["tensor"].owned \in Nat /\ h["tensor"].owned > 0 /\ Accounted(h["tensor"])
  BY <1>1, <1>2, HandleFacts DEF Has
<1>4. Accounted(t) /\ t.owned = h["tensor"].owned - 1
  BY <1>3, FreedAccounted
<1> HIDE DEF t, x
<1> QED BY <1>1, <1>2, <1>4, HandleFacts, TicketGoes

\* Positions and branches: handles of their own.
LEMMA TargetKeeps ==
  ASSUME HandlesInv, NEW k \in {"position", "branch"}, ver' = ver,
         \/ h' = h
         \/ \E o, named, r : h' = [h EXCEPT ![k] = Born(h[k], o, named, r)]
         \/ Has(k) /\ \E r : h' = [h EXCEPT ![k] = Freed(h[k], r)]
  PROVE  HandlesInv'
<1>1. /\ k \in Kinds /\ k \notin {"kda_ticket", "mla_ticket", "layer", "tensor"}
      /\ Accounted(h[k]) /\ h[k].owned \in Nat
  BY KindsAre, HandleFacts
<1>2. \E e : Accounted(e) /\ h' = [h EXCEPT ![k] = e]
  <2>1. CASE h' = h
    <3>1. h' = [h EXCEPT ![k] = h[k]]
      BY <2>1, <1>1, HandleFacts
    <3> QED BY <3>1, <1>1
  <2>2. ASSUME NEW o, NEW named, NEW r, h' = [h EXCEPT ![k] = Born(h[k], o, named, r)]
        PROVE  \E e : Accounted(e) /\ h' = [h EXCEPT ![k] = e]
    BY <2>2, <1>1, BornAccounted
  <2>3. ASSUME Has(k), NEW r, h' = [h EXCEPT ![k] = Freed(h[k], r)]
        PROVE  \E e : Accounted(e) /\ h' = [h EXCEPT ![k] = e]
    BY <2>3, <1>1, FreedAccounted DEF Has
  <2> QED BY <2>1, <2>2, <2>3
<1> QED BY <1>1, <1>2, HandleFacts, OneEntry

LEMMA DropKeeps ==
  ASSUME HandlesInv, NEW k \in Kinds, NEW r, DropWrapper(k, r) PROVE HandlesInv'
<1> DEFINE with == IF k \in {"kda_ticket", "mla_ticket"} THEN {k, "tensor"} ELSE {k}
<1>1. /\ Has(k) /\ ~Busy(k) /\ ver' = ver
      /\ h' = [x \in Kinds |-> IF x \in with THEN Freed(h[x], r) ELSE h[x]]
  BY DEF DropWrapper
<1>2. h \in [Kinds -> Entry] /\ "tensor" \in Kinds /\ Accounted(h[k]) /\ h[k].owned > 0
  BY <1>1, HandleFacts, KindsAre DEF Has
<1>3. CASE k \in {"kda_ticket", "mla_ticket"}
  <2>1. PICK c \in {"kda", "mla"} : k = TicketOf[c]
    BY <1>3, KindsAre
  <2>2. c \in Caches /\ c # "cache" /\ k # "tensor"
    BY <2>1, <1>3 DEF Caches
  <2>3. h' = [h EXCEPT ![k] = Freed(h[k], r), !["tensor"] = Freed(h["tensor"], r)]
    BY <1>1, <1>2, <1>3, <2>2
  <2>4. h["tensor"].owned \in Nat /\ h["tensor"].owned > 0 /\ Accounted(h["tensor"])
    BY <1>2, <2>1, <2>2, HandleFacts
  <2> DEFINE t == Freed(h["tensor"], r)
  <2>5. Accounted(t) /\ t.owned = h["tensor"].owned - 1
    BY <2>4, FreedAccounted
  <2> HIDE DEF t
  <2>6. h' = [h EXCEPT ![TicketOf[c]] = Freed(h[TicketOf[c]], r), !["tensor"] = t]
    BY <2>1, <2>3 DEF t
  <2>7. Has(TicketOf[c])
    BY <1>1, <2>1
  <2>8. /\ ver' \in [Caches -> Version]
        /\ \A d \in Caches \ {c} : ver'[d] = ver[d]
    BY <1>1, HandleFacts
  <2> QED BY <2>2, <2>5, <2>6, <2>7, <2>8, TicketGoes
<1>4. CASE k \notin {"kda_ticket", "mla_ticket"}
  <2> DEFINE e == Freed(h[k], r)
  <2>1. h' = [h EXCEPT ![k] = e]
    BY <1>1, <1>2, <1>4
  <2>2. Accounted(e) /\ e.owned <= h[k].owned
    BY <1>2, FreedAccounted, HandleFacts
  <2> HIDE DEF e
  <2> QED BY <1>1, <1>4, <2>1, <2>2, HandleFacts, OneEntry
<1> QED BY <1>3, <1>4

LEMMA SessionDropKeeps == ASSUME HandlesInv, SessionDrop PROVE HandlesInv'
<1>1. /\ ver' = ver /\ h' = [k \in Kinds |-> [h[k] EXCEPT !.live = 0, !.stranded = 0]]
      /\ \A k \in Kinds : h[k].owned = 0 /\ h[k] \in Entry
  <2>1. \A k \in Kinds : h[k] \in Entry /\ h[k].owned \in Nat
    BY HandleFacts
  <2>2. \A k \in Kinds : ~(h[k].owned > 0)
    BY DEF SessionDrop, Has
  <2>3. ver' = ver /\ h' = [k \in Kinds |-> [h[k] EXCEPT !.live = 0, !.stranded = 0]]
    BY DEF SessionDrop
  <2>4. \A k \in Kinds : h[k].owned = 0 /\ h[k] \in Entry
    BY <2>1, <2>2
  <2> QED BY <2>3, <2>4, Zenon
<1>2. ASSUME NEW k \in Kinds
      PROVE  h'[k] \in Entry /\ h'[k].owned = 0 /\ h'[k].live = 0 /\ h'[k].stranded = 0
  <2>1. h'[k] = [h[k] EXCEPT !.live = 0, !.stranded = 0] /\ h[k] \in Entry /\ h[k].owned = 0
    BY <1>1
  <2> QED BY <2>1 DEF Entry
<1>3. h' \in [Kinds -> Entry]
  <2>1. h' = [k \in Kinds |-> h'[k]]
    BY <1>1
  <2> QED BY <2>1, <1>2
<1>4. \A k \in Kinds : Accounted(h'[k])
  BY <1>2 DEF Accounted
<1>5. h'["tensor"].owned >= h'["kda_ticket"].owned + h'["mla_ticket"].owned
  BY <1>2, KindsAre
<1> QED BY <1>1, <1>2, <1>3, <1>4, <1>5, HandleFacts, HandlesKept

LEMMA HandlesSteps == HandlesInv /\ [PNext]_pvars => HandlesInv'
<1> SUFFICES ASSUME HandlesInv, [PNext]_pvars PROVE HandlesInv'
  OBVIOUS
<1>1. ASSUME NEW o, NEW named, NEW r,
             \/ Upload(o, named, r) \/ PrepareLayer(o, named, r) \/ FinishLayer(o, named, r)
             \/ CreateCacheF32(o, named, r) \/ CreateKdaCache(o, named, r)
             \/ CreateMlaCache(o, named, r)
      PROVE  HandlesInv'
  <2>1. "cache" \in Caches /\ "kda" \in Caches /\ "mla" \in Caches
    BY DEF Caches
  <2> QED
    BY <1>1, <2>1, UploadKeeps, TicketMadeKeeps, TicketFinishKeeps, CreateKeeps
    DEF CreateCacheF32, CreateKdaCache, CreateMlaCache
<1>2. ASSUME NEW o, NEW named, NEW rt, NEW ro,
             DecodeKda(o, named, rt, ro) \/ DecodeMla(o, named, rt, ro)
      PROVE  HandlesInv'
  BY <1>2, DecodeKeeps DEF DecodeKda, DecodeMla, Caches
<1>3. ASSUME NEW o, NEW rt, NEW ro, CommitKda(o, rt, ro) \/ CommitMla(o, rt, ro) PROVE HandlesInv'
  BY <1>3, TicketCommitKeeps DEF CommitKda, CommitMla
<1>4. ASSUME NEW c \in Caches \ {"cache"}, NEW r1, NEW r2, NEW ro, Cancel(c, r1, r2, ro)
      PROVE HandlesInv'
  <2>1. c \in {"kda", "mla"}
    BY DEF Caches
  <2> QED BY <1>4, <2>1, CancelKeeps
<1>5. ASSUME NEW o, NEW named, NEW r,
             \/ BeginPosition(o, named, r) \/ PreparePosition(o, r) \/ FinishExperts(o, r)
             \/ FinishGreedy(o, r)
      PROVE  HandlesInv'
  <2>1. ver' = ver
    BY <1>5 DEF BeginPosition, PreparePosition, FinishExperts, FinishGreedy
  <2>2. \/ h' = h \/ h' = [h EXCEPT !["position"] = Born(h["position"], o, named, r)]
        \/ Has("position") /\ h' = [h EXCEPT !["position"] = Freed(h["position"], r)]
    BY <1>5 DEF BeginPosition, PreparePosition, FinishExperts, FinishGreedy
  <2> QED BY <2>1, <2>2, TargetKeeps
<1>6. ASSUME NEW o, NEW r, BeginBranch(o) \/ ResolveBranch(o, r) PROVE HandlesInv'
  <2>1. ver' = ver
    BY <1>6 DEF BeginBranch, ResolveBranch
  <2>2. \/ h' = [h EXCEPT !["branch"] = Born(h["branch"], o, FALSE, "ok")]
        \/ Has("branch") /\ h' = [h EXCEPT !["branch"] = Freed(h["branch"], r)]
    BY <1>6 DEF BeginBranch, ResolveBranch
  <2> QED BY <2>1, <2>2, TargetKeeps
<1>7. ASSUME NEW k \in Kinds, NEW r, DropWrapper(k, r) PROVE HandlesInv'
  BY <1>7, DropKeeps
<1>8. CASE SessionDrop
  BY <1>8, SessionDropKeeps
<1>9. CASE UNCHANGED pvars
  <2>1. h' = h /\ ver' = ver
    BY <1>9 DEF pvars
  <2> QED BY <2>1 DEF HandlesInv, TicketsSeeTheirCache, Has
<1> QED BY <1>1, <1>2, <1>3, <1>4, <1>5, <1>6, <1>7, <1>8, <1>9 DEF PNext

\* Every entry of every kind stays accounted for, with one ticket of a kind and
\* its output owned, whatever the provider answers.
THEOREM HandlesInvariance == PSpec => []HandlesInv
BY HandlesStart, HandlesSteps, PTL DEF PSpec

\* provider.rs: for any number of layers, tensors, commits and bad answers, no
\* error path of the session loses a handle that a report has named, and no
\* ticket is held on a cache whose version the wrapper does not know.
THEOREM HandlesAreNotForgotten == PSpec => []NothingIsForgotten
<1>1. HandlesInv => NothingIsForgotten
  BY DEF HandlesInv, Accounted, NothingIsForgotten, HandlesAreOwned
<1> QED BY <1>1, HandlesInvariance, PTL

-----------------------------------------------------------------------------
(* The Qwen drafter: the inductive invariant.                                *)

PolicyType ==
  [active : BOOLEAN, available : BOOLEAN, adaptive : BOOLEAN, qualified : BOOLEAN, misses : Nat,
   width : 0 .. DraftMaximum, cooldown : Nat, ewma : Nat, refusals : Nat]

QwenTyped ==
  /\ qenv.adaptive \in BOOLEAN /\ policy \in PolicyType /\ idle \in Nat

\* Ticks are counted from the moment the policy is switched off.  Every refused
\* re-arm has cost one cooldown, the cooldown under way what it has run down.
OffFor(p, n) ==
  IF p.active THEN p.refusals = 0 /\ n = 0
  ELSE p.available /\ RearmAfter > 0 /\ RearmProbe > 0 =>
         /\ p.refusals < RearmProbe /\ p.cooldown \in 1 .. RearmAfter
         /\ n <= p.refusals * RearmAfter + (RearmAfter - p.cooldown)

QwenInv == QwenTyped /\ OffFor(policy, idle)

\* Quotients of acceptance are numbers.
LEMMA QuotientIsNat ==
  ASSUME NEW a \in Nat, NEW n \in Nat \ {0} PROVE a \div n \in Nat
BY SMT

\* One more cooldown makes up for one more refusal.
LEMMA OneMoreCooldown ==
  ASSUME NEW r \in Nat, NEW k \in Nat, NEW c \in Nat
  PROVE  /\ (r + 1) * k = r * k + k /\ r * k \in Nat
         /\ r < c => r * k + k <= c * k
<1>1. (r + 1) * k = r * k + k /\ r * k \in Nat
  BY SMT
<1>2. ASSUME r < c PROVE r * k + k <= c * k
  <2>1. PICK d \in Nat : c = (r + 1) + d
    <3>1. c - (r + 1) \in Nat /\ c = (r + 1) + (c - (r + 1))
      BY <1>2
    <3> QED BY <3>1
  <2>2. c * k = (r + 1) * k + d * k /\ d * k \in Nat
    BY <2>1, SMT
  <2>3. c * k \in Nat /\ (r + 1) * k \in Nat
    BY SMT
  <2> QED BY <1>1, <2>2, <2>3, SMT
<1> QED BY <1>1, <1>2

\* The widths of a policy are at most the configured maximum.
LEMMA WidthsAreWidths ==
  ASSUME NEW a \in Nat
  PROVE  /\ ProbeWidth \in 0 .. DraftMaximum /\ DraftMaximum \in 0 .. DraftMaximum
         /\ Greater(ProbeWidth, Lesser(DraftMaximum, a)) \in 0 .. DraftMaximum
         /\ Lesser(DraftMaximum, Greater(ProbeWidth, a)) \in 0 .. DraftMaximum
BY QwenAssumption DEF ProbeWidth, Lesser, Greater

\* A fresh policy is on, or was never available.
LEMMA FreshPolicy ==
  ASSUME NEW a \in BOOLEAN, NEW d \in BOOLEAN
  PROVE  NewPolicy(a, d) \in PolicyType /\ OffFor(NewPolicy(a, d), 0)
BY WidthsAreWidths, QwenAssumption DEF NewPolicy, PolicyType, OffFor

\* Switching a policy off starts its first cooldown.
LEMMA DeactivatedIsOff ==
  ASSUME NEW p \in PolicyType, p.active
  PROVE  /\ Deactivated(p) \in PolicyType
         /\ p.refusals = 0 => OffFor(Deactivated(p), 0)
<1>1. 0 * RearmAfter = 0
  BY QwenAssumption, SMT
<1>2. /\ Deactivated(p) \in PolicyType /\ Deactivated(p).cooldown = RearmAfter
      /\ Deactivated(p).refusals = p.refusals /\ Deactivated(p).active = FALSE
  BY QwenAssumption DEF Deactivated, PolicyType
<1>3. ASSUME p.refusals = 0 PROVE OffFor(Deactivated(p), 0)
  BY <1>1, <1>2, <1>3, QwenAssumption DEF OffFor
<1> QED BY <1>2, <1>3

\* A tick counts, re-arms or refuses.
LEMMA TickedIsOff ==
  ASSUME NEW p \in PolicyType, NEW n \in Nat, OffFor(p, n)
  PROVE  /\ Ticked(p) \in PolicyType
         /\ OffFor(Ticked(p), IF Ticked(p).active THEN 0 ELSE n + 1)
<1> USE QwenAssumption
<1>1. CASE p.active
  BY <1>1 DEF Ticked, OffFor, PolicyType
<1>2. CASE ~p.active /\ (RearmAfter = 0 \/ ~p.available)
  BY <1>2 DEF Ticked, OffFor, PolicyType
<1>3. CASE ~p.active /\ RearmAfter # 0 /\ p.available
  <2> DEFINE cooled == IF p.cooldown = 0 THEN 0 ELSE p.cooldown - 1
             more == p.refusals + 1
             keep == p.ewma < RearmBar /\ (RearmProbe = 0 \/ more < RearmProbe)
             on == [p EXCEPT !.cooldown = 0, !.refusals = 0, !.active = TRUE, !.qualified = FALSE,
                             !.misses = 0, !.width = ProbeWidth,
                             !.ewma = IF p.ewma < RearmBar THEN RearmBar ELSE @]
             off == [p EXCEPT !.cooldown = RearmAfter, !.refusals = Lesser(more, RearmProbe)]
             cold == [p EXCEPT !.cooldown = cooled]
  <2>1. cooled \in Nat /\ more \in Nat
    BY DEF PolicyType
  <2>2. Ticked(p) = IF cooled # 0 THEN cold ELSE IF keep THEN off ELSE on
    BY <1>3, <2>1 DEF Ticked
  <2>3. CASE cooled # 0
    <3>1. Ticked(p) = cold /\ cold \in PolicyType
      BY <2>1, <2>2, <2>3 DEF PolicyType
    <3>2. cold.refusals = p.refusals /\ cold.cooldown = cooled /\ cold.active = FALSE
          /\ cold.available
      BY <1>3 DEF PolicyType
    <3>3. OffFor(cold, n + 1)
      <4> SUFFICES ASSUME RearmProbe > 0
                   PROVE  /\ p.refusals < RearmProbe /\ cooled \in 1 .. RearmAfter
                          /\ n + 1 <= p.refusals * RearmAfter + (RearmAfter - cooled)
        BY <3>2 DEF OffFor
      <4>1. p.refusals < RearmProbe /\ p.cooldown \in 1 .. RearmAfter
            /\ n <= p.refusals * RearmAfter + (RearmAfter - p.cooldown)
        BY <1>3 DEF OffFor
      <4>2. p.refusals * RearmAfter \in Nat
        BY OneMoreCooldown DEF PolicyType
      <4>3. cooled = p.cooldown - 1
        BY <4>1
      <4> HIDE DEF cooled
      <4> QED BY <2>3, <4>1, <4>2, <4>3, <2>1
    <3> QED BY <3>1, <3>2, <3>3
  <2>4. CASE cooled = 0 /\ keep
    <3>1. Ticked(p) = off /\ off \in PolicyType
      BY <2>1, <2>2, <2>4 DEF PolicyType, Lesser
    <3>2. /\ off.refusals = Lesser(more, RearmProbe) /\ off.cooldown = RearmAfter
          /\ off.active = FALSE /\ off.available
      BY <1>3 DEF PolicyType
    <3>3. OffFor(off, n + 1)
      <4> SUFFICES ASSUME RearmProbe > 0
                   PROVE  /\ Lesser(more, RearmProbe) < RearmProbe
                          /\ RearmAfter \in 1 .. RearmAfter
                          /\ n + 1 <= Lesser(more, RearmProbe) * RearmAfter
                                       + (RearmAfter - RearmAfter)
        BY <3>2 DEF OffFor
      <4>1. p.cooldown \in 1 .. RearmAfter
            /\ n <= p.refusals * RearmAfter + (RearmAfter - p.cooldown)
        BY <1>3 DEF OffFor
      <4>2. p.cooldown = 1
        BY <2>4, <4>1
      <4>3. Lesser(more, RearmProbe) = more /\ more < RearmProbe
        BY <2>4, <2>1 DEF Lesser
      <4>4. /\ p.refusals * RearmAfter \in Nat
            /\ more * RearmAfter = p.refusals * RearmAfter + RearmAfter
        BY OneMoreCooldown DEF PolicyType
      <4> HIDE DEF more
      <4> QED BY <1>3, <4>1, <4>2, <4>3, <4>4, SMT
    <3> QED BY <3>1, <3>2, <3>3
  <2>5. CASE cooled = 0 /\ ~keep
    <3>1. Ticked(p) = on /\ on \in PolicyType
      BY <2>1, <2>2, <2>5, WidthsAreWidths DEF PolicyType
    <3>2. on.active /\ on.refusals = 0
      BY DEF PolicyType
    <3> QED BY <3>1, <3>2 DEF OffFor
  <2> QED BY <2>3, <2>4, <2>5
<1> QED BY <1>1, <1>2, <1>3 DEF PolicyType

\* A verified width keeps the policy on or starts its first cooldown.
LEMMA VerifiedIsOff ==
  ASSUME NEW p \in PolicyType, NEW n \in Nat, OffFor(p, n), NEW a \in Nat, NEW m \in Nat
  PROVE  VerifiedRecorded(p, a, m) \in PolicyType /\ OffFor(VerifiedRecorded(p, a, m), 0)
<1> USE QwenAssumption
<1> DEFINE misses == IF a = 0 THEN p.misses + 1 ELSE 0
           r == [p EXCEPT !.misses = Lesser(misses, 2),
                          !.ewma = (2 * ((a * 1000) \div m) + 3 * @) \div 5]
           doubled == Greater(ProbeWidth, Lesser(DraftMaximum, 2 * a))
           V == VerifiedRecorded(p, a, m)
<1>1. CASE ~p.active \/ m = 0
  <2>1. V = p
    BY <1>1 DEF VerifiedRecorded, PolicyType
  <2>2. CASE p.active
    BY <2>1, <2>2 DEF OffFor
  <2>3. CASE ~p.active
    <3>1. p.refusals * RearmAfter \in Nat
      BY OneMoreCooldown DEF PolicyType
    <3> QED BY <2>1, <2>3, <3>1 DEF OffFor, PolicyType
  <2> QED BY <2>2, <2>3 DEF PolicyType
<1>2. CASE p.active /\ m # 0
  <2>1. r \in PolicyType /\ r.active /\ r.refusals = 0
    <3>1. (a * 1000) \div m \in Nat
      BY <1>2, QuotientIsNat
    <3>2. (2 * ((a * 1000) \div m) + 3 * p.ewma) \div 5 \in Nat
      <4>1. p.ewma \in Nat
        BY DEF PolicyType
      <4>2. \A x, y \in Nat : 2 * x + 3 * y \in Nat
        BY SMT
      <4>3. 2 * ((a * 1000) \div m) + 3 * p.ewma \in Nat
        BY <3>1, <4>1, <4>2
      <4> DEFINE sum == 2 * ((a * 1000) \div m) + 3 * p.ewma
      <4> HIDE DEF sum
      <4>4. sum \in Nat
        BY <4>3 DEF sum
      <4>5. sum \div 5 \in Nat
        BY <4>4, QuotientIsNat
      <4> QED BY <4>5 DEF sum
    <3>3. Lesser(misses, 2) \in Nat
      BY DEF Lesser, PolicyType
    <3>4. p.active /\ p.refusals = 0
      BY <1>2 DEF OffFor
    <3> DEFINE e == (2 * ((a * 1000) \div m) + 3 * p.ewma) \div 5
               l == Lesser(misses, 2)
    <3>5. r = [p EXCEPT !.misses = l, !.ewma = e]
      OBVIOUS
    <3> HIDE DEF e, l, r, misses
    <3>6. e \in Nat /\ l \in Nat
      BY <3>2, <3>3 DEF e, l
    <3> QED BY <3>4, <3>5, <3>6 DEF PolicyType
  <2>2. AdaptiveWidth(r) \in 0 .. DraftMaximum /\ doubled \in 0 .. DraftMaximum
        /\ ProbeWidth \in 0 .. DraftMaximum /\ DraftMaximum \in 0 .. DraftMaximum
    <3>1. (DraftMaximum * r.ewma + 500) \div 1000 \in Nat
      <4>1. r.ewma \in Nat
        BY <2>1 DEF PolicyType
      <4>2. DraftMaximum * r.ewma + 500 \in Nat
        BY <4>1, SMT
      <4> QED BY <4>2, QuotientIsNat
    <3> QED BY <3>1, WidthsAreWidths DEF AdaptiveWidth
  <2>3. \/ V = Deactivated(r)
        \/ \E q \in BOOLEAN, w \in 0 .. DraftMaximum : V = [r EXCEPT !.qualified = q, !.width = w]
    <3> HIDE DEF doubled, misses, r
    <3>1. \/ V = Deactivated(r)
          \/ V = [r EXCEPT !.qualified = TRUE, !.width = AdaptiveWidth(r)]
          \/ V = [r EXCEPT !.qualified = TRUE, !.width = DraftMaximum]
          \/ V = [r EXCEPT !.width = ProbeWidth] \/ V = [r EXCEPT !.width = DraftMaximum]
          \/ V = [r EXCEPT !.width = doubled]
      <4>1. V = IF p.adaptive
                THEN IF a = 0 /\ (~p.qualified \/ misses >= 2) THEN Deactivated(r)
                     ELSE [r EXCEPT !.qualified = TRUE, !.width = AdaptiveWidth(r)]
                ELSE IF ~p.qualified
                THEN IF a = m /\ a >= 2 THEN [r EXCEPT !.qualified = TRUE, !.width = DraftMaximum]
                     ELSE IF a = 0 THEN Deactivated(r) ELSE [r EXCEPT !.width = ProbeWidth]
                ELSE IF a = m THEN [r EXCEPT !.width = DraftMaximum]
                     ELSE IF a = 0
                     THEN IF misses >= 2 THEN Deactivated(r) ELSE [r EXCEPT !.width = ProbeWidth]
                     ELSE [r EXCEPT !.width = doubled]
        <5>1. CASE p.adaptive
          BY <1>2, <5>1 DEF VerifiedRecorded, misses, r, doubled
        <5>2. CASE ~p.adaptive /\ ~p.qualified
          BY <1>2, <5>2 DEF VerifiedRecorded, misses, r, doubled
        <5>3. CASE ~p.adaptive /\ p.qualified
          BY <1>2, <5>3 DEF VerifiedRecorded, misses, r, doubled
        <5> QED BY <5>1, <5>2, <5>3
      <4> HIDE DEF V
      <4> QED BY <4>1, Zenon
    <3>2. ASSUME NEW w
          PROVE [r EXCEPT !.width = w] = [r EXCEPT !.qualified = r.qualified, !.width = w]
      BY <2>1 DEF PolicyType
    <3>3. r.qualified \in BOOLEAN
      BY <2>1 DEF PolicyType
    <3> QED BY <3>1, <3>2, <3>3, <2>2
  <2> HIDE DEF V, r
  <2>4. ASSUME V = Deactivated(r) PROVE V \in PolicyType /\ OffFor(V, 0)
    BY <2>1, <2>4, DeactivatedIsOff
  <2>5. ASSUME NEW q \in BOOLEAN, NEW w \in 0 .. DraftMaximum,
               V = [r EXCEPT !.qualified = q, !.width = w]
        PROVE  V \in PolicyType /\ OffFor(V, 0)
    BY <2>1, <2>5 DEF PolicyType, OffFor
  <2>6. V \in PolicyType /\ OffFor(V, 0)
    BY <2>3, <2>4, <2>5
  <2> QED BY <2>6 DEF V
<1> QED BY <1>1, <1>2 DEF PolicyType

LEMMA QwenStarts == QInit => QwenInv
<1> SUFFICES ASSUME QInit PROVE QwenInv
  OBVIOUS
<1>1. qenv.adaptive \in BOOLEAN
  BY DEF QInit
<1>2. policy = NewPolicy(FALSE, qenv.adaptive) /\ idle = 0
  BY DEF QInit
<1> QED BY <1>1, <1>2, FreshPolicy DEF QwenInv, QwenTyped

LEMMA QwenSteps == QwenInv /\ [QNext]_qvars => QwenInv'
<1> SUFFICES ASSUME QwenInv, [QNext]_qvars PROVE QwenInv'
  OBVIOUS
<1> USE DEF QwenInv, QwenTyped
<1>1. CASE BeginRequest
  <2>1. /\ policy' = NewPolicy(qwen.source \in {"probe", "wide"}, qenv.adaptive)
        /\ idle' = 0 /\ qenv' = qenv
    BY <1>1 DEF BeginRequest
  <2>2. (qwen.source \in {"probe", "wide"}) \in BOOLEAN
    OBVIOUS
  <2> QED BY <2>1, <2>2, FreshPolicy
<1>2. ASSUME NEW b \in 1 .. DraftMaximum, Draft(b) PROVE QwenInv'
  <2> DEFINE p == Ticked(policy)
  <2>1. p \in PolicyType /\ OffFor(p, IF p.active THEN 0 ELSE idle + 1)
    BY TickedIsOff
  <2>2. idle' = (IF p.active THEN 0 ELSE idle + 1) /\ qenv' = qenv
    BY <1>2 DEF Draft
  <2>3. \/ policy' = p
        \/ p.active /\ policy' = Deactivated(p)
    <3> HIDE DEF p
    <3>1. CASE ProposalWidth(p, b) = 0
      BY <1>2, <3>1 DEF Draft, p
    <3>2. CASE ProposalWidth(p, b) # 0
      <4>1. p.active
        BY <3>2 DEF ProposalWidth
      <4>2. \E g \in Proposals(qwen, ProposalWidth(p, b)) :
              policy' = IF g.n = 0 THEN EmptyRecorded(p, g.stopped) ELSE p
        BY <1>2, <3>2 DEF Draft, p
      <4> QED BY <4>1, <4>2 DEF EmptyRecorded
    <3> QED BY <3>1, <3>2
  <2>4. CASE policy' = p
    BY <2>1, <2>2, <2>4
  <2>5. CASE p.active /\ policy' = Deactivated(p)
    <3>1. p.refusals = 0 /\ idle' = 0
      BY <2>1, <2>2, <2>5 DEF OffFor
    <3> QED BY <2>1, <2>2, <2>5, <3>1, DeactivatedIsOff
  <2> QED BY <2>3, <2>4, <2>5
<1>3. ASSUME NEW n \in 1 .. DraftMaximum, NEW a \in 0 .. DraftMaximum, Verify(n, a) PROVE QwenInv'
  <2>1. policy' = VerifiedRecorded(policy, a, n) /\ idle' = 0 /\ qenv' = qenv
    BY <1>3 DEF Verify
  <2>2. n \in Nat /\ a \in Nat
    BY QwenAssumption
  <2> QED BY <2>1, <2>2, VerifiedIsOff
<1>4. CASE Refuse
  BY <1>4 DEF Refuse
<1>5. CASE UNCHANGED qvars
  BY <1>5 DEF qvars
<1> QED BY <1>1, <1>2, <1>3, <1>4, <1>5 DEF QNext

\* What the invariant is for: P cooldowns are the longest it can be off.
LEMMA OffIsBounded == QwenInv => QwenComesBack
<1> SUFFICES ASSUME QwenInv, RearmAfter > 0, RearmProbe > 0, policy.available
             PROVE  idle <= RearmAfter * RearmProbe
  BY DEF QwenComesBack
<1> USE QwenAssumption
<1>0. policy \in PolicyType /\ OffFor(policy, idle) /\ idle \in Nat
  BY DEF QwenInv, QwenTyped
<1>1. RearmAfter * RearmProbe \in Nat /\ RearmAfter * RearmProbe = RearmProbe * RearmAfter
  BY SMT
<1>2. CASE policy.active
  BY <1>0, <1>1, <1>2 DEF OffFor
<1>3. CASE ~policy.active
  <2>1. /\ policy.refusals < RearmProbe /\ policy.cooldown \in 1 .. RearmAfter
        /\ idle <= policy.refusals * RearmAfter + (RearmAfter - policy.cooldown)
    BY <1>0, <1>3 DEF OffFor
  <2>2. policy.refusals \in Nat
    BY <1>0 DEF PolicyType
  <2>3. /\ policy.refusals * RearmAfter \in Nat
        /\ policy.refusals * RearmAfter + RearmAfter <= RearmProbe * RearmAfter
    BY <2>1, <2>2, OneMoreCooldown
  <2> QED BY <1>0, <1>1, <2>1, <2>3
<1> QED BY <1>0, <1>2, <1>3 DEF PolicyType

\* The policy's widths stay within the maximum, and the ticks a drafter is off
\* within the cooldowns its refusals account for.
THEOREM QwenInvariance == QSpec => []QwenInv
BY QwenStarts, QwenSteps, PTL DEF QSpec

\* QwenRequestPolicy::tick: with a probe re-arm configured, whatever the target
\* accepts and for every cooldown, bar and number of probes, a drafter that was
\* switched off is on again after at most RearmProbe cooldowns.
THEOREM DraftingResumes == QSpec => []QwenComesBack
BY QwenInvariance, OffIsBounded, PTL

-----------------------------------------------------------------------------
(* The DSpark drafter: the inductive invariant.                              *)

\* A mirror that does not lag has the provider's length.
CacheIs(c) ==
  /\ c \in [rows : Seq(Tokens), length : Nat, stale : BOOLEAN]
  /\ ~c.stale => c.length = Len(c.rows)

ActiveFields ==
  {"enabled", "aligned", "retain", "qualified", "width", "category", "ledger", "prompt", "origin",
   "txn", "baseline", "credit", "losses", "misses", "resolved"}

\* What is restored to is a sequence of rows; a prompt boundary restores the
\* rows it is labelled with.
RequestIs(a) ==
  /\ DOMAIN a = ActiveFields
  /\ a.enabled \in BOOLEAN /\ a.aligned \in BOOLEAN /\ a.retain \in BOOLEAN
  /\ a.ledger \in Seq(Tokens) /\ a.width \in Nat /\ a.baseline \in Nat /\ a.credit \in Int
  /\ a.origin # None => a.origin.rows \in Seq(Tokens)
  /\ a.prompt # None => a.prompt.rows \in Seq(Tokens) /\ a.prompt.rows = a.prompt.tokens
  /\ a.txn # None => a.txn.drafts \in Seq(Tokens) /\ a.txn.base \in Seq(Tokens)

\* The drafter stands exactly where the target does.
StandsAt(a, c, rows) == ~c.stale /\ c.rows = a.ledger /\ a.ledger = rows

\* A request is aligned only where the drafter stands where the target does; a
\* proposal was made from there; automatic drafting is on only while it pays.
Drafting ==
  /\ RequestIs(active) /\ active.resolved = None
  /\ active.aligned => StandsAt(active, cache, target.committed)
  /\ active.txn # None =>
       /\ target.phase = "decode" /\ active.aligned
       /\ active.txn.base = cache.rows /\ active.txn.pending = target.pending
  /\ active.prompt # None => active.prompt.tokens = target.prompt
  /\ dmode = "auto" /\ active.enabled => active.credit >= 0

TargetIs ==
  /\ DOMAIN target = {"phase", "prompt", "committed", "pending", "boundary", "nextId", "requests"}
  /\ target.phase \in {"idle", "prefill", "decode"}
  /\ target.prompt \in Seq(Tokens) /\ target.committed \in Seq(Tokens)
  /\ target.phase = "decode" => target.pending \in Tokens
  /\ target.nextId \in Nat

\* Boundaries were published under identifiers already given out, and the two
\* of one identifier are a pair.
Published ==
  /\ pub # None => /\ pub.tokens \in Seq(Tokens) /\ pub.rows = pub.tokens
                   /\ pub.id \in Nat /\ pub.id < target.nextId
  /\ target.boundary # None => /\ target.boundary.tokens \in Seq(Tokens)
                               /\ target.boundary.id \in Nat /\ target.boundary.id < target.nextId
  /\ pub # None /\ target.boundary # None /\ target.boundary.id = pub.id =>
       target.boundary.tokens = pub.tokens

DraftInv ==
  /\ CacheIs(cache) /\ TargetIs /\ Published
  /\ IF target.phase = "idle" THEN active = None ELSE Drafting

\* What the policy may do to a request without moving it.
Same(b, a) ==
  /\ b.retain = a.retain /\ b.txn = a.txn /\ b.credit = a.credit /\ b.resolved = a.resolved
  /\ b.baseline = a.baseline
  /\ b.enabled => a.enabled
  /\ b.prompt = a.prompt \/ b.prompt = None

-----------------------------------------------------------------------------
(* The backend.                                                              *)

\* A restore that is believed is where it was asked to go.
LEMMA RestoredIs ==
  ASSUME NEW c, CacheIs(c), NEW rows \in Seq(Tokens), NEW f
  PROVE  /\ CacheIs(Restored(c, rows, f).cache)
         /\ Restored(c, rows, f).ok \in BOOLEAN
         /\ Restored(c, rows, f).ok =>
              Restored(c, rows, f).cache.rows = rows /\ ~Restored(c, rows, f).cache.stale
<1> DEFINE r == Restored(c, rows, f)
<1>0. Len(rows) \in Nat
  OBVIOUS
<1>1. CASE How(f, "restore") = "refused"
  <2>1. r = [cache |-> c, ok |-> FALSE]
    BY <1>1 DEF Restored
  <2> QED BY <2>1
<1>2. CASE How(f, "restore") = "ok" /\ ~c.stale
  <2>1. r = [cache |-> [rows |-> rows, length |-> Len(rows), stale |-> FALSE], ok |-> TRUE]
    BY <1>2 DEF Restored
  <2> HIDE DEF r
  <2>2. CacheIs(r.cache) /\ r.ok = TRUE /\ r.cache.rows = rows /\ r.cache.stale = FALSE
    BY <1>0, <2>1 DEF CacheIs
  <2> QED BY <2>2 DEF r
<1>3. CASE How(f, "restore") # "refused" /\ ~(How(f, "restore") = "ok" /\ ~c.stale)
  <2>1. r = [cache |-> [c EXCEPT !.rows = rows, !.stale = TRUE], ok |-> FALSE]
    BY <1>3 DEF Restored
  <2> HIDE DEF r
  <2>2. c \in [rows : Seq(Tokens), length : Nat, stale : BOOLEAN]
    BY DEF CacheIs
  <2> DEFINE d == [c EXCEPT !.rows = rows, !.stale = TRUE]
  <2>3. d \in [rows : Seq(Tokens), length : Nat, stale : BOOLEAN] /\ d.stale = TRUE
    BY <2>2
  <2>4. r.cache = d /\ r.ok = FALSE
    BY <2>1
  <2>5. CacheIs(r.cache) /\ r.ok = FALSE
    BY <2>3, <2>4 DEF CacheIs
  <2> QED BY <2>5 DEF r
<1> QED BY <1>1, <1>2, <1>3

\* Rows that were appended are there.
LEMMA AppendedIs ==
  ASSUME NEW c, CacheIs(c), NEW toks \in Seq(Tokens), NEW f
  PROVE  /\ CacheIs(Appended(c, toks, f).cache)
         /\ Appended(c, toks, f).ok \in BOOLEAN
         /\ Appended(c, toks, f).ok =>
              Appended(c, toks, f).cache.rows = c.rows \o toks /\ ~Appended(c, toks, f).cache.stale
<1> DEFINE r == Appended(c, toks, f)
           no == How(f, "append") = "refused" \/ c.stale \/ c.length # Len(c.rows)
<1>0. /\ c.rows \in Seq(Tokens) /\ c.length \in Nat /\ Len(toks) \in Nat /\ Len(c.rows) \in Nat
  BY DEF CacheIs
<1>1. /\ c.rows \o toks \in Seq(Tokens) /\ Len(c.rows \o toks) = Len(c.rows) + Len(toks)
  BY <1>0, ConcatProperties
<1>2. CASE no
  <2>1. r = [cache |-> c, ok |-> FALSE]
    BY <1>2 DEF Appended
  <2> QED BY <2>1
<1>t. c \in [rows : Seq(Tokens), length : Nat, stale : BOOLEAN]
  BY DEF CacheIs
<1>3. CASE ~no /\ How(f, "append") = "lost"
  <2> DEFINE lost == [c EXCEPT !.rows = c.rows \o toks, !.stale = TRUE]
  <2>1. r = [cache |-> lost, ok |-> FALSE]
    BY <1>3 DEF Appended
  <2>2. lost \in [rows : Seq(Tokens), length : Nat, stale : BOOLEAN] /\ lost.stale = TRUE
    BY <1>1, <1>t
  <2> HIDE DEF r, lost
  <2>3. r.cache = lost /\ r.ok = FALSE
    BY <2>1
  <2>4. CacheIs(lost)
    BY <2>2 DEF CacheIs
  <2> QED BY <2>3, <2>4 DEF r
<1>4. CASE ~no /\ How(f, "append") # "lost"
  <2> DEFINE more == [c EXCEPT !.rows = c.rows \o toks, !.length = c.length + Len(toks)]
  <2>1. r = [cache |-> more, ok |-> TRUE]
    BY <1>4 DEF Appended
  <2>l. c.length + Len(toks) \in Nat
    BY <1>0
  <2>2. /\ more \in [rows : Seq(Tokens), length : Nat, stale : BOOLEAN]
        /\ more.rows = c.rows \o toks /\ more.length = c.length + Len(toks)
        /\ more.stale = c.stale
    BY <1>1, <1>t, <2>l
  <2> HIDE DEF r, more
  <2>3. r.cache = more /\ r.ok = TRUE
    BY <2>1
  <2>4. more.stale = FALSE /\ more.length = Len(c.rows) + Len(toks)
    BY <1>4, <1>t, <2>2
  <2>5. CacheIs(more)
    BY <1>0, <1>1, <2>2, <2>4 DEF CacheIs
  <2> QED BY <2>2, <2>3, <2>4, <2>5 DEF r
<1> QED BY <1>2, <1>3, <1>4

\* A reset, and a release of an obsolete publication, leave a cache.
LEMMA ReleasedIs ==
  ASSUME NEW c, CacheIs(c), NEW f
  PROVE  /\ CacheIs(Reset(c, f).cache) /\ CacheIs(Released(c, f))
         /\ Reset(c, f).ok \in BOOLEAN
         /\ Reset(c, f).ok => Reset(c, f).cache.rows = <<>> /\ ~Reset(c, f).cache.stale
<1>1. <<>> \in Seq(Tokens)
  OBVIOUS
<1>2. /\ CacheIs(Reset(c, f).cache) /\ Reset(c, f).ok \in BOOLEAN
      /\ Reset(c, f).ok => Reset(c, f).cache.rows = <<>> /\ ~Reset(c, f).cache.stale
  BY <1>1, RestoredIs DEF Reset
<1> QED BY <1>2 DEF Released

-----------------------------------------------------------------------------
(* The request.                                                              *)

\* What disable_active leaves of a request.
OffOf(d, a) ==
  /\ RequestIs(d) /\ Same(d, a)
  /\ d.enabled = FALSE /\ d.ledger = a.ledger /\ d.prompt = a.prompt /\ d.origin = a.origin

LEMMA DisabledIs ==
  ASSUME NEW a, RequestIs(a), NEW al, al \in BOOLEAN, NEW category
  PROVE  /\ OffOf(Disabled(a, al, category), a)
         /\ Disabled(a, al, category).aligned = al
<1> DEFINE d == Disabled(a, al, category)
<1>1. d = [a EXCEPT !.enabled = FALSE, !.aligned = al, !.category = category]
  BY DEF Disabled
<1> HIDE DEF d
<1>2. /\ DOMAIN d = ActiveFields /\ d.enabled = FALSE /\ d.aligned = al
      /\ d.retain = a.retain /\ d.ledger = a.ledger /\ d.width = a.width /\ d.baseline = a.baseline
      /\ d.credit = a.credit /\ d.origin = a.origin /\ d.prompt = a.prompt /\ d.txn = a.txn
      /\ d.resolved = a.resolved
  BY <1>1 DEF RequestIs, ActiveFields
<1>3. RequestIs(d) /\ Same(d, a)
  BY <1>2 DEF RequestIs, Same
<1> QED BY <1>2, <1>3 DEF d, OffOf

LEMMA SameIsTransitive ==
  ASSUME NEW a, NEW b, NEW d, Same(b, a), Same(d, b) PROVE Same(d, a)
<1>1. /\ b.retain = a.retain /\ b.txn = a.txn /\ b.credit = a.credit /\ b.resolved = a.resolved
      /\ b.baseline = a.baseline
      /\ b.enabled => a.enabled
      /\ b.prompt = a.prompt \/ b.prompt = None
  BY DEF Same
<1>2. /\ d.retain = b.retain /\ d.txn = b.txn /\ d.credit = b.credit /\ d.resolved = b.resolved
      /\ d.baseline = b.baseline
      /\ d.enabled => b.enabled
      /\ d.prompt = b.prompt \/ d.prompt = None
  BY DEF Same
<1> QED BY <1>1, <1>2 DEF Same

\* advance: the drafter follows the target, or is no longer aligned.
LEMMA AdvancedIs ==
  ASSUME NEW a, RequestIs(a), NEW c, CacheIs(c), NEW toks \in Seq(Tokens), NEW k \in Seq(Tokens),
         a.aligned => StandsAt(a, c, k), NEW f
  PROVE  /\ DOMAIN Advanced(a, c, toks, f) = {"active", "cache", "ok"}
         /\ RequestIs(Advanced(a, c, toks, f).active) /\ CacheIs(Advanced(a, c, toks, f).cache)
         /\ Advanced(a, c, toks, f).ok \in BOOLEAN
         /\ Same(Advanced(a, c, toks, f).active, a)
         /\ Advanced(a, c, toks, f).ok =>
              StandsAt(Advanced(a, c, toks, f).active, Advanced(a, c, toks, f).cache, k \o toks)
         /\ ~Advanced(a, c, toks, f).ok => ~Advanced(a, c, toks, f).active.aligned
<1> DEFINE r == Advanced(a, c, toks, f)
           up == Appended(c, toks, f)
           lost == [a EXCEPT !.origin = None, !.prompt = None, !.ledger = <<>>]
           bad == Disabled(a, FALSE, "none")
<1>0. a.aligned \in BOOLEAN /\ a.ledger \in Seq(Tokens) /\ Same(a, a) /\ c.rows \in Seq(Tokens)
  BY DEF RequestIs, Same, CacheIs
<1>a. OffOf(bad, a) /\ bad.aligned = FALSE
  BY DisabledIs
<1>b. RequestIs(bad) /\ Same(bad, a) /\ bad.aligned = FALSE
  BY <1>a DEF OffOf
<1>1. CASE ~a.aligned
  <2>1. r = [active |-> a, cache |-> c, ok |-> FALSE]
    BY <1>1 DEF Advanced
  <2> QED BY <1>0, <1>1, <2>1
<1>2. CASE a.aligned /\ Len(a.ledger) + Len(toks) > SafeContext
  <2>1. r = [active |-> Disabled(lost, FALSE, "none"), cache |-> Reset(c, f).cache, ok |-> FALSE]
    BY <1>2 DEF Advanced
  <2>d. DOMAIN r = {"active", "cache", "ok"}
    BY <2>1
  <2>2. RequestIs(lost) /\ Same(lost, a)
    <3>1. /\ DOMAIN lost = ActiveFields /\ lost.ledger = <<>> /\ lost.origin = None
          /\ lost.prompt = None /\ lost.enabled = a.enabled /\ lost.aligned = a.aligned
          /\ lost.retain = a.retain /\ lost.width = a.width /\ lost.baseline = a.baseline
          /\ lost.credit = a.credit /\ lost.txn = a.txn /\ lost.resolved = a.resolved
      BY DEF RequestIs, ActiveFields
    <3> HIDE DEF lost
    <3> QED BY <3>1, EmptySeq DEF RequestIs, Same
  <2> HIDE DEF lost
  <2>a. OffOf(Disabled(lost, FALSE, "none"), lost) /\ Disabled(lost, FALSE, "none").aligned = FALSE
    BY <2>2, DisabledIs
  <2>3. /\ RequestIs(Disabled(lost, FALSE, "none")) /\ Same(Disabled(lost, FALSE, "none"), lost)
        /\ Disabled(lost, FALSE, "none").aligned = FALSE
    BY <2>a DEF OffOf
  <2>4. Same(Disabled(lost, FALSE, "none"), a)
    BY <2>2, <2>3, SameIsTransitive
  <2>5. CacheIs(Reset(c, f).cache)
    BY RestoredIs, EmptySeq DEF Reset
  <2> HIDE DEF r
  <2>6. /\ r.active = Disabled(lost, FALSE, "none") /\ r.cache = Reset(c, f).cache /\ r.ok = FALSE
    BY <2>1
  <2>7. RequestIs(r.active) /\ CacheIs(r.cache) /\ Same(r.active, a) /\ r.active.aligned = FALSE
    BY <2>3, <2>4, <2>5, <2>6
  <2> QED BY <2>6, <2>7, <2>d DEF r
<1>3. CASE /\ a.aligned /\ ~(Len(a.ledger) + Len(toks) > SafeContext)
           /\ ~Captures(c, f) \/ c.length # Len(a.ledger)
  <2>1. r = [active |-> bad, cache |-> c, ok |-> FALSE]
    BY <1>3 DEF Advanced
  <2> HIDE DEF bad
  <2> QED BY <1>b, <2>1
<1>4. CASE /\ a.aligned /\ ~(Len(a.ledger) + Len(toks) > SafeContext)
           /\ ~(~Captures(c, f) \/ c.length # Len(a.ledger))
  <2>0. /\ CacheIs(up.cache) /\ up.ok \in BOOLEAN
        /\ up.ok => up.cache.rows = c.rows \o toks /\ ~up.cache.stale
    BY AppendedIs
  <2>1. CASE up.ok
    <3> DEFINE b == [a EXCEPT !.ledger = a.ledger \o toks]
    <3>1. r = [active |-> b, cache |-> up.cache, ok |-> TRUE]
      BY <1>4, <2>1 DEF Advanced
    <3>d. DOMAIN r = {"active", "cache", "ok"}
      BY <3>1
    <3>2. a.ledger \o toks \in Seq(Tokens)
      BY <1>0, ConcatProperties
    <3>3. /\ DOMAIN b = ActiveFields /\ b.ledger = a.ledger \o toks /\ b.origin = a.origin
          /\ b.prompt = a.prompt /\ b.enabled = a.enabled /\ b.aligned = a.aligned
          /\ b.retain = a.retain /\ b.width = a.width /\ b.baseline = a.baseline
          /\ b.credit = a.credit /\ b.txn = a.txn /\ b.resolved = a.resolved
      BY DEF RequestIs, ActiveFields
    <3> HIDE DEF b, up
    <3>4. RequestIs(b) /\ Same(b, a)
      BY <3>2, <3>3 DEF RequestIs, Same
    <3>5. StandsAt(b, up.cache, k \o toks)
      BY <1>4, <2>0, <2>1, <3>3 DEF StandsAt
    <3> HIDE DEF r
    <3>6. r.active = b /\ r.cache = up.cache /\ r.ok = TRUE
      BY <3>1
    <3>7. /\ RequestIs(r.active) /\ CacheIs(r.cache) /\ Same(r.active, a)
          /\ StandsAt(r.active, r.cache, k \o toks)
      BY <2>0, <3>4, <3>5, <3>6
    <3> QED BY <3>6, <3>7, <3>d DEF r
  <2>2. CASE ~up.ok
    <3>1. r = [active |-> bad, cache |-> Restored(up.cache, c.rows, f).cache, ok |-> FALSE]
      BY <1>4, <2>2 DEF Advanced
    <3>d. DOMAIN r = {"active", "cache", "ok"}
      BY <3>1
    <3> HIDE DEF bad, up, r
    <3>2. CacheIs(Restored(up.cache, c.rows, f).cache)
      BY <1>0, <2>0, RestoredIs
    <3>3. r.active = bad /\ r.cache = Restored(up.cache, c.rows, f).cache /\ r.ok = FALSE
      BY <3>1
    <3>4. RequestIs(r.active) /\ CacheIs(r.cache) /\ Same(r.active, a) /\ r.active.aligned = FALSE
      BY <1>b, <3>2, <3>3
    <3> QED BY <3>3, <3>4, <3>d DEF r
  <2> QED BY <2>0, <2>1, <2>2
<1> QED BY <1>0, <1>1, <1>2, <1>3, <1>4

\* advance_dspark_rows: whatever the provider captured, the drafter follows.
LEMMA RowsCommittedIs ==
  ASSUME RequestIs(active), CacheIs(cache), NEW toks \in Seq(Tokens), NEW k \in Seq(Tokens),
         active.aligned => StandsAt(active, cache, k), NEW f
  PROVE  /\ RequestIs(RowsCommitted(toks, f).active) /\ CacheIs(RowsCommitted(toks, f).cache)
         /\ Same(RowsCommitted(toks, f).active, active)
         /\ RowsCommitted(toks, f).active.aligned =>
              StandsAt(RowsCommitted(toks, f).active, RowsCommitted(toks, f).cache, k \o toks)
<1> DEFINE adv == Advanced(active, cache, toks, f)
           skip == [active |-> active, cache |-> cache, ok |-> FALSE]
           r == IF How(f, "capture") = "ok" THEN adv ELSE skip
           q == RowsCommitted(toks, f)
<1>1. /\ DOMAIN adv = {"active", "cache", "ok"}
      /\ RequestIs(adv.active) /\ CacheIs(adv.cache) /\ adv.ok \in BOOLEAN
      /\ Same(adv.active, active)
      /\ adv.ok => StandsAt(adv.active, adv.cache, k \o toks)
      /\ ~adv.ok => ~adv.active.aligned
  BY AdvancedIs
<1>2. /\ DOMAIN skip = {"active", "cache", "ok"} /\ skip.active = active /\ skip.cache = cache
      /\ skip.ok = FALSE
  OBVIOUS
<1>3. Same(active, active)
  BY DEF Same
<1>4. q = [r EXCEPT !.active = IF ~active.aligned \/ r.ok THEN r.active
                               ELSE Disabled(r.active, FALSE, "none")]
  BY DEF RowsCommitted
<1>5. ~active.aligned => adv = skip
  BY DEF Advanced
<1> HIDE DEF adv, skip
<1>6. /\ DOMAIN r = {"active", "cache", "ok"}
      /\ RequestIs(r.active) /\ CacheIs(r.cache) /\ r.ok \in BOOLEAN
      /\ Same(r.active, active)
      /\ r.ok => StandsAt(r.active, r.cache, k \o toks)
      /\ ~active.aligned => ~r.active.aligned
  BY <1>1, <1>2, <1>3, <1>5
<1> HIDE DEF r
<1>7. /\ q.cache = r.cache
      /\ q.active = IF ~active.aligned \/ r.ok THEN r.active ELSE Disabled(r.active, FALSE, "none")
  BY <1>4, <1>6
<1> HIDE DEF q
<1>8. CASE ~active.aligned \/ r.ok
  <2>1. q.active = r.active
    BY <1>7, <1>8
  <2> QED BY <1>6, <1>7, <1>8, <2>1 DEF q
<1>9. CASE ~(~active.aligned \/ r.ok)
  <2>1. q.active = Disabled(r.active, FALSE, "none")
    BY <1>7, <1>9
  <2> DEFINE off == Disabled(r.active, FALSE, "none")
  <2>b. OffOf(off, r.active) /\ off.aligned = FALSE
    BY <1>6, DisabledIs
  <2> HIDE DEF off
  <2>a. RequestIs(off) /\ Same(off, r.active) /\ off.aligned = FALSE
    BY <2>b DEF OffOf
  <2>2. RequestIs(q.active) /\ Same(q.active, r.active) /\ q.active.aligned = FALSE
    BY <2>1, <2>a DEF off
  <2>3. Same(q.active, active)
    BY <1>6, <2>2, SameIsTransitive
  <2> QED BY <1>6, <1>7, <2>2, <2>3 DEF q
<1> QED BY <1>8, <1>9

\* capture_prompt_boundary: what is kept is the prompt with its own rows.
LEMMA PromptCapturedIs ==
  ASSUME RequestIs(active), CacheIs(cache), NEW p \in Seq(Tokens),
         active.aligned => StandsAt(active, cache, p), NEW f
  PROVE  LET a == PromptCaptured(active, p, f)
         IN  /\ RequestIs(a) /\ a.txn = active.txn /\ a.credit = active.credit
             /\ a.enabled => active.enabled
             /\ a.resolved = active.resolved /\ a.ledger = active.ledger
             /\ a.aligned => active.aligned
             /\ a.prompt = active.prompt \/ a.prompt = [tokens |-> p, rows |-> p]
<1> DEFINE a == PromptCaptured(active, p, f)
           off == Disabled(active, FALSE, "none")
<1>1. CASE ~active.aligned
  <2>1. a = active
    BY <1>1 DEF PromptCaptured
  <2> QED BY <2>1
<1>2. CASE active.aligned /\ ~(active.ledger = p /\ Captures(cache, f))
  <2>1. a = off
    BY <1>2 DEF PromptCaptured
  <2>a. OffOf(off, active) /\ off.aligned = FALSE
    BY DisabledIs
  <2> HIDE DEF off
  <2>2. /\ RequestIs(off) /\ Same(off, active) /\ off.ledger = active.ledger
        /\ off.aligned = FALSE /\ off.prompt = active.prompt
    BY <2>a DEF OffOf
  <2>3. /\ off.txn = active.txn /\ off.credit = active.credit /\ off.resolved = active.resolved
        /\ off.enabled => active.enabled
    BY <2>2 DEF Same
  <2> HIDE DEF off
  <2> QED BY <2>1, <2>2, <2>3
<1>3. CASE active.aligned /\ active.ledger = p /\ Captures(cache, f)
  <2> DEFINE kept == [active EXCEPT !.prompt = [tokens |-> p, rows |-> cache.rows], !.origin = None]
  <2>1. a = kept
    BY <1>3 DEF PromptCaptured
  <2>2. cache.rows = p
    BY <1>3 DEF StandsAt
  <2>3. /\ DOMAIN kept = ActiveFields /\ kept.enabled = active.enabled
        /\ kept.aligned = active.aligned /\ kept.retain = active.retain
        /\ kept.ledger = active.ledger /\ kept.width = active.width
        /\ kept.baseline = active.baseline /\ kept.credit = active.credit
        /\ kept.txn = active.txn /\ kept.resolved = active.resolved /\ kept.origin = None
        /\ kept.prompt = [tokens |-> p, rows |-> p]
    BY <2>2 DEF RequestIs, ActiveFields
  <2> HIDE DEF kept
  <2>4. kept.prompt.rows = p /\ kept.prompt.tokens = p
    BY <2>3
  <2>5. RequestIs(kept)
    BY <2>3, <2>4 DEF RequestIs
  <2> QED BY <2>1, <2>3, <2>5
<1> QED BY <1>1, <1>2, <1>3

\* record_target_baseline.
LEMMA BaselineIs ==
  ASSUME NEW a, RequestIs(a), NEW s \in Nat
  PROVE  /\ RequestIs(BaselineRecorded(a, s))
         /\ \A fd \in ActiveFields \ {"baseline"} : BaselineRecorded(a, s)[fd] = a[fd]
<1> DEFINE b == BaselineRecorded(a, s)
<1>1. b = [a EXCEPT !.baseline = s]
  BY DEF BaselineRecorded
<1> HIDE DEF b
<1>2. /\ DOMAIN b = ActiveFields /\ b.baseline = s
      /\ \A fd \in ActiveFields \ {"baseline"} : b[fd] = a[fd]
  BY <1>1 DEF RequestIs, ActiveFields
<1>3. /\ b.enabled = a.enabled /\ b.aligned = a.aligned /\ b.retain = a.retain
      /\ b.ledger = a.ledger /\ b.width = a.width /\ b.credit = a.credit /\ b.origin = a.origin
      /\ b.prompt = a.prompt /\ b.txn = a.txn
  BY <1>2 DEF ActiveFields
<1>4. RequestIs(b)
  BY <1>2, <1>3 DEF RequestIs
<1> QED BY <1>2, <1>4 DEF b

\* A proposal that failed keeps the state only where it was put back.
LEMMA ProposedIs ==
  ASSUME RequestIs(active), CacheIs(cache), NEW k \in Seq(Tokens), StandsAt(active, cache, k),
         active.aligned, NEW limit \in 1 .. DraftWidth, NEW drafts \in [1 .. DraftWidth -> Tokens],
         NEW f
  PROVE  LET r == Proposed(active, cache, limit, drafts, f)
         IN  /\ RequestIs(r.active) /\ CacheIs(r.cache)
             /\ r.active.aligned => StandsAt(r.active, r.cache, k)
             /\ r.active.txn # active.txn =>
                  /\ r.active.aligned
                  /\ r.active.txn.base = r.cache.rows /\ r.active.txn.pending = target.pending
             /\ r.active.prompt = active.prompt /\ r.active.credit = active.credit
             /\ r.active.enabled => active.enabled
             /\ r.active.resolved = active.resolved
<1> DEFINE r == Proposed(active, cache, limit, drafts, f)
           off == Disabled(active, FALSE, "none")
           fits == cache.length = Len(active.ledger) /\ Captures(cache, f)
           sick == How(f, "propose") \in {"refused", "contract"}
           category == IF How(f, "propose") = "refused" THEN "optional" ELSE "none"
<1>0. /\ active.ledger \in Seq(Tokens) /\ cache.rows \in Seq(Tokens)
      /\ active.ledger = k /\ cache.rows = k /\ active.retain \in BOOLEAN
  BY DEF RequestIs, CacheIs, StandsAt
<1>1. CASE ~fits
  <2>1. r = [active |-> off, cache |-> cache]
    BY <1>1 DEF Proposed
  <2>a. OffOf(off, active) /\ off.aligned = FALSE
    BY DisabledIs
  <2> HIDE DEF off, r
  <2>2. /\ RequestIs(off) /\ Same(off, active) /\ off.aligned = FALSE
        /\ off.prompt = active.prompt
    BY <2>a DEF OffOf
  <2>3. r.active = off /\ r.cache = cache
    BY <2>1
  <2> QED BY <2>2, <2>3 DEF Same, r
<1>2. CASE fits /\ sick
  <2> DEFINE back == Restored(cache, active.ledger, f)
             low == Disabled(active, back.ok /\ active.retain, category)
  <2>1. r = [active |-> low, cache |-> back.cache]
    BY <1>2 DEF Proposed, ProposalFailed
  <2>2. /\ CacheIs(back.cache) /\ back.ok \in BOOLEAN
        /\ back.ok => back.cache.rows = active.ledger /\ ~back.cache.stale
    BY <1>0, RestoredIs
  <2>3. (back.ok /\ active.retain) \in BOOLEAN
    BY <1>0, <2>2
  <2>a. OffOf(low, active) /\ low.aligned = (back.ok /\ active.retain)
    BY <2>3, DisabledIs
  <2> HIDE DEF back, low, r, category
  <2>4. /\ RequestIs(low) /\ Same(low, active) /\ low.ledger = active.ledger
        /\ low.aligned = (back.ok /\ active.retain) /\ low.prompt = active.prompt
    BY <2>a DEF OffOf
  <2>5. r.active = low /\ r.cache = back.cache
    BY <2>1
  <2>6. low.aligned => StandsAt(low, back.cache, k)
    BY <1>0, <2>2, <2>4 DEF StandsAt
  <2> QED BY <2>2, <2>4, <2>5, <2>6 DEF Same, r
<1>3. CASE fits /\ ~sick
  <2> DEFINE width == IF limit < active.width THEN limit ELSE active.width
             txn == [drafts |-> SubSeq(drafts, 1, width), base |-> cache.rows,
                     pending |-> target.pending, probe |-> ~active.qualified]
             asks == [active EXCEPT !.txn = txn]
  <2>1. r = [active |-> asks, cache |-> cache]
    BY <1>3 DEF Proposed
  <2>2. width \in Nat /\ width <= DraftWidth
    <3>1. active.width \in Nat
      BY DEF RequestIs
    <3>2. limit \in Nat /\ limit <= DraftWidth
      BY DSparkAssumption
    <3> HIDE DEF r, off, fits, sick, category, txn, asks
    <3>3. CASE limit < active.width
      BY <3>2, <3>3
    <3>4. CASE ~(limit < active.width)
      <4>1. active.width <= limit /\ DraftWidth \in Nat
        BY <3>1, <3>2, <3>4, DSparkAssumption
      <4>2. active.width <= DraftWidth
        BY <3>1, <3>2, <4>1
      <4> QED BY <3>1, <3>4, <4>2
    <3> QED BY <3>3, <3>4
  <2>3. SubSeq(drafts, 1, width) \in Seq(Tokens)
    <3>1. drafts \in Seq(Tokens) /\ Len(drafts) = DraftWidth
      BY DSparkAssumption
    <3> HIDE DEF width
    <3> QED BY <2>2, <3>1, SubSeqProperties
  <2> HIDE DEF width
  <2>4. txn.drafts \in Seq(Tokens) /\ txn.base = cache.rows /\ txn.pending = target.pending
    BY <2>3
  <2> HIDE DEF txn
  <2>5. /\ DOMAIN asks = ActiveFields /\ asks.enabled = active.enabled
        /\ asks.aligned = active.aligned /\ asks.retain = active.retain
        /\ asks.ledger = active.ledger /\ asks.width = active.width
        /\ asks.baseline = active.baseline /\ asks.credit = active.credit
        /\ asks.prompt = active.prompt /\ asks.resolved = active.resolved
        /\ asks.origin = active.origin /\ asks.txn = txn
    BY DEF RequestIs, ActiveFields
  <2> HIDE DEF asks, r
  <2>6. RequestIs(asks) /\ StandsAt(asks, cache, k)
    BY <1>0, <2>4, <2>5 DEF RequestIs, StandsAt
  <2>7. r.active = asks /\ r.cache = cache
    BY <2>1
  <2> QED BY <2>4, <2>5, <2>6, <2>7 DEF r
<1> QED BY <1>1, <1>2, <1>3

\* abort_proposal: the base is back, or the request is no longer aligned.
LEMMA AbortedIs ==
  ASSUME NEW a, RequestIs(a), NEW c, CacheIs(c), NEW k \in Seq(Tokens),
         a.aligned => StandsAt(a, c, k), a.txn # None => a.txn.base = c.rows, NEW f
  PROVE  LET r == Aborted(a, c, f)
         IN  /\ RequestIs(r.active) /\ CacheIs(r.cache) /\ r.active.txn = None
             /\ r.active.aligned => StandsAt(r.active, r.cache, k)
             /\ r.active.prompt = a.prompt /\ r.active.origin = a.origin
             /\ r.active.credit = a.credit
             /\ r.active.enabled => a.enabled
             /\ r.active.resolved = a.resolved
             /\ r.active.aligned => a.aligned
<1> DEFINE r == Aborted(a, c, f)
           b == [a EXCEPT !.txn = None]
           back == Restored(c, a.txn.base, f)
           off == Disabled(b, FALSE, b.category)
<1>1. CASE a.txn = None
  <2>1. r = [active |-> a, cache |-> c]
    BY <1>1 DEF Aborted
  <2> QED BY <1>1, <2>1
<1>2. CASE a.txn # None
  <2>1. a.txn.base \in Seq(Tokens) /\ a.txn.base = c.rows
    BY <1>2 DEF RequestIs
  <2>2. /\ CacheIs(back.cache) /\ back.ok \in BOOLEAN
        /\ back.ok => back.cache.rows = c.rows /\ ~back.cache.stale
    BY <2>1, RestoredIs
  <2>3. /\ DOMAIN b = ActiveFields /\ b.enabled = a.enabled /\ b.aligned = a.aligned
        /\ b.retain = a.retain /\ b.ledger = a.ledger /\ b.width = a.width
        /\ b.baseline = a.baseline /\ b.credit = a.credit /\ b.prompt = a.prompt
        /\ b.resolved = a.resolved /\ b.origin = a.origin /\ b.txn = None
    BY DEF RequestIs, ActiveFields
  <2>4. r = [active |-> IF back.ok THEN b ELSE off, cache |-> back.cache]
    BY <1>2 DEF Aborted
  <2> HIDE DEF b, back, r
  <2>5. RequestIs(b)
    BY <2>3 DEF RequestIs
  <2>a. OffOf(off, b) /\ off.aligned = FALSE
    BY <2>5, DisabledIs
  <2> HIDE DEF off
  <2>6. /\ RequestIs(off) /\ Same(off, b) /\ off.aligned = FALSE /\ off.prompt = b.prompt
        /\ off.origin = b.origin /\ off.enabled = FALSE
    BY <2>a DEF OffOf
  <2>7. r.active = (IF back.ok THEN b ELSE off) /\ r.cache = back.cache
    BY <2>4
  <2>8. CASE back.ok
    <3>1. b.aligned => StandsAt(b, back.cache, k)
      BY <2>2, <2>3, <2>8 DEF StandsAt
    <3> QED BY <2>2, <2>3, <2>5, <2>7, <2>8, <3>1 DEF r
  <2>9. CASE ~back.ok
    <3>1. off.txn = None /\ off.credit = a.credit /\ off.resolved = a.resolved
      BY <2>3, <2>6 DEF Same
    <3> QED BY <2>2, <2>3, <2>6, <2>7, <2>9, <3>1 DEF r
  <2> QED BY <2>8, <2>9
<1> QED BY <1>1, <1>2

\* The policy after a verified step changes neither where the request stands
\* nor what has been credited to it.
LEMMA JudgedIs ==
  ASSUME NEW a, RequestIs(a), NEW n \in Nat, NEW total \in Nat
  PROVE  LET j == Judged(a, n, total)
         IN  RequestIs(j) /\ Same(j, a) /\ j.ledger = a.ledger
<1> DEFINE j == Judged(a, n, total)
           late == a.misses + 1 >= MissTolerance
           q == a.qualified \/ (dmode # "auto" /\ total >= ProbeDrafts)
           wide == IF q THEN DraftWidth ELSE ProbeDrafts
           full == [a EXCEPT !.qualified = q, !.width = wide, !.misses = 0]
           miss == [a EXCEPT !.misses = a.misses + 1]
           part == [a EXCEPT !.misses = a.misses + 1, !.width = ProbeDrafts]
           some == [a EXCEPT !.width = Widened(n), !.misses = 0]
<1>1. /\ j = full \/ j = part \/ j = some \/ j = Disabled(miss, a.retain, "acceptance")
  BY DEF Judged
<1>2. wide \in Nat /\ ProbeDrafts \in Nat /\ Widened(n) \in Nat
  BY DSparkAssumption DEF Widened
<1> HIDE DEF j, wide
<1>3. RequestIs(full) /\ Same(full, a) /\ full.ledger = a.ledger
  <2>1. /\ DOMAIN full = ActiveFields /\ full.enabled = a.enabled /\ full.aligned = a.aligned
        /\ full.retain = a.retain /\ full.ledger = a.ledger /\ full.width = wide
        /\ full.baseline = a.baseline /\ full.credit = a.credit /\ full.prompt = a.prompt
        /\ full.resolved = a.resolved /\ full.origin = a.origin /\ full.txn = a.txn
    BY DEF RequestIs, ActiveFields
  <2> HIDE DEF full
  <2> QED BY <1>2, <2>1 DEF RequestIs, Same
<1>4. RequestIs(part) /\ Same(part, a) /\ part.ledger = a.ledger
  <2>1. /\ DOMAIN part = ActiveFields /\ part.enabled = a.enabled /\ part.aligned = a.aligned
        /\ part.retain = a.retain /\ part.ledger = a.ledger /\ part.width = ProbeDrafts
        /\ part.baseline = a.baseline /\ part.credit = a.credit /\ part.prompt = a.prompt
        /\ part.resolved = a.resolved /\ part.origin = a.origin /\ part.txn = a.txn
    BY DEF RequestIs, ActiveFields
  <2> HIDE DEF part
  <2> QED BY <1>2, <2>1 DEF RequestIs, Same
<1>5. RequestIs(some) /\ Same(some, a) /\ some.ledger = a.ledger
  <2>1. /\ DOMAIN some = ActiveFields /\ some.enabled = a.enabled /\ some.aligned = a.aligned
        /\ some.retain = a.retain /\ some.ledger = a.ledger /\ some.width = Widened(n)
        /\ some.baseline = a.baseline /\ some.credit = a.credit /\ some.prompt = a.prompt
        /\ some.resolved = a.resolved /\ some.origin = a.origin /\ some.txn = a.txn
    BY DEF RequestIs, ActiveFields
  <2> HIDE DEF some
  <2> QED BY <1>2, <2>1 DEF RequestIs, Same
<1>6. RequestIs(miss) /\ Same(miss, a) /\ miss.ledger = a.ledger
  <2>1. /\ DOMAIN miss = ActiveFields /\ miss.enabled = a.enabled /\ miss.aligned = a.aligned
        /\ miss.retain = a.retain /\ miss.ledger = a.ledger /\ miss.width = a.width
        /\ miss.baseline = a.baseline /\ miss.credit = a.credit /\ miss.prompt = a.prompt
        /\ miss.resolved = a.resolved /\ miss.origin = a.origin /\ miss.txn = a.txn
    BY DEF RequestIs, ActiveFields
  <2> HIDE DEF miss
  <2> QED BY <2>1 DEF RequestIs, Same
<1> DEFINE off == Disabled(miss, a.retain, "acceptance")
<1> HIDE DEF full, part, some, miss
<1>7. RequestIs(off) /\ Same(off, a) /\ off.ledger = a.ledger
  <2>1. a.retain \in BOOLEAN
    BY DEF RequestIs
  <2>a. miss.retain \in BOOLEAN
    BY <1>6, <2>1 DEF Same
  <2>b. OffOf(off, miss)
    BY <1>6, <2>1, DisabledIs, Zenon
  <2> HIDE DEF off
  <2>2. RequestIs(off) /\ Same(off, miss) /\ off.ledger = miss.ledger
    BY <2>b DEF OffOf
  <2> QED BY <1>6, <2>2, SameIsTransitive
<1> HIDE DEF off
<1>8. j = full \/ j = part \/ j = some \/ j = off
  BY <1>1 DEF off
<1>9. CASE j = full
  BY <1>3, <1>9 DEF j
<1>10. CASE j = part
  BY <1>4, <1>10 DEF j
<1>11. CASE j = some
  BY <1>5, <1>11 DEF j
<1>12. CASE j = off
  BY <1>7, <1>12 DEF j
<1> QED BY <1>8, <1>9, <1>10, <1>11, <1>12

\* A balance of non-negative numbers is a number; a probe that earned something
\* did not lose.
LEMMA CreditIs ==
  ASSUME NEW b \in Nat, NEW n \in Nat, NEW s \in Nat, NEW k \in Int
  PROVE  /\ b * n \in Nat /\ b * n - s \in Int /\ k + (b * n - s) \in Int
         /\ 100 * (b * n - s) >= 3 * (b * n) => b * n - s >= 0
<1>1. b * n \in Nat
  BY SMT
<1> DEFINE e == b * n
<1>2. e \in Nat
  BY <1>1
<1> HIDE DEF e
<1>3. /\ e - s \in Int /\ k + (e - s) \in Int
      /\ 100 * (e - s) >= 3 * e => e - s >= 0
  BY <1>2
<1> QED BY <1>1, <1>3 DEF e

\* record_verified_step: the request that goes on drafting has not lost.
LEMMA TimedIs ==
  ASSUME NEW a, RequestIs(a), NEW s \in Nat,
         a.resolved # None => a.resolved.emitted \in Nat,
         dmode = "auto" /\ a.enabled => a.credit >= 0
  PROVE  LET t == Timed(a, s)
         IN  /\ RequestIs(t) /\ t.ledger = a.ledger /\ t.txn = a.txn /\ t.prompt = a.prompt
             /\ t.resolved = None
             /\ a.resolved = None => t = a
             /\ dmode = "auto" /\ t.enabled => t.credit >= 0
<1> DEFINE t == Timed(a, s)
           expected == a.baseline * a.resolved.emitted
           credit == IF a.baseline = 0 THEN 0 ELSE expected - s
           b == [a EXCEPT !.resolved = None, !.credit = a.credit + credit]
           losses == IF credit < -a.baseline THEN b.losses + 1
                     ELSE IF credit >= 0 THEN 0 ELSE b.losses
           probe == a.resolved.probe /\ a.resolved.full /\ ~b.qualified
           on == [b EXCEPT !.qualified = TRUE, !.width = DraftWidth]
           lose == [b EXCEPT !.losses = losses]
<1>1. CASE a.resolved = None
  <2>1. t = a
    BY <1>1 DEF Timed
  <2> QED BY <1>1, <2>1
<1>2. CASE a.resolved # None
  <2>0. /\ a.baseline \in Nat /\ a.credit \in Int /\ a.retain \in BOOLEAN
        /\ a.resolved.emitted \in Nat
    BY <1>2 DEF RequestIs
  <2>1. credit \in Int /\ a.credit + credit \in Int
    BY <2>0, CreditIs
  <2>2. 100 * credit >= 3 * expected => credit >= 0
    BY <2>0, CreditIs
  <2>3. \/ t = b /\ (dmode # "auto" \/ ~b.enabled)
        \/ t = Disabled(b, b.retain, "economics")
        \/ t = on /\ 100 * credit >= 3 * expected /\ dmode = "auto" /\ b.enabled
        \/ t = Disabled(lose, b.retain, "economics")
        \/ t = lose /\ dmode = "auto" /\ b.enabled /\ ~(b.credit < 0)
    BY <1>2 DEF Timed
  <2> HIDE DEF t, expected, credit, losses
  <2>4. /\ DOMAIN b = ActiveFields /\ b.enabled = a.enabled /\ b.aligned = a.aligned
        /\ b.retain = a.retain /\ b.ledger = a.ledger /\ b.width = a.width
        /\ b.baseline = a.baseline /\ b.credit = a.credit + credit /\ b.prompt = a.prompt
        /\ b.resolved = None /\ b.origin = a.origin /\ b.txn = a.txn
    BY DEF RequestIs, ActiveFields
  <2> HIDE DEF b
  <2>5. RequestIs(b)
    BY <2>1, <2>4 DEF RequestIs
  <2>6. /\ DOMAIN on = ActiveFields /\ on.enabled = b.enabled /\ on.aligned = b.aligned
        /\ on.retain = b.retain /\ on.ledger = b.ledger /\ on.width = DraftWidth
        /\ on.baseline = b.baseline /\ on.credit = b.credit /\ on.prompt = b.prompt
        /\ on.resolved = b.resolved /\ on.origin = b.origin /\ on.txn = b.txn
    BY <2>4 DEF ActiveFields
  <2>7. /\ DOMAIN lose = ActiveFields /\ lose.enabled = b.enabled /\ lose.aligned = b.aligned
        /\ lose.retain = b.retain /\ lose.ledger = b.ledger /\ lose.width = b.width
        /\ lose.baseline = b.baseline /\ lose.credit = b.credit /\ lose.prompt = b.prompt
        /\ lose.resolved = b.resolved /\ lose.origin = b.origin /\ lose.txn = b.txn
    BY <2>4 DEF ActiveFields
  <2> HIDE DEF on, lose
  <2>8. RequestIs(on) /\ RequestIs(lose)
    BY <2>5, <2>6, <2>7, DSparkAssumption DEF RequestIs
  <2>9. b.retain \in BOOLEAN
    BY <2>0, <2>4
  <2> DEFINE off == Disabled(b, b.retain, "economics")
             out == Disabled(lose, b.retain, "economics")
  <2>a. OffOf(off, b)
    BY <2>5, <2>9, DisabledIs, Zenon
  <2>b. OffOf(out, lose)
    BY <2>8, <2>9, DisabledIs, Zenon
  <2>12. t = b \/ t = off \/ t = on \/ t = out \/ t = lose
    BY <2>3
  <2>h. \/ t = b /\ (dmode # "auto" \/ ~b.enabled)
        \/ t = off
        \/ t = on /\ 100 * credit >= 3 * expected /\ dmode = "auto" /\ b.enabled
        \/ t = out
        \/ t = lose /\ dmode = "auto" /\ b.enabled /\ ~(b.credit < 0)
    BY <2>3
  <2> HIDE DEF off, out
  <2>10. /\ RequestIs(off) /\ Same(off, b) /\ off.ledger = b.ledger /\ off.prompt = b.prompt
         /\ off.enabled = FALSE
    BY <2>a DEF OffOf
  <2>11. /\ RequestIs(out) /\ Same(out, lose) /\ out.ledger = lose.ledger
         /\ out.prompt = lose.prompt /\ out.enabled = FALSE
    BY <2>b DEF OffOf
  <2>13. dmode = "auto" /\ t.enabled => t.credit >= 0
    <3>1. b.credit \in Int
      BY <2>1, <2>4
    <3>2. CASE t = b /\ (dmode # "auto" \/ ~b.enabled)
      BY <3>2
    <3>3. CASE t = off
      BY <2>10, <3>3
    <3>4. CASE t = on /\ 100 * credit >= 3 * expected /\ dmode = "auto" /\ b.enabled
      <4>1. credit >= 0 /\ a.credit >= 0
        BY <2>2, <2>4, <3>4
      <4>2. a.credit + credit >= 0
        BY <2>0, <2>1, <4>1
      <4> QED BY <2>4, <2>6, <3>4, <4>2
    <3>5. CASE t = out
      BY <2>11, <3>5
    <3>6. CASE t = lose /\ dmode = "auto" /\ b.enabled /\ ~(b.credit < 0)
      <4>1. b.credit >= 0
        BY <3>1, <3>6
      <4> QED BY <2>7, <3>6, <4>1
    <3> QED BY <2>h, <3>2, <3>3, <3>4, <3>5, <3>6
  <2>14. /\ RequestIs(t) /\ t.ledger = a.ledger /\ t.txn = a.txn /\ t.prompt = a.prompt
         /\ t.resolved = None
    <3>1. off.txn = b.txn /\ off.resolved = b.resolved /\ out.txn = b.txn
          /\ out.resolved = b.resolved
      BY <2>7, <2>10, <2>11 DEF Same
    <3>2. CASE t = b
      BY <2>4, <2>5, <3>2
    <3>3. CASE t = off
      BY <2>4, <2>10, <3>1, <3>3
    <3>4. CASE t = on
      BY <2>4, <2>6, <2>8, <3>4
    <3>5. CASE t = out
      BY <2>4, <2>7, <2>11, <3>1, <3>5
    <3>6. CASE t = lose
      BY <2>4, <2>7, <2>8, <3>6
    <3> QED BY <2>12, <3>2, <3>3, <3>4, <3>5, <3>6
  <2> QED BY <1>2, <2>13, <2>14 DEF t
<1> QED BY <1>1, <1>2

\* resolve: the drafter has entered what the target committed, or is no longer
\* aligned; only a step that was entered is left to be timed.
LEMMA ResolvedIs ==
  ASSUME NEW a, RequestIs(a), NEW c, CacheIs(c), NEW k \in Seq(Tokens), StandsAt(a, c, k),
         a.txn # None, a.txn.base = c.rows, a.resolved = None, NEW n \in Nat,
         NEW emitted \in Seq(Tokens), NEW w, NEW f,
         CommittedInputs(a.txn, emitted) \in Seq(Tokens)
  PROVE  LET r == Resolved(a, c, n, emitted, w, f)
         IN  /\ RequestIs(r.active) /\ CacheIs(r.cache) /\ r.active.txn = None
             /\ r.active.aligned =>
                  StandsAt(r.active, r.cache, k \o CommittedInputs(a.txn, emitted))
             /\ r.active.resolved # None =>
                  /\ r.active.resolved.emitted \in Nat
                  /\ StandsAt(r.active, r.cache, k \o CommittedInputs(a.txn, emitted))
             /\ r.active.prompt = a.prompt \/ r.active.prompt = None
             /\ r.active.credit = a.credit
             /\ r.active.enabled => a.enabled
<1> DEFINE r == Resolved(a, c, n, emitted, w, f)
           ins == CommittedInputs(a.txn, emitted)
           back == Restored(c, a.txn.base, f)
           b == [a EXCEPT !.txn = None]
           up == Advanced(b, back.cache, ins, f)
           grown == [drafted |-> w.drafted + Len(a.txn.drafts), accepted |-> w.accepted + n]
           kept == IF TrailingPercent = 0 THEN w ELSE grown
           lost == Disabled(b, FALSE, "none")
           fired == Disabled(up.active, a.retain, "acceptance")
           rec == [n |-> n, emitted |-> Len(emitted), probe |-> a.txn.probe,
                   full |-> n = Len(a.txn.drafts)]
           noted == [up.active EXCEPT !.resolved = rec]
           total == Len(a.txn.drafts)
           judged == Judged(noted, n, total)
<1>1. /\ r.active = IF ~back.ok THEN lost ELSE IF ~up.ok THEN up.active
                    ELSE IF Fires(kept) THEN fired ELSE judged
      /\ r.cache = IF ~back.ok THEN back.cache ELSE up.cache
  <2>1. CASE ~back.ok
    <3>1. r = [active |-> lost, cache |-> back.cache, window |-> w]
      BY <2>1 DEF Resolved
    <3> QED BY <2>1, <3>1
  <2>2. CASE back.ok /\ ~up.ok
    <3>1. r = [active |-> up.active, cache |-> up.cache, window |-> w]
      BY <2>2 DEF Resolved
    <3> QED BY <2>2, <3>1
  <2>3. CASE back.ok /\ up.ok /\ Fires(kept)
    <3>1. r = [active |-> fired, cache |-> up.cache, window |-> kept]
      BY <2>3 DEF Resolved
    <3> QED BY <2>3, <3>1
  <2>4. CASE back.ok /\ up.ok /\ ~Fires(kept)
    <3>1. r = [active |-> judged, cache |-> up.cache, window |-> Decayed(kept)]
      BY <2>4 DEF Resolved
    <3> QED BY <2>4, <3>1
  <2> QED BY <2>1, <2>2, <2>3, <2>4
<1>2. /\ a.txn.drafts \in Seq(Tokens) /\ a.txn.base \in Seq(Tokens) /\ a.retain \in BOOLEAN
      /\ Len(emitted) \in Nat /\ ins \in Seq(Tokens)
  BY DEF RequestIs
<1>3. total \in Nat
  BY <1>2
<1>4. /\ CacheIs(back.cache) /\ back.ok \in BOOLEAN
      /\ back.ok => back.cache.rows = c.rows /\ ~back.cache.stale
  BY <1>2, RestoredIs
<1>5. /\ DOMAIN b = ActiveFields /\ b.enabled = a.enabled /\ b.aligned = a.aligned
      /\ b.retain = a.retain /\ b.ledger = a.ledger /\ b.width = a.width
      /\ b.baseline = a.baseline /\ b.credit = a.credit /\ b.prompt = a.prompt
      /\ b.resolved = None /\ b.origin = a.origin /\ b.txn = None
  BY DEF RequestIs, ActiveFields
<1> HIDE DEF b, back, r, ins, kept, total
<1>6. RequestIs(b)
  BY <1>5 DEF RequestIs
<1>7. CASE ~back.ok
  <2>1. OffOf(lost, b) /\ lost.aligned = FALSE
    BY <1>6, DisabledIs
  <2> HIDE DEF lost
  <2>2. r.active = lost /\ r.cache = back.cache
    BY <1>1, <1>7
  <2>3. /\ RequestIs(lost) /\ lost.txn = None /\ lost.resolved = None /\ lost.prompt = a.prompt
        /\ lost.credit = a.credit /\ lost.enabled = FALSE
    BY <1>5, <2>1 DEF OffOf, Same
  <2> QED BY <1>4, <2>1, <2>2, <2>3 DEF r
<1>8. CASE back.ok
  <2>1. StandsAt(b, back.cache, k)
    BY <1>4, <1>5, <1>8 DEF StandsAt
  <2>2. /\ RequestIs(up.active) /\ CacheIs(up.cache) /\ up.ok \in BOOLEAN
        /\ Same(up.active, b)
        /\ up.ok => StandsAt(up.active, up.cache, k \o ins)
        /\ ~up.ok => ~up.active.aligned
    BY <1>2, <1>4, <1>6, <2>1, AdvancedIs
  <2> HIDE DEF up
  <2>3. /\ up.active.txn = None /\ up.active.resolved = None /\ up.active.credit = a.credit
        /\ up.active.prompt = a.prompt \/ up.active.prompt = None
        /\ up.active.enabled => a.enabled
    BY <1>5, <2>2 DEF Same
  <2>4. CASE ~up.ok
    <3>1. r.active = up.active /\ r.cache = up.cache
      BY <1>1, <1>8, <2>4
    <3> QED BY <2>2, <2>3, <2>4, <3>1 DEF r, ins
  <2>5. CASE up.ok /\ Fires(kept)
    <3>1. OffOf(fired, up.active)
      BY <1>2, <2>2, DisabledIs, Zenon
    <3>2. r.active = fired /\ r.cache = up.cache
      BY <1>1, <1>8, <2>5
    <3> HIDE DEF fired
    <3>3. /\ RequestIs(fired) /\ fired.txn = None /\ fired.resolved = None
          /\ fired.credit = a.credit /\ fired.enabled = FALSE
          /\ fired.prompt = a.prompt \/ fired.prompt = None
          /\ fired.ledger = up.active.ledger
      BY <2>3, <3>1 DEF OffOf, Same
    <3>4. StandsAt(fired, up.cache, k \o ins)
      BY <2>2, <2>5, <3>3 DEF StandsAt
    <3> QED BY <2>2, <3>2, <3>3, <3>4 DEF r, ins
  <2>6. CASE up.ok /\ ~Fires(kept)
    <3> DEFINE u == up.active
    <3>1. /\ DOMAIN noted = ActiveFields /\ noted.enabled = u.enabled
          /\ noted.aligned = u.aligned /\ noted.retain = u.retain /\ noted.ledger = u.ledger
          /\ noted.width = u.width /\ noted.baseline = u.baseline /\ noted.credit = u.credit
          /\ noted.prompt = u.prompt /\ noted.origin = u.origin /\ noted.txn = u.txn
          /\ noted.resolved = rec
      BY <2>2 DEF RequestIs, ActiveFields
    <3>2. rec.emitted = Len(emitted)
      OBVIOUS
    <3>3. r.active = judged /\ r.cache = up.cache
      BY <1>1, <1>8, <2>6
    <3> HIDE DEF noted, rec
    <3>4. RequestIs(noted)
      BY <2>2, <3>1 DEF RequestIs
    <3>5. RequestIs(judged) /\ Same(judged, noted) /\ judged.ledger = noted.ledger
      BY <1>3, <3>4, JudgedIs
    <3> HIDE DEF judged
    <3>6. /\ judged.txn = None /\ judged.resolved = rec /\ judged.credit = a.credit
          /\ judged.prompt = a.prompt \/ judged.prompt = None
          /\ judged.enabled => a.enabled
          /\ judged.ledger = u.ledger
      BY <2>3, <3>1, <3>5 DEF Same
    <3>7. StandsAt(judged, up.cache, k \o ins)
      BY <2>2, <2>6, <3>6 DEF StandsAt
    <3>8. judged.resolved.emitted \in Nat
      BY <1>2, <3>2, <3>6
    <3> QED BY <2>2, <3>3, <3>5, <3>6, <3>7, <3>8 DEF r, ins
  <2> QED BY <2>2, <2>4, <2>5, <2>6
<1> QED BY <1>4, <1>7, <1>8

\* begin_request: a request that starts aligned stands where the target starts.
LEMMA OpeningIs ==
  ASSUME CacheIs(cache), Published, NEW p \in Seq(Tokens), NEW hit \in BOOLEAN, NEW f,
         hit => target.boundary # None
  PROVE  LET o == Opening(p, hit, f)
         IN  /\ CacheIs(o.cache) /\ o.ledger \in Seq(Tokens) /\ o.ok \in BOOLEAN
             /\ o.origin # None => o.origin.rows \in Seq(Tokens)
             /\ o.ok => /\ ~o.cache.stale /\ o.cache.rows = o.ledger
                        /\ o.ledger = IF hit THEN target.boundary.tokens ELSE <<>>
<1> DEFINE o == Opening(p, hit, f)
           off(c) == [cache |-> c, ledger |-> <<>>, ok |-> FALSE, origin |-> None]
           zero == Reset(cache, f)
           back == Restored(cache, pub.rows, f)
           near == Released(cache, f)
           far == Released(back.cache, f)
<1>0. <<>> \in Seq(Tokens) /\ Len(p) \in Nat
  OBVIOUS
<1>1. ASSUME NEW c, CacheIs(c), o = off(c)
      PROVE  /\ CacheIs(o.cache) /\ o.ledger \in Seq(Tokens) /\ o.ok = FALSE
             /\ o.origin = None
  BY <1>0, <1>1
<1>2. /\ CacheIs(zero.cache) /\ CacheIs(near) /\ zero.ok \in BOOLEAN
      /\ zero.ok => zero.cache.rows = <<>> /\ ~zero.cache.stale
  BY ReleasedIs
<1>3. CASE dmode = "off"
  <2>1. o = off(cache)
    BY <1>3 DEF Opening
  <2> QED BY <1>1, <2>1
<1>4. CASE dmode # "off" /\ Len(p) > SafeContext
  <2>0. ~(Len(p) <= SafeContext)
    BY <1>0, <1>4, DSparkAssumption
  <2>1. o = off(near)
    BY <1>4, <2>0 DEF Opening
  <2> QED BY <1>1, <1>2, <2>1
<1>5. CASE dmode # "off" /\ Len(p) <= SafeContext /\ ~hit
  <2> DEFINE fresh == [cache |-> zero.cache, ledger |-> <<>>, ok |-> TRUE,
                       origin |-> [rows |-> <<>>]]
  <2>1. o = IF zero.ok /\ Captures(zero.cache, f) THEN fresh ELSE off(zero.cache)
    <3>1. ~(Len(p) > SafeContext)
      BY <1>0, <1>5, DSparkAssumption
    <3> QED BY <1>5, <3>1 DEF Opening
  <2>2. CASE zero.ok /\ Captures(zero.cache, f)
    <3>1. o = fresh
      BY <2>1, <2>2
    <3> HIDE DEF o, zero
    <3>2. /\ o.cache = zero.cache /\ o.ledger = <<>> /\ o.ok = TRUE
          /\ o.origin.rows = <<>>
      BY <3>1
    <3> QED BY <1>0, <1>2, <1>5, <2>2, <3>2 DEF o
  <2>3. CASE ~(zero.ok /\ Captures(zero.cache, f))
    <3>1. o = off(zero.cache)
      BY <2>1, <2>3
    <3> QED BY <1>1, <1>2, <3>1
  <2> QED BY <2>2, <2>3
<1>6. CASE dmode # "off" /\ Len(p) <= SafeContext /\ hit
  <2> DEFINE resumed == [cache |-> back.cache, ledger |-> pub.tokens, ok |-> TRUE,
                         origin |-> [rows |-> pub.rows]]
  <2>1. o = IF ~PrefixMatches(p, target.boundary) THEN off(near)
            ELSE IF back.ok THEN resumed ELSE off(far)
    <3>1. ~(Len(p) > SafeContext)
      BY <1>0, <1>6, DSparkAssumption
    <3> QED BY <1>6, <3>1 DEF Opening
  <2>2. CASE ~PrefixMatches(p, target.boundary)
    <3>1. o = off(near)
      BY <2>1, <2>2
    <3> QED BY <1>1, <1>2, <3>1
  <2>3. CASE PrefixMatches(p, target.boundary)
    <3>1. pub # None /\ pub.id = target.boundary.id /\ target.boundary # None
      BY <1>6, <2>3 DEF PrefixMatches
    <3>2. /\ pub.tokens \in Seq(Tokens) /\ pub.rows = pub.tokens
          /\ target.boundary.tokens = pub.tokens
      BY <3>1 DEF Published
    <3>3. /\ CacheIs(back.cache) /\ back.ok \in BOOLEAN
          /\ back.ok => back.cache.rows = pub.rows /\ ~back.cache.stale
      BY <3>2, RestoredIs
    <3>4. CASE back.ok
      <4>1. o = resumed
        BY <2>1, <2>3, <3>4
      <4> HIDE DEF o, back
      <4>2. /\ o.cache = back.cache /\ o.ledger = pub.tokens /\ o.ok = TRUE
            /\ o.origin.rows = pub.rows
        BY <4>1
      <4> QED BY <1>6, <3>2, <3>3, <3>4, <4>2 DEF o
    <3>5. CASE ~back.ok
      <4>1. o = off(far)
        BY <2>1, <2>3, <3>5
      <4>2. CacheIs(far)
        BY <3>3, ReleasedIs
      <4> QED BY <1>1, <4>1, <4>2
    <3> QED BY <3>4, <3>5
  <2> QED BY <2>2, <2>3
<1> QED BY <1>0, <1>3, <1>4, <1>5, <1>6, DSparkAssumption

\* begin_request, as a whole.
LEMMA BegunIs ==
  ASSUME CacheIs(cache), Published, NEW p \in Seq(Tokens), NEW reuse \in BOOLEAN,
         NEW hit \in BOOLEAN, NEW f, hit => target.boundary # None,
         BeginDraftRequest(p, reuse, hit, f)
  PROVE  /\ CacheIs(cache') /\ RequestIs(active')
         /\ active'.resolved = None /\ active'.txn = None /\ active'.prompt = None
         /\ active'.credit = 0
         /\ active'.aligned =>
              StandsAt(active', cache', IF hit THEN target.boundary.tokens ELSE <<>>)
         /\ pub' = pub \/ pub' = None
<1> DEFINE o == Opening(p, hit, f)
<1>1. /\ CacheIs(o.cache) /\ o.ledger \in Seq(Tokens) /\ o.ok \in BOOLEAN
      /\ o.origin # None => o.origin.rows \in Seq(Tokens)
      /\ o.ok => /\ ~o.cache.stale /\ o.cache.rows = o.ledger
                 /\ o.ledger = IF hit THEN target.boundary.tokens ELSE <<>>
  BY OpeningIs
<1>2. /\ cache' = o.cache /\ (pub' = pub \/ pub' = None)
      /\ active' = [enabled |-> o.ok, aligned |-> o.ok, retain |-> reuse, qualified |-> FALSE,
                    width |-> ProbeDrafts, category |-> "none", ledger |-> o.ledger,
                    prompt |-> None, origin |-> o.origin, txn |-> None, baseline |-> 0,
                    credit |-> 0, losses |-> 0, misses |-> 0, resolved |-> None]
  BY DEF BeginDraftRequest
<1> HIDE DEF o
<1>3. /\ DOMAIN active' = ActiveFields /\ active'.enabled = o.ok /\ active'.aligned = o.ok
      /\ active'.retain = reuse /\ active'.width = ProbeDrafts /\ active'.ledger = o.ledger
      /\ active'.prompt = None /\ active'.origin = o.origin /\ active'.txn = None
      /\ active'.baseline = 0 /\ active'.credit = 0 /\ active'.resolved = None
  BY <1>2 DEF ActiveFields
<1>4. RequestIs(active')
  BY <1>1, <1>3, DSparkAssumption DEF RequestIs
<1>5. active'.aligned =>
        StandsAt(active', cache', IF hit THEN target.boundary.tokens ELSE <<>>)
  BY <1>1, <1>2, <1>3 DEF StandsAt
<1> QED BY <1>1, <1>2, <1>3, <1>4, <1>5

-----------------------------------------------------------------------------
(* Publication and abortion.                                                 *)

\* abort_request leaves a cache.
LEMMA RequestAbortedIs ==
  ASSUME NEW a, RequestIs(a), NEW c, CacheIs(c), NEW k \in Seq(Tokens),
         a.aligned => StandsAt(a, c, k), a.txn # None => a.txn.base = c.rows, NEW f
  PROVE  CacheIs(RequestAborted(a, c, f))
<1> DEFINE undone == Aborted(a, c, f)
           u == undone.active
           back == IF u.prompt # None THEN u.prompt.rows
                   ELSE IF u.origin # None THEN u.origin.rows ELSE <<>>
<1>1. RequestIs(u) /\ CacheIs(undone.cache)
  BY AbortedIs
<1>2. RequestAborted(a, c, f) = IF u.aligned /\ (u.prompt # None \/ u.origin # None)
                                THEN Restored(undone.cache, back, f).cache ELSE undone.cache
  BY DEF RequestAborted
<1> HIDE DEF undone
<1>3. back \in Seq(Tokens)
  BY <1>1, EmptySeq DEF RequestIs
<1> HIDE DEF back
<1>4. CacheIs(Restored(undone.cache, back, f).cache)
  BY <1>1, <1>3, RestoredIs
<1> QED BY <1>1, <1>2, <1>4

\* What is staged is labelled with its rows.
LEMMA StagedIs ==
  ASSUME RequestIs(active), CacheIs(cache),
         active.aligned => StandsAt(active, cache, target.committed),
         active.prompt # None => active.prompt.tokens = target.prompt, NEW f
  PROVE  /\ FinalStaged(active, target.committed, f) # None =>
              /\ FinalStaged(active, target.committed, f).tokens = target.committed
              /\ FinalStaged(active, target.committed, f).rows = target.committed
         /\ PromptStaged(active, f) # None =>
              /\ PromptStaged(active, f).tokens = target.prompt
              /\ PromptStaged(active, f).rows = target.prompt
<1>1. ASSUME FinalStaged(active, target.committed, f) # None
      PROVE  /\ FinalStaged(active, target.committed, f).tokens = target.committed
             /\ FinalStaged(active, target.committed, f).rows = target.committed
  <2>1. /\ active.aligned
        /\ FinalStaged(active, target.committed, f) =
             [tokens |-> target.committed, rows |-> cache.rows]
    BY <1>1 DEF FinalStaged
  <2>2. cache.rows = target.committed
    BY <2>1 DEF StandsAt
  <2> QED BY <2>1, <2>2
<1>2. ASSUME PromptStaged(active, f) # None
      PROVE  /\ PromptStaged(active, f).tokens = target.prompt
             /\ PromptStaged(active, f).rows = target.prompt
  <2>1. active.prompt # None /\ PromptStaged(active, f) = active.prompt
    BY <1>2 DEF PromptStaged
  <2>2. active.prompt.rows = active.prompt.tokens
    BY <2>1 DEF RequestIs
  <2> QED BY <2>1, <2>2
<1> QED BY <1>1, <1>2

\* A boundary that could not be staged may end the alignment, nothing else.
LEMMA UnstagedIs ==
  ASSUME NEW a, RequestIs(a), NEW final \in BOOLEAN
  PROVE  /\ RequestIs(Unstaged(a, final)) /\ Unstaged(a, final).txn = a.txn
         /\ Unstaged(a, final).ledger = a.ledger
         /\ Unstaged(a, final).aligned => a.aligned /\ Unstaged(a, final) = a
<1> DEFINE off == Disabled(a, FALSE, "none")
<1>1. OffOf(off, a) /\ off.aligned = FALSE
  BY DisabledIs
<1>2. Unstaged(a, final) = IF final \/ a.prompt # None THEN off ELSE a
  BY DEF Unstaged
<1> HIDE DEF off
<1>3. RequestIs(off) /\ off.txn = a.txn /\ off.ledger = a.ledger
  BY <1>1 DEF OffOf, Same
<1> QED BY <1>1, <1>2, <1>3

-----------------------------------------------------------------------------
(* The steps.                                                                *)

LEMMA DraftInit == DInit => DraftInv
<1> SUFFICES ASSUME DInit PROVE DraftInv
  OBVIOUS
<1>1. /\ cache = [rows |-> <<>>, length |-> 0, stale |-> FALSE] /\ active = None /\ pub = None
      /\ target = [phase |-> "idle", prompt |-> <<>>, committed |-> <<>>, pending |-> 0,
                   boundary |-> None, nextId |-> 1, requests |-> 0]
  BY DEF DInit
<1>2. <<>> \in Seq(Tokens) /\ Len(<<>>) = 0
  OBVIOUS
<1>3. CacheIs(cache)
  BY <1>1, <1>2 DEF CacheIs
<1>4. TargetIs
  BY <1>1, <1>2 DEF TargetIs
<1>5. Published
  BY <1>1 DEF Published
<1>6. target.phase = "idle"
  BY <1>1
<1> QED BY <1>1, <1>3, <1>4, <1>5, <1>6 DEF DraftInv

\* A request that ends without publishing leaves no boundary of the target.
LEMMA EndsUnpublished ==
  ASSUME DraftInv, CacheIs(cache'), active' = None, UNCHANGED pub,
         target' = [target EXCEPT !.phase = "idle", !.boundary = None]
  PROVE  DraftInv'
<1>1. TargetIs /\ Published
  BY DEF DraftInv
<1>2. /\ DOMAIN target' = {"phase", "prompt", "committed", "pending", "boundary", "nextId",
                           "requests"}
      /\ target'.phase = "idle" /\ target'.boundary = None
      /\ target'.prompt = target.prompt /\ target'.committed = target.committed
      /\ target'.pending = target.pending /\ target'.nextId = target.nextId
  BY <1>1 DEF TargetIs
<1>3. TargetIs'
  BY <1>1, <1>2 DEF TargetIs
<1>4. Published'
  BY <1>1, <1>2 DEF Published
<1> QED BY <1>2, <1>3, <1>4 DEF DraftInv

LEMMA FinishDraftKeeps == ASSUME DraftInv, NEW f, FinishDraft(f) PROVE DraftInv'
BY EndsUnpublished DEF FinishDraft, DraftInv

LEMMA InterruptKeeps == ASSUME DraftInv, NEW f, Interrupt(f) PROVE DraftInv'
<1>1. /\ CacheIs(cache) /\ RequestIs(active) /\ target.committed \in Seq(Tokens)
      /\ active.aligned => StandsAt(active, cache, target.committed)
      /\ active.txn # None => active.txn.base = cache.rows
  BY DEF Interrupt, DraftInv, Drafting, TargetIs
<1>2. CacheIs(RequestAborted(active, cache, f))
  BY <1>1, RequestAbortedIs
<1> QED BY <1>2, EndsUnpublished DEF Interrupt

LEMMA RawRequestKeeps == ASSUME DraftInv, RawRequest PROVE DraftInv'
<1>1. TargetIs /\ Published /\ target.phase = "idle" /\ active = None /\ CacheIs(cache)
  BY DEF DraftInv, RawRequest
<1>2. target' = [target EXCEPT !.boundary = None, !.requests = target.requests + 1]
      /\ UNCHANGED <<cache, active, pub>>
  BY DEF RawRequest
<1>3. /\ DOMAIN target' = {"phase", "prompt", "committed", "pending", "boundary", "nextId",
                           "requests"}
      /\ target'.phase = "idle" /\ target'.boundary = None
      /\ target'.prompt = target.prompt /\ target'.committed = target.committed
      /\ target'.pending = target.pending /\ target'.nextId = target.nextId
  BY <1>1, <1>2 DEF TargetIs
<1>4. TargetIs'
  BY <1>1, <1>3 DEF TargetIs
<1>5. Published'
  BY <1>1, <1>2, <1>3 DEF Published
<1> QED BY <1>1, <1>2, <1>3, <1>4, <1>5 DEF DraftInv

\* What a step of a running request has to show.
LEMMA GoesOn ==
  ASSUME DraftInv, target.phase # "idle", CacheIs(cache'), UNCHANGED <<dmode, pub>>,
         DOMAIN target' = DOMAIN target, target'.phase \in {"prefill", "decode"},
         target'.committed \in Seq(Tokens), target'.prompt = target.prompt,
         target'.boundary = target.boundary, target'.nextId = target.nextId,
         target'.phase = "decode" => target'.pending \in Tokens,
         RequestIs(active'), active'.resolved = None,
         active'.aligned => StandsAt(active', cache', target'.committed),
         active'.txn # None =>
           /\ target'.phase = "decode" /\ active'.aligned
           /\ active'.txn.base = cache'.rows /\ active'.txn.pending = target'.pending,
         active'.prompt # None => active'.prompt.tokens = target.prompt,
         dmode = "auto" /\ active'.enabled => active'.credit >= 0
  PROVE  DraftInv'
<1>1. TargetIs /\ Published
  BY DEF DraftInv
<1>2. TargetIs'
  BY <1>1 DEF TargetIs
<1>3. Published'
  BY <1>1 DEF Published
<1>4. Drafting'
  BY DEF Drafting
<1> QED BY <1>2, <1>3, <1>4 DEF DraftInv

LEMMA PrefillKeeps == ASSUME DraftInv, NEW n \in 1 .. 2, NEW f, Prefill(n, f) PROVE DraftInv'
<1> DEFINE chunk == SubSeq(target.prompt, Len(target.committed) + 1, Len(target.committed) + n)
           r == RowsCommitted(chunk, f)
<1>1. /\ CacheIs(cache) /\ TargetIs /\ Drafting /\ target.phase = "prefill"
  BY DEF Prefill, DraftInv
<1>2. /\ cache' = r.cache /\ active' = r.active
      /\ target' = [target EXCEPT !.committed = target.committed \o chunk]
      /\ UNCHANGED <<dmode, pub>>
      /\ Len(target.committed) + n <= Len(target.prompt)
  BY DEF Prefill
<1>3. target.committed \in Seq(Tokens) /\ target.prompt \in Seq(Tokens)
  BY <1>1 DEF TargetIs
<1>4. chunk \in Seq(Tokens)
  <2>1. /\ Len(target.committed) \in Nat /\ Len(target.prompt) \in Nat /\ n \in Nat
        /\ Len(target.committed) + n <= Len(target.prompt)
    BY <1>2, <1>3, LenProperties
  <2>2. \A i \in Len(target.committed) + 1 .. Len(target.committed) + n :
          target.prompt[i] \in Tokens
    <3> SUFFICES ASSUME NEW i \in Len(target.committed) + 1 .. Len(target.committed) + n
                 PROVE  target.prompt[i] \in Tokens
      OBVIOUS
    <3>1. i \in 1 .. Len(target.prompt)
      BY <2>1
    <3> QED BY <1>3, <3>1
  <2>3. Len(target.committed) + 1 \in Int /\ Len(target.committed) + n \in Int
    BY <2>1
  <2> QED BY <2>2, <2>3, SubSeqProperties
<1> HIDE DEF chunk
<1>5. /\ RequestIs(active) /\ active.aligned => StandsAt(active, cache, target.committed)
  BY <1>1 DEF Drafting
<1>6. /\ RequestIs(active) /\ active.txn = None /\ active.resolved = None
      /\ active.prompt # None => active.prompt.tokens = target.prompt
      /\ dmode = "auto" /\ active.enabled => active.credit >= 0
  BY <1>1 DEF Drafting
<1>7. /\ RequestIs(r.active) /\ CacheIs(r.cache) /\ Same(r.active, active)
      /\ r.active.aligned => StandsAt(r.active, r.cache, target.committed \o chunk)
  BY <1>1, <1>3, <1>4, <1>5, <1>6, RowsCommittedIs
<1> HIDE DEF r
<1>8. /\ r.active.txn = None /\ r.active.resolved = None /\ r.active.credit = active.credit
      /\ r.active.enabled => active.enabled
      /\ r.active.prompt = active.prompt \/ r.active.prompt = None
  BY <1>6, <1>7 DEF Same
<1>9. target.committed \o chunk \in Seq(Tokens)
  BY <1>3, <1>4, ConcatProperties
<1>10. /\ DOMAIN target' = DOMAIN target /\ target'.phase = "prefill"
       /\ target'.committed = target.committed \o chunk /\ target'.prompt = target.prompt
       /\ target'.boundary = target.boundary /\ target'.nextId = target.nextId
  BY <1>1, <1>2 DEF TargetIs
<1> QED BY <1>1, <1>2, <1>6, <1>7, <1>8, <1>9, <1>10, GoesOn

LEMMA PromptedKeeps == ASSUME DraftInv, NEW t \in Tokens, NEW f, Prompted(t, f) PROVE DraftInv'
<1> DEFINE a == PromptCaptured(active, target.prompt, f)
<1>1. /\ CacheIs(cache) /\ TargetIs /\ Drafting /\ target.phase = "prefill"
      /\ target.committed = target.prompt
  BY DEF Prompted, DraftInv
<1>2. /\ active' = a /\ UNCHANGED <<dmode, pub, cache>>
      /\ target' = [target EXCEPT !.phase = "decode", !.pending = t]
  BY DEF Prompted
<1>3. target.prompt \in Seq(Tokens)
  BY <1>1 DEF TargetIs
<1>4. /\ RequestIs(active) /\ active.txn = None /\ active.resolved = None
      /\ active.aligned => StandsAt(active, cache, target.prompt)
      /\ active.prompt # None => active.prompt.tokens = target.prompt
      /\ dmode = "auto" /\ active.enabled => active.credit >= 0
  BY <1>1 DEF Drafting
<1>5. /\ RequestIs(a) /\ a.txn = active.txn /\ a.credit = active.credit
      /\ a.enabled => active.enabled
      /\ a.resolved = active.resolved /\ a.ledger = active.ledger
      /\ a.aligned => active.aligned
      /\ a.prompt = active.prompt \/ a.prompt = [tokens |-> target.prompt, rows |-> target.prompt]
  BY <1>1, <1>3, <1>4, PromptCapturedIs
<1> HIDE DEF a
<1>6. a.prompt # None => a.prompt.tokens = target.prompt
  BY <1>4, <1>5
<1>7. a.aligned => StandsAt(a, cache, target.prompt)
  BY <1>4, <1>5 DEF StandsAt
<1>8. /\ DOMAIN target' = DOMAIN target /\ target'.phase = "decode" /\ target'.pending = t
      /\ target'.committed = target.committed /\ target'.prompt = target.prompt
      /\ target'.boundary = target.boundary /\ target'.nextId = target.nextId
  BY <1>1, <1>2 DEF TargetIs
<1> QED BY <1>1, <1>2, <1>3, <1>4, <1>5, <1>6, <1>7, <1>8, GoesOn

\* The short sequences that a run enumerates are sequences of tokens.
LEMMA SeqsAre == \A n \in Nat : SeqsOf(n) \subseteq Seq(Tokens)
BY DEF SeqsOf

\* The pending token and what follows it are entered one after the other.
LEMMA OneThenMore ==
  ASSUME NEW s \in Seq(Tokens), NEW one \in Seq(Tokens), NEW u \in Seq(Tokens)
  PROVE  (s \o one) \o u = s \o (one \o u)
BY ConcatAssociative

LEMMA StepKeeps ==
  ASSUME DraftInv, NEW extra \in {<<>>} \cup SeqsOf(1), NEW t \in Tokens, NEW s \in Times, NEW f,
         Step(extra, t, s, f)
  PROVE  DraftInv'
<1> DEFINE ins == <<target.pending>> \o extra
           r == RowsCommitted(ins, f)
           timed == BaselineRecorded(r.active, s)
<1>1. /\ CacheIs(cache) /\ TargetIs /\ Drafting /\ target.phase = "decode"
      /\ active.txn = None
  BY DEF Step, DraftInv
<1>2. /\ cache' = r.cache
      /\ active' = timed \/ active' = r.active
      /\ target' = [target EXCEPT !.committed = (target.committed \o <<target.pending>>) \o extra,
                                  !.pending = t]
      /\ UNCHANGED <<dmode, pub>>
  BY DEF Step
<1>3. /\ target.committed \in Seq(Tokens) /\ extra \in Seq(Tokens)
      /\ <<target.pending>> \in Seq(Tokens)
  <2>1. target.committed \in Seq(Tokens) /\ target.pending \in Tokens
    BY <1>1 DEF TargetIs
  <2>2. <<target.pending>> \in Seq(Tokens)
    BY <2>1
  <2>3. extra \in Seq(Tokens)
    BY SeqsAre, EmptySeq
  <2> QED BY <2>1, <2>2, <2>3
<1>4. ins \in Seq(Tokens)
  BY <1>3, ConcatProperties
<1>5. (target.committed \o <<target.pending>>) \o extra = target.committed \o ins
  BY <1>3, OneThenMore
<1> HIDE DEF ins
<1>6. /\ RequestIs(active) /\ active.resolved = None
      /\ active.aligned => StandsAt(active, cache, target.committed)
      /\ active.prompt # None => active.prompt.tokens = target.prompt
      /\ dmode = "auto" /\ active.enabled => active.credit >= 0
  BY <1>1 DEF Drafting
<1>7. /\ RequestIs(r.active) /\ CacheIs(r.cache) /\ Same(r.active, active)
      /\ r.active.aligned => StandsAt(r.active, r.cache, target.committed \o ins)
  BY <1>1, <1>3, <1>4, <1>6, RowsCommittedIs
<1> HIDE DEF r
<1>8. /\ r.active.txn = None /\ r.active.resolved = None /\ r.active.credit = active.credit
      /\ r.active.enabled => active.enabled
      /\ r.active.prompt = active.prompt \/ r.active.prompt = None
  BY <1>1, <1>6, <1>7 DEF Same
<1>9. /\ RequestIs(timed)
      /\ \A fd \in ActiveFields \ {"baseline"} : timed[fd] = r.active[fd]
  BY <1>7, BaselineIs, DSparkAssumption
<1> HIDE DEF timed
<1>10. /\ RequestIs(active')
       /\ active'.txn = r.active.txn /\ active'.resolved = r.active.resolved
       /\ active'.credit = r.active.credit /\ active'.enabled = r.active.enabled
       /\ active'.prompt = r.active.prompt /\ active'.aligned = r.active.aligned
       /\ active'.ledger = r.active.ledger
  BY <1>2, <1>7, <1>9 DEF ActiveFields
<1>11. active'.aligned => StandsAt(active', cache', target.committed \o ins)
  BY <1>2, <1>7, <1>10 DEF StandsAt
<1>12. target.committed \o ins \in Seq(Tokens)
  BY <1>3, <1>4, ConcatProperties
<1>13. /\ DOMAIN target' = DOMAIN target /\ target'.phase = "decode" /\ target'.pending = t
       /\ target'.committed = target.committed \o ins /\ target'.prompt = target.prompt
       /\ target'.boundary = target.boundary /\ target'.nextId = target.nextId
  BY <1>1, <1>2, <1>5 DEF TargetIs
<1> QED BY <1>1, <1>2, <1>6, <1>7, <1>8, <1>10, <1>11, <1>12, <1>13, GoesOn

LEMMA ProposeKeeps ==
  ASSUME DraftInv, NEW limit \in 1 .. DraftWidth, NEW drafts \in [1 .. DraftWidth -> Tokens],
         NEW f, Propose(limit, drafts, f)
  PROVE  DraftInv'
<1> DEFINE r == Proposed(active, cache, limit, drafts, f)
<1>1. /\ CacheIs(cache) /\ TargetIs /\ Drafting /\ target.phase = "decode"
      /\ active.txn = None /\ active.aligned
  BY DEF Propose, DraftInv
<1>2. active' = r.active /\ cache' = r.cache /\ UNCHANGED <<dmode, pub, target>>
  BY DEF Propose
<1>3. /\ RequestIs(active) /\ active.resolved = None
      /\ StandsAt(active, cache, target.committed)
      /\ active.prompt # None => active.prompt.tokens = target.prompt
      /\ dmode = "auto" /\ active.enabled => active.credit >= 0
  BY <1>1 DEF Drafting
<1>4. /\ target.committed \in Seq(Tokens) /\ target.pending \in Tokens
      /\ target.prompt \in Seq(Tokens)
  BY <1>1 DEF TargetIs
<1>5. /\ RequestIs(r.active) /\ CacheIs(r.cache)
      /\ r.active.aligned => StandsAt(r.active, r.cache, target.committed)
      /\ r.active.txn # active.txn =>
           /\ r.active.aligned
           /\ r.active.txn.base = r.cache.rows /\ r.active.txn.pending = target.pending
      /\ r.active.prompt = active.prompt /\ r.active.credit = active.credit
      /\ r.active.enabled => active.enabled
      /\ r.active.resolved = active.resolved
  BY <1>1, <1>3, <1>4, ProposedIs
<1> HIDE DEF r
<1> QED BY <1>1, <1>2, <1>3, <1>4, <1>5, GoesOn

LEMMA RefuseProposalKeeps == ASSUME DraftInv, NEW f, RefuseProposal(f) PROVE DraftInv'
<1> DEFINE r == Aborted(active, cache, f)
<1>1. /\ CacheIs(cache) /\ TargetIs /\ Drafting /\ target.phase = "decode"
  BY DEF RefuseProposal, DraftInv
<1>2. active' = r.active /\ cache' = r.cache /\ UNCHANGED <<dmode, pub, target>>
  BY DEF RefuseProposal
<1>3. /\ RequestIs(active) /\ active.resolved = None
      /\ active.aligned => StandsAt(active, cache, target.committed)
      /\ active.txn # None => active.txn.base = cache.rows
      /\ active.prompt # None => active.prompt.tokens = target.prompt
      /\ dmode = "auto" /\ active.enabled => active.credit >= 0
  BY <1>1 DEF Drafting
<1>4. /\ target.committed \in Seq(Tokens) /\ target.pending \in Tokens
      /\ target.prompt \in Seq(Tokens)
  BY <1>1 DEF TargetIs
<1>5. /\ RequestIs(r.active) /\ CacheIs(r.cache) /\ r.active.txn = None
      /\ r.active.aligned => StandsAt(r.active, r.cache, target.committed)
      /\ r.active.prompt = active.prompt /\ r.active.credit = active.credit
      /\ r.active.enabled => active.enabled
      /\ r.active.resolved = active.resolved
  BY <1>1, <1>3, <1>4, AbortedIs
<1> HIDE DEF r
<1> QED BY <1>1, <1>2, <1>3, <1>4, <1>5, GoesOn

\* What a verified step emits, and the inputs whose rows it committed.
LEMMA EmittedIs ==
  ASSUME NEW drafts \in Seq(Tokens), NEW n \in 0 .. Len(drafts), NEW own \in Seq(Tokens),
         n > 0 \/ own # <<>>
  PROVE  LET emitted == SubSeq(drafts, 1, n) \o own
         IN  /\ emitted \in Seq(Tokens) /\ Front(emitted) \in Seq(Tokens)
             /\ Last(emitted) \in Tokens
<1> DEFINE some == SubSeq(drafts, 1, n)
           emitted == some \o own
<1>1. some \in Seq(Tokens) /\ Len(some) = n
  <2>1. \A i \in 1 .. n : drafts[i] \in Tokens
    BY LenProperties
  <2>2. n \in Nat /\ 1 \in Int
    BY LenProperties
  <2> QED BY <2>1, <2>2, SubSeqProperties
<1> HIDE DEF some
<1>2. emitted \in Seq(Tokens) /\ Len(emitted) = n + Len(own)
  BY <1>1, ConcatProperties
<1>3. Len(own) \in Nat /\ Len(own) = 0 <=> own = <<>>
  BY EmptySeq, LenProperties
<1>4. Len(emitted) \in Nat /\ Len(emitted) > 0
  BY <1>2, <1>3, LenProperties
<1> HIDE DEF emitted
<1>5. \A i \in 1 .. Len(emitted) : emitted[i] \in Tokens
  BY <1>2, LenProperties
<1>6. Last(emitted) \in Tokens
  BY <1>4, <1>5 DEF Last
<1>7. Front(emitted) \in Seq(Tokens)
  <2>1. Len(emitted) - 1 \in Int /\ \A i \in 1 .. Len(emitted) - 1 : emitted[i] \in Tokens
    BY <1>4, <1>5
  <2> QED BY <2>1, SubSeqProperties DEF Front
<1> QED BY <1>2, <1>6, <1>7 DEF emitted, some

LEMMA ResolveKeeps ==
  ASSUME DraftInv, NEW n \in 0 .. DraftWidth, NEW own \in {<<>>} \cup SeqsOf(1),
         NEW s \in Times, NEW f, Resolve(n, own, s, f)
  PROVE  DraftInv'
<1> DEFINE emitted == SubSeq(active.txn.drafts, 1, n) \o own
           front == Front(emitted)
           ins == CommittedInputs(active.txn, emitted)
           r == Resolved(active, cache, n, emitted, window, f)
           ab == Aborted(active, cache, f)
           off == Disabled(ab.active, FALSE, "none")
           timed == Timed(r.active, s)
<1>1. /\ CacheIs(cache) /\ TargetIs /\ Drafting /\ target.phase = "decode"
      /\ active.txn # None /\ n <= Len(active.txn.drafts)
      /\ n > 0 \/ own # <<>>
  BY DEF Resolve, DraftInv
<1>2. /\ \/ cache' = r.cache /\ active' = timed
         \/ cache' = ab.cache /\ active' = off
      /\ target' = [target EXCEPT !.committed = (target.committed \o <<target.pending>>) \o front,
                                  !.pending = Last(emitted)]
      /\ UNCHANGED <<dmode, pub>>
  BY DEF Resolve
<1>3. /\ RequestIs(active) /\ active.resolved = None /\ active.aligned
      /\ StandsAt(active, cache, target.committed)
      /\ active.txn.base = cache.rows /\ active.txn.pending = target.pending
      /\ active.prompt # None => active.prompt.tokens = target.prompt
      /\ dmode = "auto" /\ active.enabled => active.credit >= 0
  BY <1>1 DEF Drafting
<1>4. /\ target.committed \in Seq(Tokens) /\ target.pending \in Tokens
  BY <1>1 DEF TargetIs
<1>5. <<target.pending>> \in Seq(Tokens) /\ own \in Seq(Tokens)
      /\ active.txn.drafts \in Seq(Tokens) /\ n \in 0 .. Len(active.txn.drafts) /\ n \in Nat
  <2>1. active.txn.drafts \in Seq(Tokens)
    BY <1>1, <1>3 DEF RequestIs
  <2>2. own \in Seq(Tokens)
    BY SeqsAre, EmptySeq
  <2>3. n \in Nat /\ Len(active.txn.drafts) \in Nat
    BY <2>1, DSparkAssumption, LenProperties
  <2>4. <<target.pending>> \in Seq(Tokens)
    BY <1>4
  <2> QED BY <1>1, <2>1, <2>2, <2>3, <2>4
<1>6. emitted \in Seq(Tokens) /\ front \in Seq(Tokens) /\ Last(emitted) \in Tokens
  BY <1>1, <1>5, EmittedIs
<1>7. ins = <<target.pending>> \o front
  BY <1>3 DEF CommittedInputs
<1> HIDE DEF emitted, front
<1>8. ins \in Seq(Tokens)
  <2> HIDE DEF ins
  <2> QED BY <1>5, <1>6, <1>7, ConcatProperties
<1> HIDE DEF ins
<1>9. (target.committed \o <<target.pending>>) \o front = target.committed \o ins
  BY <1>4, <1>5, <1>6, <1>7, OneThenMore
<1>10. target.committed \o ins \in Seq(Tokens)
  BY <1>4, <1>8, ConcatProperties
<1>11. /\ DOMAIN target' = DOMAIN target /\ target'.phase = "decode"
       /\ target'.pending = Last(emitted)
       /\ target'.committed = target.committed \o ins /\ target'.prompt = target.prompt
       /\ target'.boundary = target.boundary /\ target'.nextId = target.nextId
  BY <1>1, <1>2, <1>9 DEF TargetIs
<1>12. CASE cache' = r.cache /\ active' = timed
  <2>1. /\ RequestIs(r.active) /\ CacheIs(r.cache) /\ r.active.txn = None
        /\ r.active.aligned => StandsAt(r.active, r.cache, target.committed \o ins)
        /\ r.active.resolved # None =>
             /\ r.active.resolved.emitted \in Nat
             /\ StandsAt(r.active, r.cache, target.committed \o ins)
        /\ r.active.prompt = active.prompt \/ r.active.prompt = None
        /\ r.active.credit = active.credit
        /\ r.active.enabled => active.enabled
    BY <1>1, <1>3, <1>4, <1>5, <1>6, <1>8, ResolvedIs DEF ins
  <2> HIDE DEF r
  <2>2. s \in Nat
    BY DSparkAssumption
  <2>3. dmode = "auto" /\ r.active.enabled => r.active.credit >= 0
    BY <1>3, <2>1
  <2>4. /\ RequestIs(timed) /\ timed.ledger = r.active.ledger /\ timed.txn = r.active.txn
        /\ timed.prompt = r.active.prompt
        /\ timed.resolved = None
        /\ r.active.resolved = None => timed = r.active
        /\ dmode = "auto" /\ timed.enabled => timed.credit >= 0
    BY <2>1, <2>2, <2>3, TimedIs
  <2> HIDE DEF timed
  <2>5. timed.aligned => StandsAt(timed, r.cache, target.committed \o ins)
    BY <2>1, <2>4 DEF StandsAt
  <2>6. timed.prompt # None => timed.prompt.tokens = target.prompt
    BY <1>3, <2>1, <2>4
  <2>7. timed.txn = None
    BY <2>1, <2>4
  <2> QED BY <1>1, <1>2, <1>6, <1>10, <1>11, <1>12, <2>1, <2>4, <2>5, <2>6, <2>7, GoesOn
<1>13. CASE cache' = ab.cache /\ active' = off
  <2>1. /\ RequestIs(ab.active) /\ CacheIs(ab.cache) /\ ab.active.txn = None
        /\ ab.active.prompt = active.prompt /\ ab.active.credit = active.credit
        /\ ab.active.resolved = active.resolved
    BY <1>1, <1>3, <1>4, AbortedIs
  <2> HIDE DEF ab
  <2>2. OffOf(off, ab.active) /\ off.aligned = FALSE
    BY <2>1, DisabledIs
  <2> HIDE DEF off
  <2>3. /\ RequestIs(off) /\ off.txn = None /\ off.resolved = None /\ off.enabled = FALSE
        /\ off.prompt = active.prompt
    BY <1>3, <2>1, <2>2 DEF OffOf, Same
  <2> QED BY <1>1, <1>2, <1>3, <1>6, <1>10, <1>11, <1>13, <2>1, <2>2, <2>3, GoesOn
<1> QED BY <1>2, <1>12, <1>13

LEMMA SettleDraftKeeps ==
  ASSUME DraftInv, NEW final \in BOOLEAN, NEW f, SettleDraft(final, f) PROVE DraftInv'
<1> DEFINE kept == IF final THEN target.committed ELSE target.prompt
           staged == IF final THEN FinalStaged(active, kept, f) ELSE PromptStaged(active, f)
           tried == IF final \/ active.prompt = None THEN cache
                    ELSE Restored(cache, active.prompt.rows, f).cache
           un == Unstaged(active, final)
           aborted == RequestAborted(un, tried, f)
           named == [tokens |-> kept, id |-> target.nextId]
           paired == [tokens |-> staged.tokens, rows |-> staged.rows, id |-> target.nextId]
<1>1. /\ CacheIs(cache) /\ TargetIs /\ Published /\ Drafting /\ target.phase = "decode"
      /\ active.txn = None
  BY DEF SettleDraft, DraftInv
<1>2. /\ target' = [target EXCEPT !.phase = "idle", !.nextId = target.nextId + 1,
                                  !.boundary = named]
      /\ \/ staged # None /\ pub' = paired /\ cache' = tried
         \/ staged = None /\ pub' = pub /\ cache' = aborted
      /\ active' = None
  BY DEF SettleDraft
<1>3. /\ RequestIs(active)
      /\ active.aligned => StandsAt(active, cache, target.committed)
      /\ active.prompt # None => active.prompt.tokens = target.prompt
  BY <1>1 DEF Drafting
<1>4. /\ target.committed \in Seq(Tokens) /\ target.prompt \in Seq(Tokens)
      /\ target.nextId \in Nat /\ target.nextId + 1 \in Nat
  BY <1>1 DEF TargetIs
<1>5. CacheIs(tried)
  <2>1. CASE final \/ active.prompt = None
    BY <1>1, <2>1
  <2>2. CASE ~(final \/ active.prompt = None)
    <3>1. active.prompt.rows \in Seq(Tokens)
      BY <1>3, <2>2 DEF RequestIs
    <3>2. CacheIs(Restored(cache, active.prompt.rows, f).cache)
      BY <1>1, <3>1, RestoredIs
    <3> QED BY <2>2, <3>2
  <2> QED BY <2>1, <2>2
<1>6. CacheIs(aborted)
  <2>1. /\ RequestIs(un) /\ un.txn = active.txn /\ un.ledger = active.ledger
        /\ un.aligned => active.aligned /\ un = active
    BY <1>3, UnstagedIs
  <2>2. un.aligned => tried = cache
    <3>1. ASSUME un.aligned PROVE final \/ active.prompt = None
      <4>1. ASSUME ~final, active.prompt # None PROVE FALSE
        <5>1. un = Disabled(active, FALSE, "none")
          BY <4>1 DEF Unstaged
        <5>2. Disabled(active, FALSE, "none").aligned = FALSE
          BY <1>3, DisabledIs
        <5> QED BY <3>1, <5>1, <5>2
      <4> QED BY <4>1
    <3> QED BY <3>1
  <2> HIDE DEF un, tried
  <2>3. un.aligned => StandsAt(un, tried, target.committed)
    BY <1>3, <2>1, <2>2
  <2>4. un.txn # None => un.txn.base = tried.rows
    BY <1>1, <2>1
  <2> QED BY <1>4, <1>5, <2>1, <2>3, <2>4, RequestAbortedIs
<1>7. staged # None => staged.tokens = kept /\ staged.rows = kept
  BY <1>1, <1>3, StagedIs
<1> HIDE DEF staged, tried, aborted
<1>8. kept \in Seq(Tokens)
  BY <1>4
<1> HIDE DEF kept
<1>9. named.tokens = kept /\ named.id = target.nextId
  OBVIOUS
<1>10. paired.tokens = staged.tokens /\ paired.rows = staged.rows /\ paired.id = target.nextId
  OBVIOUS
<1> HIDE DEF named, paired
<1>11. /\ DOMAIN target' = DOMAIN target /\ target'.phase = "idle"
       /\ target'.nextId = target.nextId + 1 /\ target'.boundary = named
       /\ target'.committed = target.committed /\ target'.prompt = target.prompt
  BY <1>1, <1>2 DEF TargetIs
<1>12. TargetIs'
  BY <1>1, <1>4, <1>11 DEF TargetIs
<1>13. CacheIs(cache')
  BY <1>2, <1>5, <1>6
<1>14. Published'
  <2>1. /\ target'.boundary.tokens \in Seq(Tokens)
        /\ target'.boundary.id = target.nextId /\ target'.boundary.id < target'.nextId
    BY <1>4, <1>8, <1>9, <1>11
  <2>2. CASE staged # None /\ pub' = paired
    <3>1. pub'.tokens = kept /\ pub'.rows = kept /\ pub'.id = target.nextId
      BY <1>7, <1>10, <2>2
    <3> QED BY <1>4, <1>8, <1>9, <1>11, <2>1, <3>1 DEF Published
  <2>3. CASE pub' = pub
    <3>1. pub # None => /\ pub.tokens \in Seq(Tokens) /\ pub.rows = pub.tokens
                        /\ pub.id \in Nat /\ pub.id < target.nextId
      BY <1>1 DEF Published
    <3>2. pub # None => pub.id < target'.nextId /\ pub.id # target'.boundary.id
      BY <1>4, <1>11, <2>1, <3>1
    <3> QED BY <1>4, <2>1, <2>3, <3>1, <3>2 DEF Published
  <2> QED BY <1>2, <2>2, <2>3
<1> QED BY <1>2, <1>11, <1>12, <1>13, <1>14 DEF DraftInv

LEMMA BeginDraftKeeps ==
  ASSUME DraftInv, NEW p \in SeqsOf(MaxPrompt), NEW reuse \in BOOLEAN, NEW hit \in BOOLEAN, NEW f,
         BeginDraft(p, reuse, hit, f)
  PROVE  DraftInv'
<1> DEFINE from == IF hit THEN target.boundary.tokens ELSE <<>>
           bound == IF hit THEN target.boundary ELSE None
<1>1. /\ CacheIs(cache) /\ TargetIs /\ Published /\ target.phase = "idle"
      /\ hit => target.boundary # None
  BY DEF BeginDraft, DraftInv
<1>2. /\ BeginDraftRequest(p, reuse, hit, f)
      /\ target' = [target EXCEPT !.phase = "prefill", !.prompt = p,
                                  !.requests = target.requests + 1,
                                  !.committed = from, !.boundary = bound]
      /\ UNCHANGED dmode
  BY DEF BeginDraft
<1>3. p \in Seq(Tokens)
  BY SeqsAre, DSparkAssumption
<1>4. /\ CacheIs(cache') /\ RequestIs(active')
      /\ active'.resolved = None /\ active'.txn = None /\ active'.prompt = None
      /\ active'.credit = 0
      /\ active'.aligned => StandsAt(active', cache', from)
      /\ pub' = pub \/ pub' = None
  BY <1>1, <1>2, <1>3, BegunIs
<1>5. from \in Seq(Tokens)
  <2>1. CASE hit
    <3>1. target.boundary.tokens \in Seq(Tokens)
      BY <1>1, <2>1 DEF Published
    <3> QED BY <2>1, <3>1
  <2>2. CASE ~hit
    BY <2>2, EmptySeq
  <2> QED BY <2>1, <2>2
<1>6. bound = target.boundary \/ bound = None
  OBVIOUS
<1> HIDE DEF from, bound
<1>7. /\ DOMAIN target' = DOMAIN target /\ target'.phase = "prefill"
      /\ target'.nextId = target.nextId /\ target'.boundary = bound
      /\ target'.committed = from /\ target'.prompt = p
  BY <1>1, <1>2 DEF TargetIs
<1>8. TargetIs'
  BY <1>1, <1>3, <1>5, <1>7 DEF TargetIs
<1>9. Published'
  BY <1>1, <1>4, <1>6, <1>7 DEF Published
<1>10. Drafting'
  BY <1>4, <1>7 DEF Drafting
<1> QED BY <1>4, <1>7, <1>8, <1>9, <1>10 DEF DraftInv

LEMMA DraftStep == DraftInv /\ [DNext]_dvars => DraftInv'
<1> SUFFICES ASSUME DraftInv, [DNext]_dvars PROVE DraftInv'
  OBVIOUS
<1>1. CASE RawRequest
  BY <1>1, RawRequestKeeps
<1>2. ASSUME NEW f \in Faults, NEW p \in SeqsOf(MaxPrompt), NEW r \in BOOLEAN, NEW hit \in BOOLEAN,
             BeginDraft(p, r, hit, f)
      PROVE  DraftInv'
  BY <1>2, BeginDraftKeeps
<1>3. ASSUME NEW f \in Faults, NEW n \in 1 .. 2, Prefill(n, f) PROVE DraftInv'
  BY <1>3, PrefillKeeps
<1>4. ASSUME NEW f \in Faults, NEW t \in Tokens, Prompted(t, f) PROVE DraftInv'
  BY <1>4, PromptedKeeps
<1>5. ASSUME NEW f \in Faults, NEW e \in {<<>>} \cup SeqsOf(1), NEW t \in Tokens, NEW s \in Times,
             Step(e, t, s, f)
      PROVE  DraftInv'
  BY <1>5, StepKeeps
<1>6. ASSUME NEW f \in Faults, NEW l \in 1 .. DraftWidth, NEW d \in [1 .. DraftWidth -> Tokens],
             Propose(l, d, f)
      PROVE  DraftInv'
  BY <1>6, ProposeKeeps
<1>7. ASSUME NEW f \in Faults, RefuseProposal(f) PROVE DraftInv'
  BY <1>7, RefuseProposalKeeps
<1>8. ASSUME NEW f \in Faults, NEW n \in 0 .. DraftWidth, NEW o \in {<<>>} \cup SeqsOf(1),
             NEW s \in Times, Resolve(n, o, s, f)
      PROVE  DraftInv'
  BY <1>8, ResolveKeeps
<1>9. ASSUME NEW f \in Faults, NEW final \in BOOLEAN, SettleDraft(final, f) PROVE DraftInv'
  BY <1>9, SettleDraftKeeps
<1>10. ASSUME NEW f \in Faults, FinishDraft(f) PROVE DraftInv'
  BY <1>10, FinishDraftKeeps
<1>11. ASSUME NEW f \in Faults, Interrupt(f) PROVE DraftInv'
  BY <1>11, InterruptKeeps
<1>12. CASE UNCHANGED dvars
  BY <1>12 DEF dvars, DraftInv, Drafting, TargetIs, Published
<1> QED
  BY <1>1, <1>2, <1>3, <1>4, <1>5, <1>6, <1>7, <1>8, <1>9, <1>10, <1>11, <1>12 DEF DNext

\* The drafter stands where the target does whenever it is trusted, boundaries
\* are paired by their identifiers, and a request that drafts has not lost.
THEOREM DraftInvariance == DSpec => []DraftInv
<1>1. DInit => DraftInv
  BY DraftInit
<1>2. DraftInv /\ [DNext]_dvars => DraftInv'
  BY DraftStep
<1> QED BY <1>1, <1>2, PTL DEF DSpec

\* For every prompt, fault and sequence of requests, what is drafted from is
\* the target's own history, a published pair of boundaries covers the same
\* tokens, and automatic drafting that is on has not cost time
\* (dspark_runtime.rs, advance, propose, resolve, record_verified_step).
THEOREM DraftsAreSound == DSpec => []DraftsSeeTheTarget
<1>1. DraftInv => DraftsSeeTheTarget
  <2> SUFFICES ASSUME DraftInv PROVE DraftsSeeTheTarget
    OBVIOUS
  <2>1. active # None => Drafting
    BY DEF DraftInv
  <2>2. DraftsSeeCommittedRows
    BY <2>1 DEF DraftsSeeCommittedRows, Drafting, StandsAt
  <2>3. PublishedPairAgrees
    BY DEF PublishedPairAgrees, DraftInv, Published
  <2>4. AutoDraftingPaysItsWay
    BY <2>1 DEF AutoDraftingPaysItsWay, Drafting
  <2> QED BY <2>2, <2>3, <2>4 DEF DraftsSeeTheTarget
<1> QED BY <1>1, DraftInvariance, PTL
====
