------------------------ MODULE GenerationServerProofs ------------------------
(***************************************************************************)
(* The gate lets in one generation at a time in the order of arrival, and   *)
(* what clients are answered is whole and certified, within the limits of   *)
(* the memo: for every number of clients, requests and slots, and for every *)
(* size of the responses.                                                   *)
(***************************************************************************)
EXTENDS GenerationServer, SequenceLemmas

-----------------------------------------------------------------------------
(* The inductive invariant.                                                  *)

\* generating is set exactly while one worker owns the permit.
PermitInv ==
  /\ generating <=> Holders # {}
  /\ \A c, d \in Holders : c = d

\* The queue holds each worker with a ticket once.
QueueInv == ToSet(waiting) = Waiters /\ IsInjective(waiting)

\* A worker has a reply only once it has left the target.
ReplyInv ==
  \A c \in Clients :
    client[c].at \notin {"respond", "settle", "leave"} => client[c].reply = {}

IInv ==
  /\ TypeOK /\ PermitInv /\ QueueInv /\ ArrivalOrder
  /\ SettledBeforeNext /\ ReplyInv /\ OnlyCertified /\ MemoBounds

Entries == [key : Keys, whole : BOOLEAN]

-----------------------------------------------------------------------------
(* Queues.                                                                   *)

\* The set of a sequence with a new last element.
LEMMA AppendSet ==
  ASSUME NEW S, NEW s \in Seq(S), NEW c \in S, IsInjective(s), c \notin ToSet(s)
  PROVE  /\ Append(s, c) \in Seq(S) /\ IsInjective(Append(s, c))
         /\ ToSet(Append(s, c)) = ToSet(s) \cup {c}
<1> DEFINE t == Append(s, c)
<1>1. /\ t \in Seq(S) /\ Len(t) = Len(s) + 1 /\ Len(s) \in Nat
      /\ DOMAIN s = 1 .. Len(s) /\ DOMAIN t = 1 .. Len(s) + 1
      /\ \A i \in 1 .. Len(s) : t[i] = s[i]
      /\ t[Len(s) + 1] = c
  BY AppendProperties
<1> HIDE DEF t
<1>2. \A i \in 1 .. Len(s) : s[i] # c
  BY <1>1 DEF ToSet
<1>3. IsInjective(t)
  BY <1>1, <1>2 DEF IsInjective
<1>4. ToSet(t) = ToSet(s) \cup {c}
  BY <1>1 DEF ToSet
<1> QED BY <1>1, <1>3, <1>4 DEF t

\* Appending c puts it after everything else, and changes no other order.
LEMMA AppendOrder ==
  ASSUME NEW S, NEW s \in Seq(S), NEW c \in S, c \notin ToSet(s), NEW d, NEW e
  PROVE  Before(Append(s, c), d, e) <=> Before(s, d, e) \/ (d \in ToSet(s) /\ e = c)
<1> DEFINE t == Append(s, c)
<1>1. /\ Len(s) \in Nat
      /\ DOMAIN s = 1 .. Len(s) /\ DOMAIN t = 1 .. Len(s) + 1
      /\ \A i \in 1 .. Len(s) : t[i] = s[i]
      /\ t[Len(s) + 1] = c
  BY AppendProperties
<1> HIDE DEF t
<1>2. \A i \in 1 .. Len(s) : s[i] # c
  BY <1>1 DEF ToSet
<1>3. ASSUME Before(t, d, e) PROVE Before(s, d, e) \/ (d \in ToSet(s) /\ e = c)
  <2>1. PICK i \in DOMAIN t, j \in DOMAIN t : i < j /\ t[i] = d /\ t[j] = e
    BY <1>3 DEF Before
  <2>2. i \in 1 .. Len(s) /\ s[i] = d
    BY <1>1, <2>1
  <2>3. CASE j = Len(s) + 1
    BY <1>1, <2>1, <2>2, <2>3 DEF ToSet
  <2>4. CASE j # Len(s) + 1
    <3>1. j \in 1 .. Len(s) /\ s[j] = e
      BY <1>1, <2>1, <2>4
    <3> QED BY <1>1, <2>1, <2>2, <3>1 DEF Before
  <2> QED BY <2>3, <2>4
<1>4. ASSUME Before(s, d, e) PROVE Before(t, d, e)
  <2>1. PICK i \in DOMAIN s, j \in DOMAIN s : i < j /\ s[i] = d /\ s[j] = e
    BY <1>4 DEF Before
  <2>2. i \in DOMAIN t /\ j \in DOMAIN t /\ t[i] = d /\ t[j] = e
    BY <1>1, <2>1
  <2> QED BY <2>1, <2>2 DEF Before
<1>5. ASSUME d \in ToSet(s), e = c PROVE Before(t, d, e)
  <2>1. PICK i \in DOMAIN s : s[i] = d
    BY <1>5 DEF ToSet
  <2>2. i \in DOMAIN t /\ Len(s) + 1 \in DOMAIN t /\ i < Len(s) + 1 /\ t[i] = d
    BY <1>1, <2>1
  <2> QED BY <1>1, <1>5, <2>2 DEF Before
<1> QED BY <1>3, <1>4, <1>5 DEF t

\* A sequence without c keeps everything else, in its order.
LEMMA DroppedProperties ==
  ASSUME NEW S, NEW s \in Seq(S), IsInjective(s), NEW c
  PROVE  /\ Dropped(s, c) \in Seq(S) /\ IsInjective(Dropped(s, c))
         /\ Len(Dropped(s, c)) <= Len(s)
         /\ ToSet(Dropped(s, c)) = ToSet(s) \ {c}
         /\ s # <<>> /\ s[1] # c => Dropped(s, c) # <<>> /\ Dropped(s, c)[1] = s[1]
<1>1. Len(s) \in Nat /\ DOMAIN s = 1 .. Len(s)
  OBVIOUS
<1>2. CASE c \notin ToSet(s)
  BY <1>1, <1>2 DEF Dropped
<1>3. CASE c \in ToSet(s)
  <2> DEFINE i == CHOOSE i \in DOMAIN s : s[i] = c
             t == RemoveAt(s, i)
  <2>1. i \in 1 .. Len(s) /\ s[i] = c
    BY <1>1, <1>3 DEF ToSet
  <2>2. Dropped(s, c) = t
    BY <1>3 DEF Dropped
  <2> HIDE DEF i
  <2>3. /\ t \in Seq(S) /\ Len(t) = Len(s) - 1
        /\ \A j \in 1 .. Len(s) - 1 : t[j] = IF j < i THEN s[j] ELSE s[j + 1]
    BY <2>1, RemoveAtProperties
  <2> HIDE DEF t
  <2>4. DOMAIN t = 1 .. Len(s) - 1
    BY <1>1, <2>3
  <2>5. IsInjective(t)
    <3> DEFINE old(j) == IF j < i THEN j ELSE j + 1
    <3>1. \A j \in DOMAIN t : old(j) \in DOMAIN s /\ t[j] = s[old(j)]
      BY <1>1, <2>1, <2>3, <2>4
    <3>2. \A j, k \in DOMAIN t : old(j) = old(k) => j = k
      BY <1>1, <2>1, <2>4
    <3> HIDE DEF old
    <3> QED BY <3>1, <3>2 DEF IsInjective
  <2>6. ToSet(t) = ToSet(s) \ {c}
    <3>1. ASSUME NEW j \in DOMAIN t PROVE t[j] \in ToSet(s) \ {c}
      BY <1>1, <2>1, <2>3, <2>4 DEF ToSet, IsInjective
    <3>2. ASSUME NEW j \in DOMAIN s, s[j] # c PROVE s[j] \in ToSet(t)
      <4>1. CASE j < i
        <5>1. j \in 1 .. Len(s) - 1 /\ t[j] = s[j]
          BY <1>1, <2>1, <2>3, <4>1
        <5> QED BY <2>4, <5>1 DEF ToSet
      <4>2. CASE j > i
        <5>1. j - 1 \in 1 .. Len(s) - 1 /\ ~(j - 1 < i) /\ (j - 1) + 1 = j
          BY <1>1, <2>1, <4>2
        <5>2. t[j - 1] = s[j]
          BY <2>3, <5>1
        <5> QED BY <2>4, <5>1, <5>2 DEF ToSet
      <4> QED BY <1>1, <2>1, <3>2, <4>1, <4>2
    <3> QED BY <3>1, <3>2 DEF ToSet
  <2>7. s[1] # c => t # <<>> /\ t[1] = s[1]
    BY <1>1, <2>1, <2>3
  <2> QED BY <1>1, <2>2, <2>3, <2>5, <2>6, <2>7
<1> QED BY <1>2, <1>3

\* ... and no other order changes.
LEMMA DroppedOrder ==
  ASSUME NEW S, NEW s \in Seq(S), IsInjective(s), NEW c, NEW d, NEW e
  PROVE  Before(Dropped(s, c), d, e) <=> Before(s, d, e) /\ d # c /\ e # c
<1>1. Len(s) \in Nat /\ DOMAIN s = 1 .. Len(s)
  OBVIOUS
<1>2. CASE c \notin ToSet(s)
  BY <1>1, <1>2 DEF Dropped, Before, ToSet
<1>3. CASE c \in ToSet(s)
  <2> DEFINE i == CHOOSE i \in DOMAIN s : s[i] = c
             t == RemoveAt(s, i)
             old(j) == IF j < i THEN j ELSE j + 1
             new(j) == IF j < i THEN j ELSE j - 1
  <2>1. i \in 1 .. Len(s) /\ s[i] = c
    BY <1>1, <1>3 DEF ToSet
  <2>2. Dropped(s, c) = t
    BY <1>3 DEF Dropped
  <2> HIDE DEF i
  <2>3. /\ Len(t) = Len(s) - 1 /\ t \in Seq(S)
        /\ \A j \in 1 .. Len(s) - 1 : t[j] = IF j < i THEN s[j] ELSE s[j + 1]
    BY <2>1, RemoveAtProperties
  <2> HIDE DEF t
  <2>4. DOMAIN t = 1 .. Len(s) - 1
    BY <1>1, <2>3
  <2>5. \A j \in DOMAIN t : old(j) \in DOMAIN s /\ s[old(j)] = t[j] /\ s[old(j)] # c
    BY <1>1, <2>1, <2>3, <2>4 DEF IsInjective
  <2>6. \A j, k \in DOMAIN t : j < k => old(j) < old(k)
    BY <1>1, <2>1, <2>4
  <2>7. \A j \in DOMAIN s : s[j] # c => new(j) \in DOMAIN t /\ t[new(j)] = s[j]
    <3>1. ASSUME NEW j \in DOMAIN s, s[j] # c
          PROVE  new(j) \in DOMAIN t /\ t[new(j)] = s[j]
      <4>1. CASE j < i
        BY <1>1, <2>1, <2>3, <2>4, <4>1
      <4>2. CASE j > i
        <5>1. j - 1 \in 1 .. Len(s) - 1 /\ ~(j - 1 < i) /\ (j - 1) + 1 = j /\ new(j) = j - 1
          BY <1>1, <2>1, <4>2
        <5>2. t[j - 1] = s[j]
          BY <2>3, <5>1
        <5> QED BY <2>4, <5>1, <5>2
      <4> QED BY <1>1, <2>1, <3>1, <4>1, <4>2
    <3> QED BY <3>1
  <2>8. \A j, k \in DOMAIN s : j < k /\ s[j] # c /\ s[k] # c => new(j) < new(k)
    BY <1>1, <2>1
  <2> HIDE DEF old, new
  <2>9. ASSUME Before(t, d, e) PROVE Before(s, d, e) /\ d # c /\ e # c
    <3>1. PICK j \in DOMAIN t, k \in DOMAIN t : j < k /\ t[j] = d /\ t[k] = e
      BY <2>9 DEF Before
    <3>2. /\ old(j) \in DOMAIN s /\ old(k) \in DOMAIN s /\ old(j) < old(k)
          /\ s[old(j)] = d /\ s[old(k)] = e /\ d # c /\ e # c
      BY <2>5, <2>6, <3>1
    <3> QED BY <3>2 DEF Before
  <2>10. ASSUME Before(s, d, e), d # c, e # c PROVE Before(t, d, e)
    <3>1. PICK j \in DOMAIN s, k \in DOMAIN s : j < k /\ s[j] = d /\ s[k] = e
      BY <2>10 DEF Before
    <3>2. /\ new(j) \in DOMAIN t /\ new(k) \in DOMAIN t /\ new(j) < new(k)
          /\ t[new(j)] = d /\ t[new(k)] = e
      BY <2>7, <2>8, <2>10, <3>1
    <3> QED BY <3>2 DEF Before
  <2> QED BY <2>2, <2>9, <2>10
<1> QED BY <1>2, <1>3

-----------------------------------------------------------------------------
(* The bytes of the memo.                                                    *)

\* An entry has a key, which has a size.
LEMMA EntryType ==
  ASSUME NEW s \in Seq(Entries), NEW i \in 1 .. Len(s)
  PROVE  s[i] \in Entries /\ s[i].key \in Keys /\ Size[s[i].key] \in Nat
<1>1. s[i] \in Entries
  OBVIOUS
<1>2. s[i].key \in Keys
  BY <1>1 DEF Entries
<1> QED BY <1>1, <1>2, ServerAssumption

\* The bytes of the n oldest entries are their sum.
LEMMA BytesSum ==
  ASSUME NEW s \in Seq(Entries)
  PROVE  /\ EvictedBytes(s, 0) = 0
         /\ \A n \in 0 .. Len(s) : EvictedBytes(s, n) \in Nat
         /\ \A n \in 1 .. Len(s) : EvictedBytes(s, n) = EvictedBytes(s, n - 1) + Size[s[n].key]
<1> DEFINE L == Len(s)
           size(i) == Size[s[i].key]
           Sum(f, k) == /\ f \in [0 .. k -> Nat] /\ f[0] = 0
                        /\ \A i \in 1 .. k : f[i] = f[i - 1] + size(i)
<1>1. L \in Nat /\ \A i \in 1 .. L : size(i) \in Nat
  BY EntryType
<1> HIDE DEF L, size
<1>2. \A k \in 0 .. L : \E f : Sum(f, k)
  <2> DEFINE T == {k \in 0 .. L : ~ \E f : Sum(f, k)}
  <2> SUFFICES ASSUME T # {} PROVE FALSE
    OBVIOUS
  <2>1. PICK k \in T : \A j \in T : k <= j
    <3>1. T \subseteq Nat
      BY <1>1
    <3> HIDE DEF T
    <3> QED BY <3>1, LeastNatural
  <2>2. CASE k = 0
    <3>1. Sum([i \in 0 .. 0 |-> 0], 0)
      OBVIOUS
    <3> QED BY <2>1, <2>2, <3>1
  <2>3. CASE k # 0
    <3>1. k \in 1 .. L /\ k - 1 \in 0 .. L /\ ~(k <= k - 1)
      BY <1>1, <2>3
    <3>2. PICK f : Sum(f, k - 1)
      BY <2>1, <3>1
    <3> DEFINE g == [i \in 0 .. k |-> IF i = k THEN f[k - 1] + size(k) ELSE f[i]]
    <3>3. Sum(g, k)
      <4>1. g \in [0 .. k -> Nat] /\ g[0] = 0
        BY <1>1, <3>1, <3>2
      <4>2. ASSUME NEW i \in 1 .. k PROVE g[i] = g[i - 1] + size(i)
        <5>1. i - 1 \in 0 .. k - 1 /\ g[i - 1] = f[i - 1]
          BY <1>1, <3>1
        <5>2. CASE i = k
          BY <5>1, <5>2
        <5>3. CASE i # k
          <6>1. i \in 1 .. k - 1 /\ i \in 0 .. k
            BY <1>1, <3>1, <5>3
          <6>2. g[i] = f[i]
            BY <5>3, <6>1
          <6> QED BY <3>2, <5>1, <6>1, <6>2
        <5> QED BY <5>2, <5>3
      <4> QED BY <4>1, <4>2
    <3> QED BY <2>1, <3>3
  <2> QED BY <2>2, <2>3
<1>3. PICK f : Sum(f, L)
  <2>1. L \in 0 .. L
    BY <1>1
  <2> HIDE DEF Sum
  <2> QED BY <1>2, <2>1
<1> DEFINE Eq(sum) == sum = [i \in 0 .. L |-> IF i = 0 THEN 0 ELSE sum[i - 1] + size(i)]
           total == CHOOSE sum : Eq(sum)
<1>4. Eq(f)
  BY <1>1, <1>3
<1>5. Eq(total)
  <2> HIDE DEF Eq
  <2> QED BY <1>4
<1>6. \A n \in 0 .. L : EvictedBytes(s, n) = total[n]
  BY DEF EvictedBytes, L, size
<1> HIDE DEF total
<1>7. total[0] = 0 /\ \A i \in 1 .. L : total[i] = total[i - 1] + size(i)
  BY <1>1, <1>5
<1>8. \A n \in 0 .. L : total[n] = f[n]
  <2> DEFINE T == {n \in 0 .. L : total[n] # f[n]}
  <2> SUFFICES ASSUME T # {} PROVE FALSE
    OBVIOUS
  <2>1. PICK n \in T : \A j \in T : n <= j
    <3>1. T \subseteq Nat
      BY <1>1
    <3> HIDE DEF T
    <3> QED BY <3>1, LeastNatural
  <2>2. n # 0
    BY <1>3, <1>7, <2>1
  <2>3. n \in 1 .. L /\ n - 1 \in 0 .. L /\ ~(n <= n - 1)
    BY <1>1, <2>1, <2>2
  <2>4. total[n - 1] = f[n - 1]
    BY <2>1, <2>3
  <2> QED BY <1>3, <1>7, <2>1, <2>3, <2>4
<1>9. \A n \in 0 .. L : f[n] \in Nat
  BY <1>3
<1>10. \A n \in 1 .. L : n - 1 \in 0 .. L /\ n \in 0 .. L
  BY <1>1
<1>11. 0 \in 0 .. L
  BY <1>1
<1> HIDE DEF Sum, Eq
<1> QED BY <1>6, <1>7, <1>8, <1>9, <1>10, <1>11 DEF L, size

\* The k entries of s behind a are those of t behind b.
SameRun(s, a, t, b, k) == \A i \in 1 .. k : s[a + i] = t[b + i]

\* Runs of the same entries have the same bytes.
LEMMA SameBytes ==
  ASSUME NEW s \in Seq(Entries), NEW t \in Seq(Entries),
         NEW a \in Nat, NEW b \in Nat, NEW k \in Nat, NEW c, NEW d,
         c = a + k, d = b + k, c <= Len(s), d <= Len(t), SameRun(s, a, t, b, k)
  PROVE  EvictedBytes(s, c) - EvictedBytes(s, a) = EvictedBytes(t, d) - EvictedBytes(t, b)
<1> DEFINE S(n) == EvictedBytes(s, n)
           T(n) == EvictedBytes(t, n)
           Bad == {n \in 0 .. k : S(a + n) - S(a) # T(b + n) - T(b)}
<1>1. /\ \A n \in 0 .. Len(s) : S(n) \in Nat
      /\ \A n \in 1 .. Len(s) : S(n) = S(n - 1) + Size[s[n].key]
  BY BytesSum
<1>2. /\ \A n \in 0 .. Len(t) : T(n) \in Nat
      /\ \A n \in 1 .. Len(t) : T(n) = T(n - 1) + Size[t[n].key]
  BY BytesSum
<1>3. Len(s) \in Nat /\ Len(t) \in Nat
  OBVIOUS
<1> HIDE DEF S, T
<1>4. ASSUME Bad # {} PROVE FALSE
  <2>1. PICK n \in Bad : \A j \in Bad : n <= j
    <3>1. Bad \subseteq Nat
      OBVIOUS
    <3> HIDE DEF Bad
    <3> QED BY <1>4, <3>1, LeastNatural
  <2>2. n \in 0 .. k /\ S(a + n) - S(a) # T(b + n) - T(b)
    BY <2>1
  <2>3. n # 0
    <3>1. S(a) \in Nat /\ T(b) \in Nat
      BY <1>1, <1>2, <1>3
    <3> QED BY <2>2, <3>1
  <2>4. n - 1 \in 0 .. k /\ ~(n <= n - 1) /\ n \in 1 .. k
    BY <2>2, <2>3
  <2>5. S(a + (n - 1)) - S(a) = T(b + (n - 1)) - T(b)
    BY <2>1, <2>4
  <2> HIDE DEF Bad
  <2>6. /\ a + n \in 1 .. Len(s) /\ b + n \in 1 .. Len(t)
        /\ (a + n) - 1 = a + (n - 1) /\ (b + n) - 1 = b + (n - 1)
        /\ a + (n - 1) \in 0 .. Len(s) /\ b + (n - 1) \in 0 .. Len(t)
        /\ a \in 0 .. Len(s) /\ b \in 0 .. Len(t)
    BY <1>3, <2>4
  <2>7. /\ S(a + n) = S(a + (n - 1)) + Size[s[a + n].key]
        /\ T(b + n) = T(b + (n - 1)) + Size[t[b + n].key]
    BY <1>1, <1>2, <2>6
  <2>8. s[a + n] = t[b + n]
    BY <2>4 DEF SameRun
  <2>9. /\ S(a) \in Nat /\ T(b) \in Nat /\ S(a + (n - 1)) \in Nat /\ T(b + (n - 1)) \in Nat
        /\ Size[s[a + n].key] \in Nat
    <3>1. Size[s[a + n].key] \in Nat
      BY <2>6, EntryType
    <3> QED BY <1>1, <1>2, <2>6, <3>1
  <2> DEFINE z == Size[s[a + n].key]
  <2>10. /\ S(a + n) = S(a + (n - 1)) + z /\ T(b + n) = T(b + (n - 1)) + z
         /\ z \in Nat
    BY <2>7, <2>8, <2>9
  <2> HIDE DEF z
  <2>11. S(a + n) - S(a) = T(b + n) - T(b)
    <3> DEFINE p == S(a + (n - 1))
               q == T(b + (n - 1))
               e == S(a)
               f == T(b)
    <3>1. /\ p \in Nat /\ q \in Nat /\ e \in Nat /\ f \in Nat /\ z \in Nat
          /\ S(a + n) = p + z /\ T(b + n) = q + z /\ p - e = q - f
      BY <2>5, <2>9, <2>10
    <3> DEFINE u == S(a + n)
               v == T(b + n)
    <3>2. u = p + z /\ v = q + z
      BY <3>1
    <3> HIDE DEF p, q, e, f, u, v
    <3>3. u - e = v - f
      BY <3>1, <3>2
    <3> QED BY <3>3 DEF u, v, e, f
  <2> QED BY <2>2, <2>11
<1>5. k \in 0 .. k
  OBVIOUS
<1> QED BY <1>4, <1>5 DEF S, T

\* A key that an entry has is found at its position.
LEMMA IndexOfKey ==
  ASSUME NEW s, NEW k, Holds(s, k)
  PROVE  IndexOf(s, k) \in DOMAIN s /\ s[IndexOf(s, k)].key = k
  BY DEF Holds, IndexOf

\* An entry and its bytes are removed together.
LEMMA RemovedBytes ==
  ASSUME NEW s \in Seq(Entries), NEW i \in 1 .. Len(s)
  PROVE  EvictedBytes(RemoveAt(s, i), Len(s) - 1) = EvictedBytes(s, Len(s)) - Size[s[i].key]
<1> DEFINE t == RemoveAt(s, i)
           S(n) == EvictedBytes(s, n)
           T(n) == EvictedBytes(t, n)
           z == Size[s[i].key]
<1>1. /\ t \in Seq(Entries) /\ Len(t) = Len(s) - 1
      /\ \A j \in 1 .. Len(s) - 1 : t[j] = IF j < i THEN s[j] ELSE s[j + 1]
  BY RemoveAtProperties
<1> HIDE DEF t
<1>2. Len(s) \in Nat /\ i \in Nat
  OBVIOUS
<1>3. /\ S(0) = 0 /\ S(i) = S(i - 1) + z
      /\ S(i) \in Nat /\ S(i - 1) \in Nat /\ S(Len(s)) \in Nat /\ z \in Nat
  <2>1. i - 1 \in 0 .. Len(s) /\ i \in 0 .. Len(s) /\ Len(s) \in 0 .. Len(s)
    BY <1>2
  <2> QED BY <2>1, BytesSum, EntryType
<1>4. T(0) = 0 /\ T(i - 1) \in Nat /\ T(Len(s) - 1) \in Nat
  <2>1. i - 1 \in 0 .. Len(t) /\ Len(s) - 1 \in 0 .. Len(t)
    BY <1>1, <1>2
  <2> QED BY <1>1, <2>1, BytesSum
<1>5. S(i - 1) - S(0) = T(i - 1) - T(0)
  <2>1. i - 1 \in Nat /\ i - 1 <= Len(s) /\ i - 1 <= Len(t) /\ i - 1 = 0 + (i - 1)
    BY <1>1, <1>2
  <2>2. SameRun(s, 0, t, 0, i - 1)
    BY <1>1, <1>2 DEF SameRun
  <2> QED BY <1>1, <2>1, <2>2, SameBytes
<1>6. S(Len(s)) - S(i) = T(Len(s) - 1) - T(i - 1)
  <2>1. /\ i - 1 \in Nat /\ Len(s) - i \in Nat /\ Len(s) = i + (Len(s) - i)
        /\ Len(s) - 1 = (i - 1) + (Len(s) - i) /\ Len(s) - 1 <= Len(t) /\ Len(s) <= Len(s)
    BY <1>1, <1>2
  <2>2. ASSUME NEW j \in 1 .. Len(s) - i PROVE s[i + j] = t[(i - 1) + j]
    <3>1. /\ (i - 1) + j \in 1 .. Len(s) - 1 /\ ~((i - 1) + j < i)
          /\ ((i - 1) + j) + 1 = i + j
      BY <1>2
    <3> QED BY <1>1, <3>1
  <2>3. SameRun(s, i, t, i - 1, Len(s) - i)
    BY <2>2 DEF SameRun
  <2> QED BY <1>1, <1>2, <2>1, <2>3, SameBytes
<1>7. T(Len(s) - 1) = S(Len(s)) - z
  <2> HIDE DEF S, T, z
  <2> QED BY <1>3, <1>4, <1>5, <1>6
<1> QED BY <1>7 DEF t

\* An entry and its bytes are added together.
LEMMA AppendedBytes ==
  ASSUME NEW s \in Seq(Entries), NEW e \in Entries
  PROVE  EvictedBytes(Append(s, e), Len(s) + 1) = EvictedBytes(s, Len(s)) + Size[e.key]
<1> DEFINE t == Append(s, e)
<1>1. /\ t \in Seq(Entries) /\ Len(t) = Len(s) + 1 /\ Len(s) \in Nat
      /\ \A j \in 1 .. Len(s) : t[j] = s[j]
      /\ t[Len(s) + 1] = e
  BY AppendProperties
<1> HIDE DEF t
<1>2. EvictedBytes(t, Len(s) + 1) = EvictedBytes(t, Len(s)) + Size[e.key]
  <2>1. Len(s) + 1 \in 1 .. Len(t) /\ (Len(s) + 1) - 1 = Len(s)
    BY <1>1
  <2> QED BY <1>1, <2>1, BytesSum
<1>3. EvictedBytes(s, Len(s)) - EvictedBytes(s, 0) = EvictedBytes(t, Len(s)) - EvictedBytes(t, 0)
  <2>1. Len(s) <= Len(s) /\ Len(s) <= Len(t) /\ Len(s) = 0 + Len(s)
    BY <1>1
  <2>2. SameRun(s, 0, t, 0, Len(s))
    BY <1>1 DEF SameRun
  <2> QED BY <1>1, <2>1, <2>2, SameBytes
<1>4. /\ EvictedBytes(s, 0) = 0 /\ EvictedBytes(t, 0) = 0
      /\ EvictedBytes(s, Len(s)) \in Nat /\ EvictedBytes(t, Len(s)) \in Nat
  <2>1. Len(s) \in 0 .. Len(s) /\ Len(s) \in 0 .. Len(t)
    BY <1>1
  <2> QED BY <1>1, <2>1, BytesSum
<1>5. EvictedBytes(t, Len(s)) = EvictedBytes(s, Len(s))
  BY <1>3, <1>4
<1> QED BY <1>2, <1>5 DEF t

\* The bytes of what is left when the n oldest entries are gone.
LEMMA SuffixBytes ==
  ASSUME NEW s \in Seq(Entries), NEW n \in 0 .. Len(s)
  PROVE  LET t == SubSeq(s, n + 1, Len(s))
         IN  /\ t \in Seq(Entries) /\ Len(t) = Len(s) - n
             /\ \A i \in 1 .. Len(s) - n : t[i] = s[n + i]
             /\ EvictedBytes(t, Len(t)) = EvictedBytes(s, Len(s)) - EvictedBytes(s, n)
<1> DEFINE t == SubSeq(s, n + 1, Len(s))
<1>1. Len(s) \in Nat /\ n \in Nat
  OBVIOUS
<1>2. t \in Seq(Entries) /\ Len(t) = Len(s) - n /\ \A i \in 1 .. Len(s) - n : t[i] = s[n + i]
  <2>1. \A i \in n + 1 .. Len(s) : s[i] \in Entries
    BY <1>1, EntryType
  <2>2. /\ t \in Seq(Entries)
        /\ Len(t) = IF n + 1 <= Len(s) THEN Len(s) - (n + 1) + 1 ELSE 0
        /\ \A i \in 1 .. Len(s) - (n + 1) + 1 : t[i] = s[(n + 1) + i - 1]
    BY <1>1, <2>1, SubSeqProperties
  <2>3. Len(t) = Len(s) - n
    BY <1>1, <2>2
  <2>4. ASSUME NEW i \in 1 .. Len(s) - n PROVE t[i] = s[n + i]
    <3>1. i \in 1 .. Len(s) - (n + 1) + 1 /\ (n + 1) + i - 1 = n + i
      BY <1>1
    <3> QED BY <2>2, <3>1
  <2> QED BY <2>2, <2>3, <2>4
<1> HIDE DEF t
<1>3. /\ Len(s) <= Len(s) /\ Len(t) <= Len(t) /\ Len(t) \in Nat
      /\ Len(s) = n + Len(t) /\ Len(t) = 0 + Len(t)
  BY <1>1, <1>2
<1>4. EvictedBytes(s, Len(s)) - EvictedBytes(s, n) = EvictedBytes(t, Len(t)) - EvictedBytes(t, 0)
  <2>1. SameRun(s, n, t, 0, Len(t))
    BY <1>1, <1>2 DEF SameRun
  <2> QED BY <1>1, <1>2, <1>3, <2>1, SameBytes
<1>5. EvictedBytes(t, 0) = 0 /\ EvictedBytes(t, Len(t)) \in Nat
  <2>1. Len(t) \in 0 .. Len(t)
    BY <1>2
  <2> QED BY <1>2, <2>1, BytesSum
<1>6. EvictedBytes(t, Len(t)) = EvictedBytes(s, Len(s)) - EvictedBytes(s, n)
  BY <1>4, <1>5
<1> QED BY <1>2, <1>6 DEF t

-----------------------------------------------------------------------------
(* The memo.                                                                 *)

Memos == [entries : Seq(Entries), used : Nat]

\* Entries a memo may hold: whole, and one of each key.
Sound(s) ==
  /\ \A i \in DOMAIN s : s[i].whole
  /\ \A i, j \in DOMAIN s : s[i].key = s[j].key => i = j

\* A memo that is within its limits and counts its bytes.
Kept(m) ==
  /\ m \in Memos /\ Sound(m.entries)
  /\ Len(m.entries) <= MaxEntries /\ m.used <= MaxBytes
  /\ m.used = EvictedBytes(m.entries, Len(m.entries))

\* A removal leaves sound entries sound, and takes the key away.
LEMMA RemovedSound ==
  ASSUME NEW s \in Seq(Entries), Sound(s), NEW i \in 1 .. Len(s)
  PROVE  /\ RemoveAt(s, i) \in Seq(Entries) /\ Len(RemoveAt(s, i)) = Len(s) - 1
         /\ Sound(RemoveAt(s, i))
         /\ ~Holds(RemoveAt(s, i), s[i].key)
<1> DEFINE t == RemoveAt(s, i)
           old(j) == IF j < i THEN j ELSE j + 1
<1>1. /\ t \in Seq(Entries) /\ Len(t) = Len(s) - 1
      /\ \A j \in 1 .. Len(s) - 1 : t[j] = IF j < i THEN s[j] ELSE s[j + 1]
  BY RemoveAtProperties
<1>2. Len(s) \in Nat /\ DOMAIN s = 1 .. Len(s)
  OBVIOUS
<1> HIDE DEF t
<1>3. DOMAIN t = 1 .. Len(s) - 1
  BY <1>1, <1>2
<1>4. \A j \in DOMAIN t : old(j) \in DOMAIN s /\ old(j) # i /\ t[j] = s[old(j)]
  BY <1>1, <1>2, <1>3
<1>5. \A j, k \in DOMAIN t : old(j) = old(k) => j = k
  BY <1>1, <1>2, <1>3
<1> HIDE DEF old
<1>6. \A j \in DOMAIN t : t[j].whole
  BY <1>4 DEF Sound
<1>7. \A j, k \in DOMAIN t : t[j].key = t[k].key => j = k
  BY <1>4, <1>5 DEF Sound
<1>8. \A j \in DOMAIN t : t[j].key # s[i].key
  BY <1>2, <1>4 DEF Sound
<1> QED BY <1>1, <1>6, <1>7, <1>8 DEF Sound, Holds, t

\* An entry of a new key leaves sound entries sound.
LEMMA AppendedSound ==
  ASSUME NEW s \in Seq(Entries), Sound(s), NEW e \in Entries, e.whole, ~Holds(s, e.key)
  PROVE  /\ Append(s, e) \in Seq(Entries) /\ Len(Append(s, e)) = Len(s) + 1
         /\ Sound(Append(s, e))
         /\ Last(Append(s, e)) = e
<1> DEFINE t == Append(s, e)
<1>1. /\ t \in Seq(Entries) /\ Len(t) = Len(s) + 1 /\ Len(s) \in Nat
      /\ DOMAIN s = 1 .. Len(s) /\ DOMAIN t = 1 .. Len(s) + 1
      /\ \A j \in 1 .. Len(s) : t[j] = s[j]
      /\ t[Len(s) + 1] = e
  BY AppendProperties
<1> HIDE DEF t
<1>2. \A j \in DOMAIN t : t[j].whole
  BY <1>1 DEF Sound
<1>3. ASSUME NEW j \in DOMAIN t, NEW k \in DOMAIN t, t[j].key = t[k].key
      PROVE  j = k
  <2>1. \A l \in 1 .. Len(s) : s[l].key # e.key
    BY <1>1 DEF Holds
  <2>2. CASE j = Len(s) + 1
    BY <1>1, <1>3, <2>1, <2>2
  <2>3. CASE k = Len(s) + 1
    BY <1>1, <1>3, <2>1, <2>3
  <2>4. CASE j # Len(s) + 1 /\ k # Len(s) + 1
    <3>1. j \in DOMAIN s /\ k \in DOMAIN s /\ t[j] = s[j] /\ t[k] = s[k]
      BY <1>1, <2>4
    <3> QED BY <1>3, <3>1 DEF Sound
  <2> QED BY <2>2, <2>3, <2>4
<1>4. Last(t) = e
  BY <1>1 DEF Last
<1>5. Sound(t)
  BY <1>2, <1>3 DEF Sound
<1> QED BY <1>1, <1>4, <1>5 DEF t

\* A memo without a key is a memo.
LEMMA WithoutKept ==
  ASSUME NEW m, Kept(m), NEW k \in Keys
  PROVE  Kept(Without(m, k)) /\ ~Holds(Without(m, k).entries, k)
<1> DEFINE s == m.entries
           i == IndexOf(s, k)
           z == Size[s[i].key]
<1>1. /\ s \in Seq(Entries) /\ Sound(s) /\ m.used \in Nat
      /\ Len(s) <= MaxEntries /\ m.used <= MaxBytes /\ m.used = EvictedBytes(s, Len(s))
  BY DEF Kept, Memos
<1>2. CASE ~Holds(s, k)
  BY <1>2 DEF Without
<1>3. CASE Holds(s, k)
  <2>1. i \in 1 .. Len(s) /\ s[i].key = k
    BY <1>1, <1>3, IndexOfKey
  <2> DEFINE t == RemoveAt(s, i)
  <2>2. Without(m, k) = [entries |-> t, used |-> m.used - z]
    BY <1>3 DEF Without
  <2>3. t \in Seq(Entries) /\ Len(t) = Len(s) - 1 /\ Sound(t) /\ ~Holds(t, k)
    BY <1>1, <2>1, RemovedSound
  <2>4. EvictedBytes(t, Len(t)) = m.used - z
    BY <1>1, <2>1, <2>3, RemovedBytes
  <2>5. z \in Nat /\ EvictedBytes(t, Len(t)) \in Nat
    <3>1. Len(t) \in 0 .. Len(t)
      BY <2>3
    <3> QED BY <1>1, <2>1, <2>3, <3>1, EntryType, BytesSum
  <2> HIDE DEF t, i, z, s
  <2>6. m.used - z \in Nat /\ m.used - z <= MaxBytes /\ Len(t) <= MaxEntries
    BY <1>1, <2>3, <2>4, <2>5, ServerAssumption
  <2> QED BY <2>2, <2>3, <2>4, <2>6 DEF Kept, Memos
<1> QED BY <1>2, <1>3

\* A hit moves an entry to the back and keeps the memo.
LEMMA TouchedKept ==
  ASSUME NEW m, Kept(m), NEW k \in Keys, Holds(m.entries, k)
  PROVE  Kept(Touched(m, k)) /\ Last(Touched(m, k).entries) = Output(k)
<1> DEFINE s == m.entries
           i == IndexOf(s, k)
           z == Size[s[i].key]
           t == RemoveAt(s, i)
           e == s[i]
           u == Append(t, e)
<1>1. /\ s \in Seq(Entries) /\ Sound(s) /\ m.used \in Nat
      /\ Len(s) <= MaxEntries /\ m.used <= MaxBytes /\ m.used = EvictedBytes(s, Len(s))
  BY DEF Kept, Memos
<1>2. i \in 1 .. Len(s) /\ e.key = k /\ e \in Entries /\ z = Size[e.key]
  BY <1>1, IndexOfKey, EntryType
<1>3. e.whole /\ e = Output(k)
  <2>1. e.whole
    BY <1>1, <1>2 DEF Sound
  <2> QED BY <1>2, <2>1 DEF Entries, Output
<1>4. Touched(m, k) = [entries |-> u, used |-> m.used]
  <2>1. Touched(m, k) = [m EXCEPT !.entries = u]
    BY DEF Touched
  <2>2. m \in [entries : Seq(Entries), used : Nat]
    BY DEF Kept, Memos
  <2> HIDE DEF u
  <2> QED BY <2>1, <2>2
<1>5. t \in Seq(Entries) /\ Len(t) = Len(s) - 1 /\ Sound(t) /\ ~Holds(t, k)
  BY <1>1, <1>2, RemovedSound
<1>6. EvictedBytes(t, Len(t)) = m.used - z
  BY <1>1, <1>2, <1>5, RemovedBytes
<1>7. z \in Nat /\ Len(s) \in Nat
  BY <1>1, <1>2, EntryType
<1> HIDE DEF t, i, e, s
<1>8. u \in Seq(Entries) /\ Len(u) = Len(t) + 1 /\ Sound(u) /\ Last(u) = e
  BY <1>2, <1>3, <1>5, AppendedSound
<1>9. EvictedBytes(u, Len(u)) = EvictedBytes(t, Len(t)) + z
  BY <1>2, <1>5, <1>8, AppendedBytes
<1> HIDE DEF u, z
<1>10. EvictedBytes(u, Len(u)) = m.used /\ Len(u) = Len(s)
  BY <1>1, <1>5, <1>6, <1>7, <1>8, <1>9
<1> QED BY <1>1, <1>3, <1>4, <1>8, <1>10 DEF Kept, Memos

\* The oldest entries are evicted until the new one fits, or none is left.
LEMMA EvictionsSuffice ==
  ASSUME NEW m \in Memos, NEW bytes
  PROVE  /\ Evictions(m, bytes) \in 0 .. Len(m.entries)
         /\ Evictions(m, bytes) = Len(m.entries) \/ Fits(m, bytes, Evictions(m, bytes))
<1> DEFINE L == Len(m.entries)
           T == {n \in 0 .. L : n = L \/ Fits(m, bytes, n)}
           Ok(n) == /\ n = L \/ Fits(m, bytes, n)
                    /\ \A j \in 0 .. n - 1 : ~Fits(m, bytes, j)
<1>1. L \in Nat
  BY DEF Memos
<1> HIDE DEF L
<1>2. PICK n \in T : \A j \in T : n <= j
  <2>1. T \subseteq Nat /\ L \in T
    BY <1>1
  <2> HIDE DEF T
  <2> QED BY <2>1, LeastNatural
<1>3. n \in 0 .. L /\ (n = L \/ Fits(m, bytes, n))
  BY <1>2
<1>4. ASSUME NEW j \in 0 .. n - 1 PROVE ~Fits(m, bytes, j)
  <2>1. j \in 0 .. L /\ ~(n <= j)
    BY <1>1, <1>3
  <2> QED BY <1>2, <2>1
<1>5. Ok(n)
  BY <1>3, <1>4
<1>6. Evictions(m, bytes) = CHOOSE i \in 0 .. L : Ok(i)
  BY DEF Evictions, L
<1> DEFINE chosen == CHOOSE i \in 0 .. L : Ok(i)
<1>7. chosen \in 0 .. L /\ Ok(chosen)
  <2> HIDE DEF Ok
  <2> QED BY <1>3, <1>5
<1> HIDE DEF chosen
<1>8. chosen = L \/ Fits(m, bytes, chosen)
  BY <1>7
<1> QED BY <1>6, <1>7, <1>8 DEF L, chosen

\* An output that is put is kept within the limits, or declined.
LEMMA PutKept ==
  ASSUME NEW m, Kept(m), NEW k \in Keys
  PROVE  Kept(Put(m, Output(k)))
<1> DEFINE e == Output(k)
           z == Size[k]
           rest == Without(m, k)
           s == rest.entries
           n == Evictions(rest, z)
           t == SubSeq(s, n + 1, Len(s))
           u == Append(t, e)
           left == rest.used - EvictedBytes(s, n)
<1>1. e \in Entries /\ e.key = k /\ e.whole
  BY DEF Output, Entries
<1>2. z \in Nat /\ MaxEntries \in Nat /\ MaxBytes \in Nat
  BY ServerAssumption
<1>3. Kept(rest) /\ ~Holds(s, k)
  BY WithoutKept
<1>4. CASE MaxEntries = 0 \/ MaxBytes = 0 \/ z > MaxBytes
  BY <1>1, <1>4 DEF Put
<1>5. CASE ~(MaxEntries = 0 \/ MaxBytes = 0 \/ z > MaxBytes)
  <2>1. Put(m, e) = [entries |-> u, used |-> left + z]
    BY <1>1, <1>5 DEF Put
  <2> HIDE DEF e, z, rest
  <2>2. /\ rest \in Memos /\ s \in Seq(Entries) /\ Sound(s) /\ rest.used \in Nat
        /\ rest.used = EvictedBytes(s, Len(s)) /\ Len(s) \in Nat
    BY <1>3 DEF Kept, Memos
  <2>3. n \in 0 .. Len(s) /\ (n = Len(s) \/ Fits(rest, z, n))
    BY <2>2, EvictionsSuffice
  <2> HIDE DEF n
  <2>4. /\ t \in Seq(Entries) /\ Len(t) = Len(s) - n
        /\ \A i \in 1 .. Len(s) - n : t[i] = s[n + i]
        /\ EvictedBytes(t, Len(t)) = left
    BY <2>2, <2>3, SuffixBytes
  <2>5. EvictedBytes(t, Len(t)) \in Nat
    <3>1. Len(t) \in 0 .. Len(t)
      BY <2>4
    <3> QED BY <2>4, <3>1, BytesSum
  <2> HIDE DEF t
  <2>6. Sound(t) /\ ~Holds(t, k)
    <3> DEFINE old(i) == n + i
    <3>1. DOMAIN s = 1 .. Len(s) /\ DOMAIN t = 1 .. Len(s) - n
      BY <2>2, <2>3, <2>4
    <3>2. \A i \in DOMAIN t : old(i) \in DOMAIN s /\ t[i] = s[old(i)]
      BY <2>2, <2>3, <2>4, <3>1
    <3>3. \A i, j \in DOMAIN t : old(i) = old(j) => i = j
      BY <2>2, <2>3, <3>1
    <3> HIDE DEF old, s
    <3>4. \A i \in DOMAIN t : t[i].whole /\ t[i].key # k
      BY <1>3, <2>2, <3>2 DEF Sound, Holds
    <3>5. \A i, j \in DOMAIN t : t[i].key = t[j].key => i = j
      BY <2>2, <3>2, <3>3 DEF Sound
    <3> QED BY <3>4, <3>5 DEF Sound, Holds
  <2> DEFINE l == Len(t)
  <2>7. u \in Seq(Entries) /\ Len(u) = l + 1 /\ Sound(u)
    BY <1>1, <2>4, <2>6, AppendedSound
  <2>8. EvictedBytes(u, Len(u)) = left + z
    <3>1. EvictedBytes(u, Len(t) + 1) = EvictedBytes(t, Len(t)) + Size[e.key]
      BY <1>1, <2>4, AppendedBytes
    <3> QED BY <1>1, <2>4, <2>7, <3>1 DEF z
  <2>9. left \in Nat
    BY <2>4, <2>5
  <2> DEFINE f == EvictedBytes(s, n)
  <2>10. l + 1 <= MaxEntries /\ left + z <= MaxBytes
    <3>1. CASE n = Len(s)
      <4>1. left = 0 /\ l = 0
        BY <2>2, <2>4, <3>1
      <4> HIDE DEF left, l
      <4> QED BY <1>2, <1>5, <4>1
    <3>2. CASE Fits(rest, z, n)
      BY <1>2, <2>4, <3>2 DEF Fits
    <3> QED BY <2>3, <3>1, <3>2
  <2> HIDE DEF u, left, l
  <2>11. left + z \in Nat /\ Len(u) <= MaxEntries
    BY <1>2, <2>7, <2>9, <2>10
  <2> QED BY <2>1, <2>7, <2>8, <2>10, <2>11 DEF Kept, Memos, e
<1> QED BY <1>4, <1>5

\* The front of a queue is dropped from its head.
LEMMA TailDropped ==
  ASSUME NEW S, NEW s \in Seq(S), IsInjective(s), s # <<>>
  PROVE  Tail(s) = Dropped(s, s[1])
<1>1. /\ Len(s) \in Nat /\ DOMAIN s = 1 .. Len(s) /\ 1 \in 1 .. Len(s)
      /\ Tail(s) \in Seq(S) /\ Len(Tail(s)) = Len(s) - 1
      /\ \A j \in 1 .. Len(s) - 1 : Tail(s)[j] = s[j + 1]
  OBVIOUS
<1> DEFINE i == CHOOSE i \in DOMAIN s : s[i] = s[1]
<1>2. i = 1
  BY <1>1 DEF IsInjective
<1>3. s[1] \in ToSet(s)
  BY <1>1 DEF ToSet
<1>4. Dropped(s, s[1]) = RemoveAt(s, 1)
  <2>1. Dropped(s, s[1]) = RemoveAt(s, i)
    BY <1>3 DEF Dropped
  <2> HIDE DEF i
  <2> QED BY <1>2, <2>1
<1> DEFINE t == RemoveAt(s, 1)
           u == Tail(s)
<1>5. /\ t \in Seq(S) /\ Len(t) = Len(s) - 1
      /\ \A j \in 1 .. Len(s) - 1 : t[j] = IF j < 1 THEN s[j] ELSE s[j + 1]
  BY <1>1, RemoveAtProperties
<1>6. u \in Seq(S) /\ Len(u) = Len(s) - 1 /\ \A j \in 1 .. Len(s) - 1 : u[j] = s[j + 1]
  BY <1>1
<1> HIDE DEF t, u
<1>7. \A j \in 1 .. Len(s) - 1 : t[j] = u[j]
  BY <1>1, <1>5, <1>6
<1>8. t = u
  BY <1>5, <1>6, <1>7, SeqEqual
<1> QED BY <1>4, <1>8 DEF t, u

-----------------------------------------------------------------------------
(* Workers.                                                                  *)

Places == Permitted \cup Ticketed \cup {"out"}

Workers == [at : Places, key : Keys, gone : BOOLEAN, reply : SUBSET Entries]

\* What a worker has to say is certified, and said after the target.
Certified(w) ==
  /\ w.at \notin {"respond", "settle", "leave"} => w.reply = {}
  /\ \A o \in w.reply : o = Output(w.key)

\* The part of the invariant that is about the gate ...
GateInv == PermitInv /\ QueueInv /\ ArrivalOrder

\* ... and the part that is about answers.
AnswerInv == SettledBeforeNext /\ ReplyInv /\ OnlyCertified /\ MemoBounds

\* The types, with the names used here.
LEMMA Types ==
  TypeOK <=> /\ generating \in BOOLEAN
             /\ waiting \in Seq(Clients) /\ Len(waiting) <= QueueSlots
             /\ client \in [Clients -> Workers]
             /\ memo \in Memos
             /\ unsettled \subseteq Clients
             /\ order \in Seq(Clients)
  BY DEF TypeOK, Workers, Places, Memos, Entries

\* What a step that leaves only certified workers and a memo in its limits keeps.
LEMMA AnswersKept ==
  ASSUME client' \in [Clients -> Workers],
         \A d \in Clients : Certified(client'[d]),
         \A d \in unsettled' : d \in Clients /\ client'[d].at \in {"target", "respond", "settle"},
         Kept(memo')
  PROVE  AnswerInv' /\ memo' \in Memos /\ (unsettled \subseteq Clients)'
<1>1. SettledBeforeNext'
  BY DEF SettledBeforeNext, Holders, Permitted
<1>2. ReplyInv'
  BY DEF ReplyInv, Certified
<1>3. OnlyCertified' /\ MemoBounds' /\ memo' \in Memos
  BY DEF OnlyCertified, MemoBounds, Certified, Kept, Sound
<1> QED BY <1>1, <1>2, <1>3 DEF AnswerInv

\* The same facts, from the invariant.
LEMMA AnswerFacts ==
  ASSUME IInv
  PROVE  /\ \A d \in Clients : Certified(client[d])
         /\ \A d \in unsettled : d \in Clients /\ client[d].at \in {"target", "respond", "settle"}
         /\ Kept(memo)
<1>1. memo \in Memos /\ unsettled \subseteq Clients
  BY Types DEF IInv
<1>2. Kept(memo)
  BY <1>1 DEF IInv, OnlyCertified, MemoBounds, Kept, Sound
<1>3. \A d \in Clients : Certified(client[d])
  BY DEF IInv, OnlyCertified, ReplyInv, Certified
<1> QED BY <1>1, <1>2, <1>3 DEF IInv, SettledBeforeNext

\* Places that the gate does not tell apart.
Alike(p, q) == \/ p \in Permitted /\ q \in Permitted
               \/ p \in Ticketed /\ q \in Ticketed
               \/ p = q

\* A step of one worker that leaves the gate alone.
LEMMA MoveKeeps ==
  ASSUME IInv, NEW c \in Clients, UNCHANGED <<gate, order>>,
         client' \in [Clients -> Workers],
         \A d \in Clients \ {c} : client'[d] = client[d],
         Alike(client[c].at, client'[c].at), Certified(client'[c]),
         unsettled' \ {c} \subseteq unsettled,
         c \in unsettled' => client'[c].at \in {"target", "respond", "settle"},
         Kept(memo')
  PROVE  IInv'
<1>1. /\ \A d \in Clients : Certified(client'[d])
      /\ \A d \in unsettled' : d \in Clients /\ client'[d].at \in {"target", "respond", "settle"}
  BY AnswerFacts
<1>2. AnswerInv' /\ memo' \in Memos /\ (unsettled \subseteq Clients)'
  BY <1>1, AnswersKept
<1>3. TypeOK'
  <2>1. TypeOK
    BY DEF IInv
  <2> QED BY <1>2, <2>1 DEF TypeOK, Workers, Places, Memos, Entries, gate
<1>4. Holders' = Holders /\ Waiters' = Waiters
  <2>1. Permitted \cap Ticketed = {}
    BY DEF Permitted, Ticketed
  <2>2. \A d \in Clients : /\ client'[d].at \in Permitted <=> client[d].at \in Permitted
                           /\ client'[d].at \in Ticketed <=> client[d].at \in Ticketed
    BY <2>1 DEF Alike
  <2> QED BY <2>2 DEF Holders, Waiters
<1>5. GateInv'
  <2>1. GateInv
    BY DEF IInv, GateInv
  <2>2. PermitInv' /\ QueueInv'
    BY <1>4, <2>1 DEF GateInv, PermitInv, QueueInv, gate
  <2>3. ArrivalOrder'
    BY <1>4, <2>1 DEF GateInv, ArrivalOrder, Before, gate
  <2> QED BY <2>2, <2>3 DEF GateInv
<1> QED BY <1>2, <1>3, <1>5 DEF IInv, AnswerInv, GateInv

\* Going to a place changes nothing else.
LEMMA GoesTo ==
  ASSUME client \in [Clients -> Workers], NEW c \in Clients, NEW p \in Places,
         client' = Goes(c, p)
  PROVE  /\ client' \in [Clients -> Workers]
         /\ \A d \in Clients \ {c} : client'[d] = client[d]
         /\ client'[c].at = p /\ client'[c].key = client[c].key
         /\ client'[c].reply = client[c].reply
<1>1. client[c] \in Workers
  OBVIOUS
<1>2. client' = [client EXCEPT ![c] = [client[c] EXCEPT !.at = p]]
  BY DEF Goes
<1>3. [client[c] EXCEPT !.at = p] \in Workers
  BY <1>1 DEF Workers
<1>4. client'[c] = [client[c] EXCEPT !.at = p]
  BY <1>2
<1>5. \A d \in Clients \ {c} : client'[d] = client[d]
  BY <1>2
<1>6. client' \in [Clients -> Workers]
  BY <1>2, <1>3
<1> QED BY <1>1, <1>4, <1>5, <1>6 DEF Workers

\* The gate's places are of two kinds.
LEMMA PlacesAre ==
  /\ Permitted \subseteq Places /\ Ticketed \subseteq Places /\ "out" \in Places
  /\ Permitted \cap Ticketed = {} /\ "out" \notin Permitted \cup Ticketed
  BY DEF Places, Permitted, Ticketed

\* What Goes within the gate keeps, when nothing else changes.
LEMMA GoesKeeps ==
  ASSUME IInv, NEW c \in Clients, NEW p \in Places, client' = Goes(c, p),
         UNCHANGED <<gate, memo, order>>,
         Alike(client[c].at, p),
         client[c].reply # {} => p \in {"respond", "settle", "leave"},
         unsettled' \ {c} \subseteq unsettled,
         c \in unsettled' => p \in {"target", "respond", "settle"}
  PROVE  IInv'
<1>1. client \in [Clients -> Workers]
  BY Types DEF IInv
<1>2. /\ client' \in [Clients -> Workers]
      /\ \A d \in Clients \ {c} : client'[d] = client[d]
      /\ client'[c].at = p /\ client'[c].key = client[c].key
      /\ client'[c].reply = client[c].reply
  BY <1>1, GoesTo
<1>3. Certified(client'[c])
  <2>1. Certified(client[c])
    BY AnswerFacts
  <2> QED BY <1>2, <2>1 DEF Certified
<1>4. Kept(memo')
  BY AnswerFacts
<1> QED BY <1>2, <1>3, <1>4, MoveKeeps

-----------------------------------------------------------------------------
(* Steps that leave the gate alone.                                          *)

LEMMA QuietInv ==
  ASSUME IInv, NEW c \in Clients,
         \/ TicketBody(c) \/ Timeout(c) \/ ProbePresent(c)
         \/ Body(c) \/ PostWithoutTarget(c)
         \/ GenerateFails(c) \/ Settle(c)
  PROVE  IInv'
<1>1. Certified(client[c])
  BY AnswerFacts
<1>2. c \in unsettled => client[c].at \in {"target", "respond", "settle"}
  BY AnswerFacts
<1>3. CASE TicketBody(c) \/ Timeout(c) \/ ProbePresent(c)
  <2>1. \E p \in {"check", "probe"} : client' = Goes(c, p)
    BY <1>3 DEF TicketBody, Timeout, ProbePresent
  <2>2. /\ UNCHANGED <<gate, memo, unsettled, order>>
        /\ client[c].at \in {"ticket", "asleep", "probe"}
    BY <1>3 DEF TicketBody, Timeout, ProbePresent, At
  <2>3. PICK p \in {"check", "probe"} : client' = Goes(c, p)
    BY <2>1
  <2>4. p \in Places /\ Alike(client[c].at, p) /\ client[c].reply = {} /\ c \notin unsettled
    BY <1>1, <1>2, <2>2 DEF Places, Alike, Ticketed, Certified
  <2> QED BY <2>2, <2>3, <2>4, GoesKeeps
<1>4. CASE Body(c)
  <2>1. client' = Goes(c, "post") /\ UNCHANGED <<gate, memo, unsettled, order>> /\ client[c].at = "body"
    BY <1>4 DEF Body, At
  <2>2. "post" \in Places /\ Alike(client[c].at, "post") /\ client[c].reply = {} /\ c \notin unsettled
    BY <1>1, <1>2, <2>1 DEF Places, Alike, Permitted, Certified
  <2> QED BY <2>1, <2>2, GoesKeeps
<1>5. CASE PostWithoutTarget(c)
  <2>1. /\ client' = Goes(c, "leave") /\ UNCHANGED <<gate, memo, unsettled, order>>
        /\ client[c].at = "post"
    BY <1>5 DEF PostWithoutTarget, At
  <2>2. "leave" \in Places /\ Alike(client[c].at, "leave") /\ c \notin unsettled
    BY <1>1, <1>2, <2>1 DEF Places, Alike, Permitted
  <2> QED BY <2>1, <2>2, GoesKeeps
<1>6. CASE GenerateFails(c)
  <2>1. /\ client' = Goes(c, "respond") /\ UNCHANGED <<gate, memo, unsettled, order>>
        /\ client[c].at = "target"
    BY <1>6 DEF GenerateFails, At
  <2>2. "respond" \in Places /\ Alike(client[c].at, "respond")
    BY <2>1 DEF Places, Alike, Permitted
  <2> QED BY <2>1, <2>2, GoesKeeps
<1>7. CASE Settle(c)
  <2>1. /\ client' = Goes(c, "leave") /\ UNCHANGED <<gate, memo, order>>
        /\ unsettled' = unsettled \ {c} /\ client[c].at = "settle"
    BY <1>7 DEF Settle, At
  <2>2. "leave" \in Places /\ Alike(client[c].at, "leave")
    BY <2>1 DEF Places, Alike, Permitted
  <2> QED BY <2>1, <2>2, GoesKeeps
<1> QED BY <1>3, <1>4, <1>5, <1>6, <1>7

\* The disconnect of a client is noticed later.
LEMMA DisconnectInv ==
  ASSUME IInv, NEW c \in Clients, Disconnect(c)
  PROVE  IInv'
<1>1. /\ client' = [client EXCEPT ![c].gone = TRUE]
      /\ UNCHANGED <<gate, memo, unsettled, order>>
  BY DEF Disconnect
<1>2. client \in [Clients -> Workers] /\ client[c] \in Workers
  BY Types DEF IInv
<1>3. client' = [client EXCEPT ![c] = [client[c] EXCEPT !.gone = TRUE]]
  BY <1>1
<1> DEFINE w == [client[c] EXCEPT !.gone = TRUE]
<1>4. w \in Workers /\ w.at = client[c].at /\ w.key = client[c].key /\ w.reply = client[c].reply
  BY <1>2 DEF Workers
<1> HIDE DEF w
<1>5. client' \in [Clients -> Workers] /\ client'[c] = w /\ \A d \in Clients \ {c} : client'[d] = client[d]
  BY <1>2, <1>3, <1>4 DEF w
<1>6. Certified(client'[c]) /\ Alike(client[c].at, client'[c].at)
  <2>1. Certified(client[c])
    BY AnswerFacts
  <2> QED BY <1>4, <1>5, <2>1 DEF Certified, Alike
<1>7. c \in unsettled' => client'[c].at \in {"target", "respond", "settle"}
  BY <1>1, <1>4, <1>5, AnswerFacts
<1>8. Kept(memo') /\ unsettled' \ {c} \subseteq unsettled
  BY <1>1, AnswerFacts
<1> QED BY <1>1, <1>5, <1>6, <1>7, <1>8, MoveKeeps

-----------------------------------------------------------------------------
(* Answers.                                                                  *)

\* A worker that is given a new record within the permit.
LEMMA AnswerKeeps ==
  ASSUME IInv, NEW c \in Clients, NEW w, w \in Workers, client' = [client EXCEPT ![c] = w],
         UNCHANGED <<gate, order>>,
         client[c].at \in Permitted, w.at \in Permitted, Certified(w),
         unsettled' \ {c} \subseteq unsettled,
         c \in unsettled' => w.at \in {"target", "respond", "settle"},
         Kept(memo')
  PROVE  IInv'
<1>1. client \in [Clients -> Workers]
  BY Types DEF IInv
<1>2. client' \in [Clients -> Workers] /\ client'[c] = w /\ \A d \in Clients \ {c} : client'[d] = client[d]
  BY <1>1
<1>3. Alike(client[c].at, client'[c].at)
  BY <1>2 DEF Alike
<1> QED BY <1>2, <1>3, MoveKeeps

LEMMA PostCachedInv ==
  ASSUME IInv, NEW c \in Clients, NEW k \in Keys, PostCached(c, k)
  PROVE  IInv'
<1>1. /\ client[c].at = "post" /\ Holds(memo.entries, k)
      /\ memo' = Touched(memo, k)
      /\ client' = [client EXCEPT ![c].at = "leave", ![c].key = k,
                                  ![c].reply = {Last(memo'.entries)}]
      /\ UNCHANGED <<gate, unsettled, order>>
  BY DEF PostCached, At, Cached
<1>2. Kept(memo') /\ Last(memo'.entries) = Output(k)
  BY <1>1, AnswerFacts, TouchedKept
<1>3. client \in [Clients -> Workers] /\ client[c] \in Workers
  BY Types DEF IInv
<1> DEFINE w == [client[c] EXCEPT !.at = "leave", !.key = k, !.reply = {Output(k)}]
<1>4. client' = [client EXCEPT ![c] = w]
  BY <1>1, <1>2, <1>3 DEF Workers
<1>5. w \in Workers /\ w.at = "leave" /\ w.key = k /\ w.reply = {Output(k)}
  <2>1. Output(k) \in Entries
    BY DEF Output, Entries
  <2> QED BY <1>3, <2>1 DEF Workers, Places, Permitted
<1> HIDE DEF w
<1>6. Certified(w) /\ w.at \in Permitted /\ client[c].at \in Permitted
  BY <1>1, <1>5 DEF Certified, Permitted
<1>7. c \notin unsettled' /\ unsettled' \ {c} \subseteq unsettled
  BY <1>1, AnswerFacts
<1> QED BY <1>1, <1>2, <1>4, <1>5, <1>6, <1>7, AnswerKeeps

LEMMA PostMissInv ==
  ASSUME IInv, NEW c \in Clients, NEW k \in Keys, PostMiss(c, k)
  PROVE  IInv'
<1>1. /\ client[c].at = "post"
      /\ client' = [client EXCEPT ![c].at = "target", ![c].key = k]
      /\ unsettled' = unsettled \cup {c}
      /\ UNCHANGED <<gate, memo, order>>
  BY DEF PostMiss, At
<1>2. client \in [Clients -> Workers] /\ client[c] \in Workers
  BY Types DEF IInv
<1> DEFINE w == [client[c] EXCEPT !.at = "target", !.key = k]
<1>3. client' = [client EXCEPT ![c] = w]
  BY <1>1, <1>2 DEF Workers
<1>4. w \in Workers /\ w.at = "target" /\ w.reply = client[c].reply
  BY <1>2 DEF Workers, Places, Permitted
<1> HIDE DEF w
<1>5. client[c].reply = {}
  BY <1>1, AnswerFacts DEF Certified
<1>6. Certified(w) /\ w.at \in Permitted /\ client[c].at \in Permitted
  BY <1>1, <1>4, <1>5 DEF Certified, Permitted
<1>7. Kept(memo')
  BY <1>1, AnswerFacts
<1> QED BY <1>1, <1>3, <1>4, <1>6, <1>7, AnswerKeeps

LEMMA GenerateWholeInv ==
  ASSUME IInv, NEW c \in Clients, GenerateWhole(c)
  PROVE  IInv'
<1> DEFINE k == client[c].key
           w == [client[c] EXCEPT !.at = "respond", !.reply = {Output(k)}]
<1>1. /\ client[c].at = "target"
      /\ memo' = Put(memo, Output(k))
      /\ client' = [client EXCEPT ![c].at = "respond", ![c].reply = {Output(k)}]
      /\ UNCHANGED <<gate, unsettled, order>>
  BY DEF GenerateWhole, At
<1>2. client \in [Clients -> Workers] /\ client[c] \in Workers /\ k \in Keys
  BY Types DEF IInv, Workers
<1>3. client' = [client EXCEPT ![c] = w]
  BY <1>1, <1>2 DEF Workers
<1>4. w \in Workers /\ w.at = "respond" /\ w.reply = {Output(k)} /\ w.key = k
  <2>1. Output(k) \in Entries
    BY <1>2 DEF Output, Entries
  <2> QED BY <1>2, <2>1 DEF Workers, Places, Permitted
<1>5. Kept(memo')
  BY <1>1, <1>2, AnswerFacts, PutKept
<1> HIDE DEF w, k
<1>6. Certified(w) /\ w.at \in Permitted /\ client[c].at \in Permitted
  BY <1>1, <1>4 DEF Certified, Permitted
<1> QED BY <1>1, <1>3, <1>4, <1>5, <1>6, AnswerKeeps

LEMMA RespondInv ==
  ASSUME IInv, NEW c \in Clients, Respond(c)
  PROVE  IInv'
<1>1. client[c].at = "respond" /\ UNCHANGED <<gate, memo, unsettled, order>>
  BY DEF Respond, At
<1>2. client \in [Clients -> Workers] /\ client[c] \in Workers
  BY Types DEF IInv
<1>3. CASE client' = Goes(c, "settle")
  <2>1. "settle" \in Places /\ Alike(client[c].at, "settle")
    BY <1>1 DEF Places, Alike, Permitted
  <2> QED BY <1>1, <1>3, <2>1, GoesKeeps
<1>4. CASE client' = [client EXCEPT ![c].at = "settle", ![c].reply = {}]
  <2> DEFINE w == [client[c] EXCEPT !.at = "settle", !.reply = {}]
  <2>1. client' = [client EXCEPT ![c] = w]
    BY <1>2, <1>4 DEF Workers
  <2>2. w \in Workers /\ w.at = "settle" /\ w.reply = {}
    BY <1>2 DEF Workers, Places, Permitted
  <2> HIDE DEF w
  <2>3. Certified(w) /\ w.at \in Permitted /\ client[c].at \in Permitted
    BY <1>1, <2>2 DEF Certified, Permitted
  <2>4. Kept(memo')
    BY <1>1, AnswerFacts
  <2> QED BY <1>1, <2>1, <2>2, <2>3, <2>4, AnswerKeeps
<1> QED BY <1>3, <1>4 DEF Respond

LEMMA StreamEndsInv ==
  ASSUME IInv, NEW c \in Clients, StreamEnds(c)
  PROVE  IInv'
<1> DEFINE k == client[c].key
<1>1. PICK completed \in BOOLEAN :
        /\ memo' = StreamMemo(k, completed)
        /\ client' = [client EXCEPT ![c].at = "leave",
                                    ![c].reply = IF completed THEN {Output(k)} ELSE {}]
  BY DEF StreamEnds
<1>2. /\ client[c].at = "target" /\ unsettled' = unsettled \ {c}
      /\ UNCHANGED <<gate, order>>
  BY DEF StreamEnds, At
<1>3. client \in [Clients -> Workers] /\ client[c] \in Workers /\ k \in Keys
  BY Types DEF IInv, Workers
<1> DEFINE r == IF completed THEN {Output(k)} ELSE {}
           w == [client[c] EXCEPT !.at = "leave", !.reply = r]
<1>4. client' = [client EXCEPT ![c] = w]
  BY <1>1, <1>3 DEF Workers
<1>5. r \in SUBSET Entries /\ \A o \in r : o = Output(k)
  BY <1>3 DEF Output, Entries
<1>6. Kept(memo')
  <2>1. Kept(memo) /\ Kept(Put(memo, Output(k)))
    BY <1>3, AnswerFacts, PutKept
  <2> QED BY <1>1, <2>1 DEF StreamMemo
<1> HIDE DEF r
<1>7. w \in Workers /\ w.at = "leave" /\ w.reply = r /\ w.key = k
  BY <1>3, <1>5 DEF Workers, Places, Permitted
<1> HIDE DEF w
<1>8. Certified(w) /\ w.at \in Permitted /\ client[c].at \in Permitted
  BY <1>2, <1>5, <1>7 DEF Certified, Permitted
<1> QED BY <1>2, <1>4, <1>6, <1>7, <1>8, AnswerKeeps

-----------------------------------------------------------------------------
(* Steps of the gate.                                                        *)

\* What a worker that ends leaves behind: the others, some of them awake.
LEMMA EndedLeaves ==
  ASSUME IInv, NEW c \in Clients, client' = Woken(Ended(c)), UNCHANGED <<memo, unsettled>>,
         c \notin unsettled
  PROVE  /\ client' \in [Clients -> Workers] /\ client'[c].at = "out"
         /\ \A d \in Clients \ {c} : Alike(client[d].at, client'[d].at)
         /\ AnswerInv' /\ memo' \in Memos /\ (unsettled \subseteq Clients)'
<1>1. client \in [Clients -> Workers]
  BY Types DEF IInv
<1>2. NoRequest \in Workers /\ NoRequest.at = "out" /\ NoRequest.reply = {}
  <2>1. (CHOOSE k \in Keys : TRUE) \in Keys
    BY ServerAssumption
  <2> QED BY <2>1 DEF NoRequest, Workers, Places
<1> DEFINE old == Ended(c)
           woken(d) == [old[d] EXCEPT !.at = "check"]
<1>3. old \in [Clients -> Workers] /\ old[c] = NoRequest /\ \A d \in Clients \ {c} : old[d] = client[d]
  BY <1>1, <1>2 DEF Ended
<1> HIDE DEF old
<1>4. client' = [d \in Clients |-> IF old[d].at = "asleep" THEN woken(d) ELSE old[d]]
  BY DEF Woken, old
<1>5. \A d \in Clients : /\ woken(d) \in Workers /\ woken(d).at = "check"
                         /\ woken(d).key = old[d].key /\ woken(d).reply = old[d].reply
  BY <1>3 DEF Workers, Places, Ticketed
<1> HIDE DEF woken
<1>6. client' \in [Clients -> Workers]
  BY <1>3, <1>4, <1>5
<1>7. \A d \in Clients : client'[d] = IF old[d].at = "asleep" THEN woken(d) ELSE old[d]
  BY <1>4
<1>8. client'[c] = NoRequest
  BY <1>2, <1>3, <1>7
<1>9. ASSUME NEW d \in Clients \ {c}
      PROVE  /\ Alike(client[d].at, client'[d].at) /\ Certified(client'[d])
             /\ client[d].at # "asleep" => client'[d] = client[d]
  <2>1. Certified(client[d])
    BY AnswerFacts
  <2>2. CASE client[d].at = "asleep"
    <3>1. client'[d] = woken(d)
      BY <1>3, <1>7, <2>2
    <3>2. woken(d).at = "check" /\ woken(d).key = client[d].key /\ woken(d).reply = client[d].reply
      BY <1>3, <1>5
    <3> QED BY <2>1, <2>2, <3>1, <3>2 DEF Alike, Ticketed, Certified
  <2>3. CASE client[d].at # "asleep"
    <3>1. client'[d] = client[d]
      BY <1>3, <1>7, <2>3
    <3> QED BY <2>1, <2>3, <3>1 DEF Alike
  <2> QED BY <2>2, <2>3
<1>10. \A d \in Clients : Certified(client'[d])
  <2>1. Certified(NoRequest)
    BY <1>2 DEF Certified
  <2> QED BY <1>8, <1>9, <2>1
<1>11. ASSUME NEW d \in unsettled'
       PROVE  d \in Clients /\ client'[d].at \in {"target", "respond", "settle"}
  <2>1. d \in Clients \ {c} /\ client[d].at \in {"target", "respond", "settle"}
    BY AnswerFacts
  <2> QED BY <1>9, <2>1
<1>12. Kept(memo')
  BY AnswerFacts
<1>13. AnswerInv' /\ memo' \in Memos /\ (unsettled \subseteq Clients)'
  BY <1>6, <1>10, <1>11, <1>12, AnswersKept
<1> QED BY <1>2, <1>6, <1>8, <1>9, <1>13

\* What a worker that goes on leaves behind, when the gate changes.
LEMMA GoesLeaves ==
  ASSUME IInv, NEW c \in Clients, NEW p \in Places, client' = Goes(c, p),
         UNCHANGED <<memo, unsettled>>, c \notin unsettled, client[c].reply = {}
  PROVE  /\ client' \in [Clients -> Workers] /\ client'[c].at = p
         /\ \A d \in Clients \ {c} : Alike(client[d].at, client'[d].at)
         /\ AnswerInv' /\ memo' \in Memos /\ (unsettled \subseteq Clients)'
<1>1. client \in [Clients -> Workers]
  BY Types DEF IInv
<1>2. /\ client' \in [Clients -> Workers]
      /\ \A d \in Clients \ {c} : client'[d] = client[d]
      /\ client'[c].at = p /\ client'[c].reply = {}
  BY <1>1, GoesTo
<1>3. \A d \in Clients : Certified(client'[d])
  BY <1>2, AnswerFacts DEF Certified
<1>4. \A d \in unsettled' : d \in Clients /\ client'[d].at \in {"target", "respond", "settle"}
  BY <1>2, AnswerFacts
<1>5. Kept(memo')
  BY AnswerFacts
<1>6. AnswerInv' /\ memo' \in Memos /\ (unsettled \subseteq Clients)'
  BY <1>2, <1>3, <1>4, <1>5, AnswersKept
<1> QED BY <1>2, <1>6 DEF Alike

\* The members of the gate when only one worker changes sides.
LEMMA Members ==
  ASSUME NEW c \in Clients, \A d \in Clients \ {c} : Alike(client[d].at, client'[d].at)
  PROVE  /\ Holders' = (Holders \ {c}) \cup {d \in {c} : client'[d].at \in Permitted}
         /\ Waiters' = (Waiters \ {c}) \cup {d \in {c} : client'[d].at \in Ticketed}
<1>1. \A d \in Clients \ {c} : /\ client'[d].at \in Permitted <=> client[d].at \in Permitted
                               /\ client'[d].at \in Ticketed <=> client[d].at \in Ticketed
  BY PlacesAre DEF Alike
<1> QED BY <1>1 DEF Holders, Waiters

\* What there is to say of the whole queue and history, from the invariant.
LEMMA GateFacts ==
  ASSUME IInv
  PROVE  /\ waiting \in Seq(Clients) /\ IsInjective(waiting) /\ ToSet(waiting) = Waiters
         /\ order \in Seq(Clients) /\ IsInjective(order) /\ ToSet(order) = Holders \cup Waiters
         /\ generating \in BOOLEAN /\ Len(waiting) <= QueueSlots
         /\ Holders \cap Waiters = {}
<1>1. Holders \cap Waiters = {}
  BY PlacesAre DEF Holders, Waiters
<1> QED BY <1>1, Types DEF IInv, QueueInv, ArrivalOrder

\* A client arrives when the gate is free, ...
LEMMA ArrivePermitInv ==
  ASSUME IInv, NEW c \in Clients, Arrive(c), CanPermit
  PROVE  IInv'
<1>1. /\ client[c].at = "out" /\ generating' = TRUE /\ client' = Goes(c, "body")
      /\ waiting' = waiting /\ order' = Append(order, c) /\ UNCHANGED <<memo, unsettled>>
      /\ waiting = <<>> /\ ~generating
  BY DEF Arrive, At, CanPermit
<1>2. c \notin unsettled /\ client[c].reply = {} /\ "body" \in Places
  BY <1>1, AnswerFacts DEF Certified, Places, Permitted
<1>3. /\ client' \in [Clients -> Workers] /\ client'[c].at = "body"
      /\ \A d \in Clients \ {c} : Alike(client[d].at, client'[d].at)
      /\ AnswerInv' /\ memo' \in Memos /\ (unsettled \subseteq Clients)'
  BY <1>1, <1>2, GoesLeaves
<1>4. Holders = {} /\ Waiters = {} /\ order = <<>>
  <2>1. Holders = {}
    BY <1>1 DEF IInv, PermitInv
  <2>2. Waiters = {}
    BY <1>1, GateFacts DEF ToSet
  <2>3. ToSet(order) = {} /\ order \in Seq(Clients)
    BY <2>1, <2>2, GateFacts
  <2>4. order = <<>>
    <3>1. ASSUME order # <<>> PROVE FALSE
      <4>1. 1 \in DOMAIN order
        BY <2>3, <3>1
      <4> QED BY <2>3, <4>1 DEF ToSet
    <3> QED BY <3>1
  <2> QED BY <2>1, <2>2, <2>4
<1>5. Holders' = {c} /\ Waiters' = {}
  <2>1. /\ Holders' = (Holders \ {c}) \cup {d \in {c} : client'[d].at \in Permitted}
        /\ Waiters' = (Waiters \ {c}) \cup {d \in {c} : client'[d].at \in Ticketed}
    BY <1>3, Members
  <2> QED BY <1>3, <1>4, <2>1 DEF Permitted, Ticketed
<1>6. order' = <<c>>
  BY <1>1, <1>4
<1>7. order' \in Seq(Clients) /\ IsInjective(order') /\ ToSet(order') = {c} /\ order'[1] = c
  BY <1>6 DEF IsInjective, ToSet
<1>8. PermitInv'
  BY <1>1, <1>5 DEF PermitInv
<1>9. QueueInv' /\ waiting' \in Seq(Clients) /\ Len(waiting') <= QueueSlots
  BY <1>1, <1>4, <1>5, GateFacts DEF QueueInv
<1>10. ArrivalOrder'
  <2>1. \A d, e \in Clients : ~Before(waiting', d, e)
    BY <1>1 DEF Before
  <2> QED BY <1>5, <1>7, <2>1 DEF ArrivalOrder
<1>11. TypeOK'
  BY <1>1, <1>3, <1>7, <1>9 DEF TypeOK, Workers, Places, Memos, Entries
<1> QED BY <1>3, <1>8, <1>9, <1>10, <1>11 DEF IInv, AnswerInv

\* ... and otherwise takes the last place in the queue.
LEMMA ArriveTicketInv ==
  ASSUME IInv, NEW c \in Clients, Arrive(c), ~CanPermit
  PROVE  IInv'
<1>1. /\ client[c].at = "out" /\ generating' = generating /\ client' = Goes(c, "ticket")
      /\ waiting' = Append(waiting, c) /\ order' = Append(order, c)
      /\ UNCHANGED <<memo, unsettled>> /\ Len(waiting) < QueueSlots
  BY DEF Arrive, At, HasSlot
<1>2. c \notin unsettled /\ client[c].reply = {} /\ "ticket" \in Places
  BY <1>1, AnswerFacts DEF Certified, Places, Ticketed
<1>3. /\ client' \in [Clients -> Workers] /\ client'[c].at = "ticket"
      /\ \A d \in Clients \ {c} : Alike(client[d].at, client'[d].at)
      /\ AnswerInv' /\ memo' \in Memos /\ (unsettled \subseteq Clients)'
  BY <1>1, <1>2, GoesLeaves
<1>4. c \notin Holders /\ c \notin Waiters
  BY <1>1, PlacesAre DEF Holders, Waiters
<1>5. Holders' = Holders /\ Waiters' = Waiters \cup {c}
  <2>1. /\ Holders' = (Holders \ {c}) \cup {d \in {c} : client'[d].at \in Permitted}
        /\ Waiters' = (Waiters \ {c}) \cup {d \in {c} : client'[d].at \in Ticketed}
    BY <1>3, Members
  <2> QED BY <1>3, <1>4, <2>1 DEF Permitted, Ticketed
<1>6. c \notin ToSet(waiting) /\ c \notin ToSet(order)
  BY <1>4, GateFacts
<1>7. /\ waiting' \in Seq(Clients) /\ IsInjective(waiting') /\ ToSet(waiting') = Waiters'
      /\ order' \in Seq(Clients) /\ IsInjective(order') /\ ToSet(order') = Holders' \cup Waiters'
  <2>1. /\ Append(waiting, c) \in Seq(Clients) /\ IsInjective(Append(waiting, c))
        /\ ToSet(Append(waiting, c)) = ToSet(waiting) \cup {c}
    BY <1>6, GateFacts, AppendSet
  <2>2. /\ Append(order, c) \in Seq(Clients) /\ IsInjective(Append(order, c))
        /\ ToSet(Append(order, c)) = ToSet(order) \cup {c}
    BY <1>6, GateFacts, AppendSet
  <2> QED BY <1>1, <1>5, <2>1, <2>2, GateFacts
<1>8. PermitInv' /\ QueueInv'
  <2>1. QueueInv'
    BY <1>7 DEF QueueInv
  <2>2. PermitInv
    BY DEF IInv
  <2>3. generating' <=> Holders' # {}
    BY Zenon, <1>1, <1>5, <2>2 DEF PermitInv
  <2>4. \A d, e \in Holders' : d = e
    BY <1>5, <2>2 DEF PermitInv
  <2> QED BY <2>1, <2>3, <2>4 DEF PermitInv
<1>9. Holders' # {} => order'[1] \in Holders'
  <2>1. ASSUME Holders # {} PROVE order'[1] \in Holders
    <3>1. order \in Seq(Clients) /\ order # <<>>
      BY <2>1, GateFacts DEF ToSet
    <3>2. Append(order, c)[1] = order[1]
      BY <3>1
    <3> QED BY <1>1, <2>1, <3>2 DEF IInv, ArrivalOrder
  <2> QED BY <1>5, <2>1
<1>10. ASSUME NEW d \in Clients, NEW e \in Clients, Before(waiting', d, e)
       PROVE  Before(order', d, e)
  <2>1. Before(waiting, d, e) \/ (d \in ToSet(waiting) /\ e = c)
    BY <1>1, <1>6, <1>10, GateFacts, AppendOrder
  <2>2. Before(order, d, e) \/ (d \in ToSet(order) /\ e = c)
    BY <2>1, GateFacts DEF IInv, ArrivalOrder
  <2> QED BY <1>1, <1>6, <2>2, GateFacts, AppendOrder
<1>11. Len(waiting') <= QueueSlots
  BY <1>1, GateFacts, ServerAssumption
<1>12. TypeOK'
  <2>1. generating' \in BOOLEAN
    BY <1>1, GateFacts
  <2> QED BY <1>3, <1>7, <1>11, <2>1 DEF TypeOK, Workers, Places, Memos, Entries
<1>13. ArrivalOrder'
  BY <1>7, <1>9, <1>10 DEF ArrivalOrder
<1> QED BY <1>3, <1>8, <1>12, <1>13 DEF IInv, AnswerInv

\* Nobody precedes the first of an injective sequence.
LEMMA NoneBeforeFirst ==
  ASSUME NEW S, NEW s \in Seq(S), IsInjective(s), NEW c, s # <<>>
  PROVE  ~Before(s, c, s[1])
<1>1. Len(s) \in Nat /\ DOMAIN s = 1 .. Len(s) /\ 1 \in DOMAIN s
  OBVIOUS
<1>2. ASSUME Before(s, c, s[1]) PROVE FALSE
  <2>1. PICK i \in DOMAIN s, j \in DOMAIN s : i < j /\ s[i] = c /\ s[j] = s[1]
    BY <1>2 DEF Before
  <2>2. j = 1
    BY <1>1, <2>1 DEF IsInjective
  <2> QED BY <1>1, <2>1, <2>2
<1> QED BY <1>2

\* The first of a sequence precedes everything else.
LEMMA FirstBefore ==
  ASSUME NEW S, NEW s \in Seq(S), NEW c \in ToSet(s), c # s[1]
  PROVE  Before(s, s[1], c)
<1>1. PICK j \in DOMAIN s : s[j] = c
  BY DEF ToSet
<1>2. 1 \in DOMAIN s /\ 1 < j
  BY <1>1
<1> QED BY <1>1, <1>2 DEF Before

\* A worker tests the gate: it claims the permit, or goes to sleep.
LEMMA CheckInv ==
  ASSUME IInv, NEW c \in Clients, Check(c)
  PROVE  IInv'
<1>1. client[c].at = "check" /\ UNCHANGED <<memo, unsettled, order>>
  BY DEF Check, At
<1>2. c \notin unsettled /\ client[c].reply = {} /\ c \in Waiters
  BY <1>1, AnswerFacts DEF Certified, Waiters, Ticketed
<1>3. CASE ~Claimable(c)
  <2>1. client' = Goes(c, "asleep") /\ UNCHANGED gate
    BY <1>3 DEF Check
  <2>2. "asleep" \in Places /\ Alike(client[c].at, "asleep")
    BY <1>1 DEF Places, Ticketed, Alike
  <2> QED BY <1>1, <1>2, <2>1, <2>2, GoesKeeps
<1>4. CASE Claimable(c)
  <2>1. /\ ~generating /\ waiting[1] = c
        /\ waiting' = Tail(waiting) /\ generating' = TRUE /\ client' = Goes(c, "post")
    BY <1>4 DEF Check, Claimable
  <2>2. "post" \in Places
    BY DEF Places, Permitted
  <2>3. /\ client' \in [Clients -> Workers] /\ client'[c].at = "post"
        /\ \A d \in Clients \ {c} : Alike(client[d].at, client'[d].at)
        /\ AnswerInv' /\ memo' \in Memos /\ (unsettled \subseteq Clients)'
    BY <1>1, <1>2, <2>1, <2>2, GoesLeaves
  <2>4. Holders = {} /\ waiting # <<>>
    <3>1. Holders = {}
      BY <2>1 DEF IInv, PermitInv
    <3>2. waiting # <<>>
      BY <1>2, GateFacts DEF ToSet
    <3> QED BY <3>1, <3>2
  <2>5. Holders' = {c} /\ Waiters' = Waiters \ {c}
    <3>1. /\ Holders' = (Holders \ {c}) \cup {d \in {c} : client'[d].at \in Permitted}
          /\ Waiters' = (Waiters \ {c}) \cup {d \in {c} : client'[d].at \in Ticketed}
      BY <2>3, Members
    <3> QED BY <2>3, <2>4, <3>1 DEF Permitted, Ticketed
  <2>6. waiting' = Dropped(waiting, c)
    BY <2>1, <2>4, GateFacts, TailDropped
  <2>7. /\ waiting' \in Seq(Clients) /\ IsInjective(waiting') /\ ToSet(waiting') = Waiters'
        /\ Len(waiting') <= Len(waiting)
    <3>1. /\ Dropped(waiting, c) \in Seq(Clients) /\ IsInjective(Dropped(waiting, c))
          /\ Len(Dropped(waiting, c)) <= Len(waiting)
          /\ ToSet(Dropped(waiting, c)) = ToSet(waiting) \ {c}
      BY GateFacts, DroppedProperties
    <3> QED BY <2>5, <2>6, <3>1, GateFacts
  <2>8. Len(waiting') <= QueueSlots
    BY <2>7, GateFacts, ServerAssumption
  <2>9. order[1] = c
    <3>1. c \in ToSet(order) /\ order \in Seq(Clients) /\ order # <<>>
      BY <1>2, GateFacts DEF ToSet
    <3>2. order[1] \in ToSet(order)
      BY <3>1 DEF ToSet
    <3>3. order[1] \in ToSet(waiting) /\ order[1] \in Clients
      BY <2>4, <3>1, <3>2, GateFacts
    <3>4. ASSUME order[1] # c PROVE FALSE
      <4>1. Before(waiting, c, order[1])
        BY <2>1, <3>3, <3>4, GateFacts, FirstBefore
      <4>2. Before(order, c, order[1])
        BY <3>3, <4>1 DEF IInv, ArrivalOrder
      <4> QED BY <3>1, <4>2, GateFacts, NoneBeforeFirst
    <3> QED BY <3>4
  <2>10. \A d, e \in Clients : Before(waiting', d, e) => Before(order', d, e)
    <3>1. ASSUME NEW d \in Clients, NEW e \in Clients, Before(waiting', d, e)
          PROVE  Before(order', d, e)
      <4>1. Before(waiting, d, e)
        BY <2>6, <3>1, GateFacts, DroppedOrder
      <4> QED BY <1>1, <4>1 DEF IInv, ArrivalOrder
    <3> QED BY <3>1
  <2>11. ToSet(order') = Holders' \cup Waiters'
    BY <1>1, <1>2, <2>4, <2>5, GateFacts
  <2>12. PermitInv' /\ QueueInv'
    BY <2>1, <2>5, <2>7 DEF PermitInv, QueueInv
  <2>13. ArrivalOrder'
    BY <1>1, <2>5, <2>9, <2>10, <2>11, GateFacts DEF ArrivalOrder
  <2>14. TypeOK'
    BY <1>1, <2>1, <2>3, <2>7, <2>8, GateFacts DEF TypeOK, Workers, Places, Memos, Entries
  <2> QED BY <2>3, <2>12, <2>13, <2>14 DEF IInv, AnswerInv
<1> QED BY <1>3, <1>4

\* A ticket is dropped, wherever in the queue it is.
LEMMA DropTicketInv ==
  ASSUME IInv, NEW c \in Clients, client[c].at \in Ticketed, DropTicket(c)
  PROVE  IInv'
<1>1. /\ waiting' = Dropped(waiting, c) /\ client' = Woken(Ended(c)) /\ order' = Dropped(order, c)
      /\ generating' = generating /\ UNCHANGED <<memo, unsettled>>
  BY DEF DropTicket, LeavesOrder
<1>2. c \notin unsettled /\ c \in Waiters /\ c \notin Holders
  <2>1. c \notin unsettled
    BY AnswerFacts DEF Ticketed
  <2> QED BY <2>1, PlacesAre DEF Waiters, Holders
<1>3. /\ client' \in [Clients -> Workers] /\ client'[c].at = "out"
      /\ \A d \in Clients \ {c} : Alike(client[d].at, client'[d].at)
      /\ AnswerInv' /\ memo' \in Memos /\ (unsettled \subseteq Clients)'
  BY <1>1, <1>2, EndedLeaves
<1>4. Holders' = Holders /\ Waiters' = Waiters \ {c}
  <2>1. /\ Holders' = (Holders \ {c}) \cup {d \in {c} : client'[d].at \in Permitted}
        /\ Waiters' = (Waiters \ {c}) \cup {d \in {c} : client'[d].at \in Ticketed}
    BY <1>3, Members
  <2> QED BY <1>2, <1>3, <2>1, PlacesAre
<1>5. /\ waiting' \in Seq(Clients) /\ IsInjective(waiting') /\ ToSet(waiting') = Waiters'
      /\ Len(waiting') <= Len(waiting)
  <2>1. /\ Dropped(waiting, c) \in Seq(Clients) /\ IsInjective(Dropped(waiting, c))
        /\ Len(Dropped(waiting, c)) <= Len(waiting)
        /\ ToSet(Dropped(waiting, c)) = ToSet(waiting) \ {c}
    BY GateFacts, DroppedProperties
  <2> QED BY <1>1, <1>4, <2>1, GateFacts
<1>6. /\ order' \in Seq(Clients) /\ IsInjective(order') /\ ToSet(order') = Holders' \cup Waiters'
      /\ Holders' # {} => order'[1] \in Holders'
  <2>1. /\ Dropped(order, c) \in Seq(Clients) /\ IsInjective(Dropped(order, c))
        /\ ToSet(Dropped(order, c)) = ToSet(order) \ {c}
        /\ order # <<>> /\ order[1] # c => Dropped(order, c)[1] = order[1]
    BY GateFacts, DroppedProperties
  <2>2. ASSUME Holders # {} PROVE order # <<>> /\ order[1] \in Holders /\ order[1] # c
    <3>1. order # <<>>
      BY <2>2, GateFacts DEF ToSet
    <3> QED BY <1>2, <2>2, <3>1 DEF IInv, ArrivalOrder
  <2> QED BY <1>1, <1>2, <1>4, <2>1, <2>2, GateFacts
<1>7. \A d, e \in Clients : Before(waiting', d, e) => Before(order', d, e)
  <2>1. ASSUME NEW d \in Clients, NEW e \in Clients, Before(waiting', d, e)
        PROVE  Before(order', d, e)
    <3>1. Before(waiting, d, e) /\ d # c /\ e # c
      BY <1>1, <2>1, GateFacts, DroppedOrder
    <3>2. Before(order, d, e)
      BY <3>1 DEF IInv, ArrivalOrder
    <3> QED BY <1>1, <3>1, <3>2, GateFacts, DroppedOrder
  <2> QED BY <2>1
<1>8. Len(waiting') <= QueueSlots
  BY <1>5, GateFacts, ServerAssumption
<1>9. PermitInv' /\ QueueInv'
  <2>1. QueueInv'
    BY <1>5 DEF QueueInv
  <2>2. PermitInv
    BY DEF IInv
  <2>3. generating' <=> Holders' # {}
    BY Zenon, <1>1, <1>4, <2>2 DEF PermitInv
  <2>4. \A d, e \in Holders' : d = e
    BY <1>4, <2>2 DEF PermitInv
  <2> QED BY <2>1, <2>3, <2>4 DEF PermitInv
<1>10. ArrivalOrder'
  BY <1>6, <1>7 DEF ArrivalOrder
<1>11. TypeOK'
  <2>1. generating' \in BOOLEAN
    BY <1>1, GateFacts
  <2> QED BY <1>3, <1>5, <1>6, <1>8, <2>1 DEF TypeOK, Workers, Places, Memos, Entries
<1> QED BY <1>3, <1>9, <1>10, <1>11 DEF IInv, AnswerInv

\* The permit is dropped.
LEMMA LeaveInv ==
  ASSUME IInv, NEW c \in Clients, Leave(c)
  PROVE  IInv'
<1>1. /\ client[c].at = "leave" /\ generating' = FALSE
      /\ client' = Woken(Ended(c)) /\ order' = Dropped(order, c)
      /\ UNCHANGED <<waiting, memo, unsettled>>
  BY DEF Leave, LeavesOrder, At
<1>2. c \notin unsettled /\ c \in Holders /\ c \notin Waiters
  <2>1. c \notin unsettled
    BY <1>1, AnswerFacts
  <2> QED BY <1>1, <2>1 DEF Waiters, Holders, Permitted, Ticketed
<1>3. /\ client' \in [Clients -> Workers] /\ client'[c].at = "out"
      /\ \A d \in Clients \ {c} : Alike(client[d].at, client'[d].at)
      /\ AnswerInv' /\ memo' \in Memos /\ (unsettled \subseteq Clients)'
  BY <1>1, <1>2, EndedLeaves
<1>4. Holders' = {} /\ Waiters' = Waiters
  <2>1. /\ Holders' = (Holders \ {c}) \cup {d \in {c} : client'[d].at \in Permitted}
        /\ Waiters' = (Waiters \ {c}) \cup {d \in {c} : client'[d].at \in Ticketed}
    BY <1>3, Members
  <2>2. Holders = {c}
    BY <1>2 DEF IInv, PermitInv
  <2> QED BY <1>2, <1>3, <2>1, <2>2, PlacesAre
<1>5. order' \in Seq(Clients) /\ IsInjective(order') /\ ToSet(order') = Waiters
  <2>1. /\ Dropped(order, c) \in Seq(Clients) /\ IsInjective(Dropped(order, c))
        /\ ToSet(Dropped(order, c)) = ToSet(order) \ {c}
    BY GateFacts, DroppedProperties
  <2>2. Holders = {c}
    BY <1>2 DEF IInv, PermitInv
  <2> QED BY <1>1, <1>2, <2>1, <2>2, GateFacts
<1>6. \A d, e \in Clients : Before(waiting', d, e) => Before(order', d, e)
  <2>1. ASSUME NEW d \in Clients, NEW e \in Clients, Before(waiting, d, e)
        PROVE  Before(order', d, e)
    <3>1. d \in ToSet(waiting) /\ e \in ToSet(waiting)
      BY <2>1 DEF Before, ToSet
    <3>2. d # c /\ e # c
      BY <1>2, <3>1, GateFacts
    <3>3. Before(order, d, e)
      BY <2>1 DEF IInv, ArrivalOrder
    <3> QED BY <1>1, <3>2, <3>3, GateFacts, DroppedOrder
  <2> QED BY <1>1, <2>1
<1>7. PermitInv' /\ QueueInv'
  BY <1>1, <1>4, GateFacts DEF PermitInv, QueueInv
<1>8. ArrivalOrder'
  BY <1>4, <1>5, <1>6 DEF ArrivalOrder
<1>9. TypeOK'
  BY <1>1, <1>3, <1>5, GateFacts DEF TypeOK, Workers, Places, Memos, Entries
<1> QED BY <1>3, <1>7, <1>8, <1>9 DEF IInv, AnswerInv

-----------------------------------------------------------------------------
(* The theorems.                                                             *)

LEMMA InitInv == Init => IInv
<1> SUFFICES ASSUME Init PROVE IInv
  OBVIOUS
<1>1. /\ generating = FALSE /\ waiting = <<>> /\ memo = [entries |-> <<>>, used |-> 0]
      /\ unsettled = {} /\ order = <<>>
      /\ client = [c \in Clients |-> NoRequest]
  BY DEF Init
<1>2. NoRequest \in Workers /\ NoRequest.at = "out" /\ NoRequest.reply = {}
  <2>1. (CHOOSE k \in Keys : TRUE) \in Keys
    BY ServerAssumption
  <2> QED BY <2>1 DEF NoRequest, Workers, Places
<1>3. client \in [Clients -> Workers] /\ \A c \in Clients : client[c].at = "out" /\ client[c].reply = {}
  BY <1>1, <1>2
<1>4. Holders = {} /\ Waiters = {}
  BY <1>3, PlacesAre DEF Holders, Waiters
<1>5. waiting \in Seq(Clients) /\ order \in Seq(Clients) /\ Len(waiting) <= QueueSlots
  BY <1>1, ServerAssumption
<1>6. memo.entries = <<>> /\ memo.used = 0 /\ memo \in Memos
  BY <1>1 DEF Memos
<1>7. TypeOK
  BY <1>1, <1>3, <1>5, <1>6, Types
<1>8. PermitInv /\ QueueInv /\ SettledBeforeNext /\ ReplyInv
  BY <1>1, <1>3, <1>4 DEF PermitInv, QueueInv, SettledBeforeNext, ReplyInv, ToSet, IsInjective
<1>9. ArrivalOrder
  BY <1>1, <1>4 DEF ArrivalOrder, ToSet, IsInjective, Before
<1>10. OnlyCertified
  BY <1>3, <1>6 DEF OnlyCertified
<1>11. MemoBounds
  <2>1. <<>> \in Seq(Entries) /\ Len(<<>>) = 0
    OBVIOUS
  <2>2. EvictedBytes(<<>>, 0) = 0
    BY <2>1, BytesSum
  <2> QED BY <1>6, <2>1, <2>2, ServerAssumption DEF MemoBounds
<1> QED BY <1>7, <1>8, <1>9, <1>10, <1>11 DEF IInv

LEMMA NextInv == IInv /\ [Next]_vars => IInv'
<1> SUFFICES ASSUME IInv, [Next]_vars PROVE IInv'
  OBVIOUS
<1>1. CASE UNCHANGED vars
  BY <1>1 DEF vars, gate, IInv, TypeOK, PermitInv, QueueInv, ArrivalOrder, SettledBeforeNext,
              ReplyInv, OnlyCertified, MemoBounds, Holders, Waiters
<1>2. ASSUME NEW c \in Clients, Arrive(c) PROVE IInv'
  BY <1>2, ArrivePermitInv, ArriveTicketInv
<1>3. ASSUME NEW c \in Clients, Step(c) PROVE IInv'
  <2>1. ASSUME TicketBadBody(c) \/ ProbeGone(c) PROVE IInv'
    <3>1. client[c].at \in Ticketed /\ DropTicket(c)
      BY <2>1 DEF TicketBadBody, ProbeGone, At, Ticketed
    <3> QED BY <3>1, DropTicketInv
  <2>2. ASSUME NEW k \in Keys, PostCached(c, k) \/ PostMiss(c, k) PROVE IInv'
    BY <2>2, PostCachedInv, PostMissInv
  <2> QED BY <1>3, <2>1, <2>2, QuietInv, CheckInv, GenerateWholeInv, RespondInv, StreamEndsInv,
             LeaveInv DEF Step
<1> QED BY <1>1, <1>2, <1>3, DisconnectInv DEF Next

THEOREM Invariance == Spec => []IInv
  BY InitInv, NextInv, PTL DEF Spec

\* At most one worker owns the permit and generating says so, the queue holds
\* exactly the workers with a ticket, and the permit goes round in the order of
\* arrival, for every number of clients and slots (GenerationGate, server.rs).
THEOREM Fairness == Spec => []GateIsFair
<1>1. IInv => GateIsFair
  <2> SUFFICES ASSUME IInv PROVE OneGeneration
    BY DEF IInv, GateIsFair
  <2>1. PermitInv
    BY DEF IInv
  <2>2. Cardinality(Holders) <= 1
    <3>1. CASE Holders = {}
      BY <3>1, FS_EmptySet
    <3>2. CASE Holders # {}
      <4>1. PICK c : Holders = {c}
        BY <2>1, <3>2 DEF PermitInv
      <4>2. Cardinality(Holders) = 1
        BY <4>1, FS_Singleton
      <4> QED BY <4>2
    <3> QED BY <3>1, <3>2
  <2>3. Len(waiting) = Cardinality(Waiters)
    BY GateFacts, InjectiveCardinality
  <2>4. generating <=> Holders # {}
    BY <2>1 DEF PermitInv
  <2> QED BY <2>2, <2>3, <2>4, GateFacts DEF OneGeneration
<1> QED BY Invariance, <1>1, PTL

\* What a client is answered is the whole output for its request, the target is
\* settled by the request that entered it, and the memo stays within its limits
\* and counts its bytes, for every number and size of the responses.
THEOREM Certification == Spec => []AnswersAreCertified
<1>1. IInv => AnswersAreCertified
  BY DEF IInv, AnswersAreCertified
<1> QED BY Invariance, <1>1, PTL

=============================================================================
