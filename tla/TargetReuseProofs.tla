------------------------- MODULE TargetReuseProofs -------------------------
(***************************************************************************)
(* Whatever requests came before, and however they ended, a request is      *)
(* computed from its own tokens only, and a response that was not delivered *)
(* leaves nothing behind but the prompt: for every vocabulary, every set of *)
(* prompts and every limit, with failing provider calls or without.         *)
(***************************************************************************)
EXTENDS TargetReuse, SequenceLemmas

-----------------------------------------------------------------------------
(* The inductive invariant.                                                  *)

Snapshots == [tape : Seq(Tokens), gen : Nat]
Providers == [tape : Seq(Tokens), gen : Nat, branch : SUBSET Snapshots]
Publications == [prompt : Boundaries, final : SUBSET Seq(Tokens)]
Engines == [life : {"ready", "running", "poisoned"}, committed : Nat,
            boundary : SUBSET Boundaries, pending : SUBSET Publications,
            stream : {"none", "awaiting", "failed"}]
Requests == [phase : Phases, prompt : Seq(Tokens), chat : BOOLEAN, stream : BOOLEAN,
             gone : BOOLEAN, first : Nat, generated : Seq(Tokens),
             stop : {"none", "eos", "full", "limit", "interrupted"},
             holds : {"none", "prefill", "decode"}, parent : SUBSET Boundaries,
             result : {"ok", "target", "publication"},
             publication : {"none", "complete", "aborted"}]

\* The type invariant, with whole records.
TInv ==
  /\ mode \in [faulty : BOOLEAN, prefixOnly : BOOLEAN]
  /\ provider \in Providers /\ engine \in Engines /\ request \in Requests
  /\ served \in 0 .. MaxRequests

\* The tape and what was generated continue the prompt: the last token that was
\* emitted is the only one the provider has not consumed.
Continues(p, r) ==
  /\ Len(r.prompt) >= 1 /\ r.generated # <<>>
  /\ Append(p.tape, r.generated[Len(r.generated)]) = r.prompt \o r.generated

\* A tape that a token sequence extends by its last token.
Leads(tape, tokens) ==
  Len(tokens) = Len(tape) + 1 /\ tape = SubSeq(tokens, 1, Len(tape))

\* A retained boundary describes the provider as it is, in every phase.
BoundaryInv(p, e) ==
  \A b \in e.boundary :
    /\ p.branch = {} /\ p.gen = b.gen
    /\ Len(p.tape) = b.committed /\ b.committed >= 1
    /\ Leads(p.tape, b.tokens)

\* An engine that has committed nothing has an empty provider.
CommittedInv(p, e) == e.committed = 0 => p.tape = <<>> /\ p.branch = {}

\* The provider while a request is computed.
ComputeInv(p, e, r) ==
  /\ r.phase \in {"prefill", "boundary", "decode"} =>
       Len(r.prompt) >= 1 /\ e.boundary = {}
  /\ r.phase \in {"prefill", "boundary"} =>
       /\ r.first \in 0 .. Len(r.prompt) /\ p.tape = SubSeq(r.prompt, 1, r.first)
       /\ e.committed = r.first /\ r.generated = <<>> /\ r.holds # "decode"
       /\ r.phase = "boundary" => r.first = Len(r.prompt)
  /\ r.phase = "decode" \/ (r.phase = "flush" /\ r.holds = "decode") =>
       Continues(p, r) /\ e.committed = Len(p.tape)
  /\ r.phase \in {"decode", "flush"} /\ r.holds = "decode" =>
       /\ p.branch # {} /\ \A s \in p.branch : s.tape = r.prompt
       /\ r.parent # {}
       /\ \A b \in r.parent : /\ b.tokens = Append(r.prompt, r.generated[1])
                             /\ b.committed = Len(r.prompt)

\* Who owns the provider's branch: a local of the request, or the pending
\* publication; nobody only after a provider call has failed.
BranchInv(p, e, r) ==
  /\ r.holds # "none" => p.branch # {} /\ e.pending = {}
                         /\ r.phase \in {"prefill", "boundary", "decode", "flush", "tail"}
  /\ r.phase \in {"prefill", "boundary", "decode"} /\ r.holds = "none" => p.branch = {}
  /\ r.phase = "decode" => r.holds # "prefill"
  /\ r.phase = "flush" /\ r.holds = "prefill" => r.stop = "interrupted"
  /\ r.phase = "tail" /\ r.result = "ok" /\ r.holds # "none" => r.stop = "interrupted"
  /\ r.holds # "none" => r.chat
  /\ ~mode.faulty /\ p.branch # {} => r.holds # "none" \/ e.pending # {}

\* What a pending publication is about ...
Describes(p, d) ==
  /\ p.branch # {}
  /\ \A s \in p.branch : Leads(s.tape, d.prompt.tokens) /\ Len(s.tape) = d.prompt.committed
  /\ d.prompt.committed >= 1
  /\ \A t \in d.final : Leads(p.tape, t)
  /\ Len(p.tape) >= 1

\* ... and whose it is: the current request's, or an earlier one's that left the
\* engine poisoned.
Own(r, d) ==
  /\ r.phase \in {"tail", "respond", "settle"} /\ r.result = "ok"
  /\ r.generated # <<>>
  /\ d.prompt.tokens = Append(r.prompt, r.generated[1])
  /\ d.final \subseteq {r.prompt \o r.generated}

PendingInv(p, e, r) ==
  /\ \A d, f \in e.pending : d = f
  /\ \A d \in e.pending :
       /\ Describes(p, d)
       /\ \/ Own(r, d)
          \/ /\ e.life = "poisoned" /\ e.stream = "none"
             /\ r.phase \in {"respond", "settle"} => r.result = "target"
       /\ r.phase \in {"respond", "settle"} => r.stop # "interrupted"
       /\ r.phase = "settle" /\ r.stream /\ e.stream = "none" => e.life = "poisoned"

\* How a request starts, and how it is settled when it ended.
SettleInv(e, r) ==
  /\ r.phase \in {"idle", "enter", "started"} =>
       r.first = 0 /\ r.generated = <<>> /\ r.stop = "none"
  /\ e.stream # "none" => r.phase = "settle" /\ r.stream /\ r.result # "target"
  /\ r.phase \notin {"tail", "respond", "settle"} => r.result = "ok"
  /\ r.phase = "settle" => r.publication # "none"
  /\ r.result = "publication" => r.stream
  /\ r.phase = "settle" /\ r.result = "publication" =>
       e.stream = "failed" /\ r.publication = "aborted"
  /\ ~mode.faulty /\ r.phase \in {"respond", "settle"} /\ r.result = "ok" => e.life = "ready"
  /\ e.life = "running" <=> r.phase \in Generating

IInv ==
  /\ TInv
  /\ BoundaryInv(provider, engine) /\ CommittedInv(provider, engine)
  /\ ComputeInv(provider, engine, request) /\ BranchInv(provider, engine, request)
  /\ PendingInv(provider, engine, request) /\ SettleInv(engine, request)

-----------------------------------------------------------------------------
(* Tapes.                                                                    *)

\* What is appended to a tape comes after it.
LEMMA AppendLeads ==
  ASSUME NEW S, NEW s \in Seq(S), NEW x \in S
  PROVE  /\ Append(s, x) \in Seq(S) /\ Len(Append(s, x)) = Len(s) + 1
         /\ Append(s, x)[Len(s) + 1] = x
         /\ Leads(s, Append(s, x))
<1> DEFINE t == Append(s, x)
           u == SubSeq(t, 1, Len(s))
<1>1. /\ t \in Seq(S) /\ Len(t) = Len(s) + 1 /\ Len(s) \in Nat
      /\ \A i \in 1 .. Len(s) : t[i] = s[i]
      /\ t[Len(s) + 1] = x
  BY AppendProperties
<1> HIDE DEF t
<1>2. u \in Seq(S) /\ Len(u) = Len(s) /\ \A i \in 1 .. Len(s) : u[i] = t[i]
  <2>1. Len(s) \in 0 .. Len(t)
    BY <1>1
  <2> QED BY <1>1, <2>1, PrefixOf
<1> HIDE DEF u
<1>3. \A i \in 1 .. Len(s) : s[i] = u[i]
  BY <1>1, <1>2
<1>4. s = u
  BY <1>2, <1>3, SeqEqual
<1> QED BY <1>1, <1>4 DEF Leads, t, u

\* A prompt that extends the retained tokens, or the committed ones, extends
\* the tape.
LEMMA ExtendsTape ==
  ASSUME NEW prompt \in Seq(Tokens), NEW tape \in Seq(Tokens), NEW b \in Boundaries,
         Leads(tape, b.tokens), Len(tape) = b.committed,
         Extends(prompt, RequiredPrefix(b))
  PROVE  b.committed \in 0 .. Len(prompt) /\ tape = SubSeq(prompt, 1, b.committed)
<1> DEFINE n == b.committed
           q == RequiredPrefix(b)
           u == SubSeq(prompt, 1, n)
           v == SubSeq(prompt, 1, Len(q))
<1>1. n \in Nat /\ b.tokens \in Seq(Tokens) /\ Len(b.tokens) = n + 1 /\ tape = SubSeq(b.tokens, 1, n)
  BY DEF Boundaries, Leads
<1>2. \A i \in 1 .. n : tape[i] = b.tokens[i]
  <2>1. n \in 0 .. Len(b.tokens)
    BY <1>1
  <2> QED BY <1>1, <2>1, PrefixOf
<1>3. q \in Seq(Tokens) /\ Len(q) >= n /\ \A i \in 1 .. n : q[i] = tape[i]
  BY <1>1, <1>2 DEF RequiredPrefix
<1>4. Len(prompt) > Len(q) /\ v = q
  BY DEF Extends
<1> HIDE DEF q
<1>5. n \in 0 .. Len(prompt) /\ Len(q) \in 0 .. Len(prompt) /\ Len(q) \in Nat
  BY <1>1, <1>3, <1>4
<1>6. u \in Seq(Tokens) /\ Len(u) = n /\ \A i \in 1 .. n : u[i] = prompt[i]
  BY <1>5, PrefixOf
<1>7. \A i \in 1 .. Len(q) : v[i] = prompt[i]
  BY <1>5, PrefixOf
<1> HIDE DEF u, v
<1>8. \A i \in 1 .. n : tape[i] = u[i]
  <2>1. \A i \in 1 .. n : i \in 1 .. Len(q)
    BY <1>1, <1>3, <1>5
  <2> QED BY <1>3, <1>4, <1>6, <1>7, <2>1
<1>9. tape = u
  BY <1>6, <1>8, SeqEqual
<1> QED BY <1>5, <1>9 DEF u

\* The next rows of the prompt continue its prefix.
LEMMA NextRows ==
  ASSUME NEW s \in Seq(Tokens), NEW m \in 0 .. Len(s), NEW n \in m .. Len(s)
  PROVE  /\ SubSeq(s, m + 1, n) \in Seq(Tokens) /\ Len(SubSeq(s, m + 1, n)) = n - m
         /\ SubSeq(s, 1, m) \o SubSeq(s, m + 1, n) = SubSeq(s, 1, n)
<1> DEFINE a == SubSeq(s, 1, m)
           b == SubSeq(s, m + 1, n)
           c == SubSeq(s, 1, n)
           d == a \o b
<1>1. Len(s) \in Nat /\ m \in Nat /\ n \in Nat /\ m <= n /\ n <= Len(s) /\ \A i \in 1 .. Len(s) : s[i] \in Tokens
  OBVIOUS
<1>2. a \in Seq(Tokens) /\ Len(a) = m /\ \A i \in 1 .. m : a[i] = s[i]
  BY PrefixOf
<1>3. c \in Seq(Tokens) /\ Len(c) = n /\ \A i \in 1 .. n : c[i] = s[i]
  <2>1. n \in 0 .. Len(s)
    BY <1>1
  <2> QED BY <2>1, PrefixOf
<1>4. b \in Seq(Tokens) /\ Len(b) = n - m /\ \A i \in 1 .. n - m : b[i] = s[m + i]
  <2>1. \A i \in m + 1 .. n : s[i] \in Tokens
    BY <1>1
  <2>2. /\ b \in Seq(Tokens)
        /\ Len(b) = IF m + 1 <= n THEN n - (m + 1) + 1 ELSE 0
        /\ \A i \in 1 .. n - (m + 1) + 1 : b[i] = s[(m + 1) + i - 1]
    BY <1>1, <2>1, SubSeqProperties
  <2>3. Len(b) = n - m
    BY <1>1, <2>2
  <2>4. ASSUME NEW i \in 1 .. n - m PROVE b[i] = s[m + i]
    <3>1. i \in 1 .. n - (m + 1) + 1 /\ (m + 1) + i - 1 = m + i
      BY <1>1
    <3> QED BY <2>2, <3>1
  <2> QED BY <2>2, <2>3, <2>4
<1> HIDE DEF a, b, c
<1>5. /\ d \in Seq(Tokens) /\ Len(d) = Len(a) + Len(b)
      /\ \A i \in 1 .. Len(a) + Len(b) : d[i] = IF i <= Len(a) THEN a[i] ELSE b[i - Len(a)]
  BY <1>2, <1>4, ConcatProperties
<1> HIDE DEF d
<1>6. Len(d) = n
  BY <1>1, <1>2, <1>4, <1>5
<1>7. ASSUME NEW i \in 1 .. n PROVE d[i] = c[i]
  <2>1. CASE i <= m
    BY <1>1, <1>2, <1>3, <1>4, <1>5, <2>1
  <2>2. CASE ~(i <= m)
    <3>1. i - m \in 1 .. n - m /\ m + (i - m) = i /\ i \in 1 .. Len(a) + Len(b)
      BY <1>1, <1>2, <1>4, <2>2
    <3> QED BY <1>2, <1>3, <1>4, <1>5, <2>2, <3>1
  <2> QED BY <2>1, <2>2
<1>8. d = c
  BY <1>3, <1>5, <1>6, <1>7, SeqEqual
<1> QED BY <1>4, <1>8 DEF a, b, c, d

\* The whole prompt is its own prefix.
LEMMA WholePrefix ==
  ASSUME NEW S, NEW s \in Seq(S)
  PROVE  SubSeq(s, 1, Len(s)) = s
<1> DEFINE t == SubSeq(s, 1, Len(s))
<1>1. t \in Seq(S) /\ Len(t) = Len(s) /\ \A i \in 1 .. Len(s) : t[i] = s[i]
  <2>1. Len(s) \in 0 .. Len(s)
    OBVIOUS
  <2> QED BY <2>1, PrefixOf
<1> HIDE DEF t
<1>2. t = s
  BY <1>1, SeqEqual
<1> QED BY <1>2 DEF t

\* A tape that lags what was emitted by one token leads to it.
LEMMA LagLeads ==
  ASSUME NEW tape \in Seq(Tokens), NEW x \in Tokens,
         NEW prompt \in Seq(Tokens), NEW generated \in Seq(Tokens),
         Len(prompt) >= 1, generated # <<>>,
         Append(tape, x) = prompt \o generated
  PROVE  /\ prompt \o generated \in Seq(Tokens)
         /\ Leads(tape, prompt \o generated) /\ Len(tape) >= 1
<1>1. Leads(tape, prompt \o generated) /\ Len(prompt \o generated) = Len(tape) + 1
  <2>1. Leads(tape, Append(tape, x)) /\ Len(Append(tape, x)) = Len(tape) + 1
    BY AppendLeads, ZenonT(60)
  <2> QED BY <2>1
<1>2. Len(prompt \o generated) = Len(prompt) + Len(generated) /\ prompt \o generated \in Seq(Tokens)
  BY ConcatProperties
<1>3. Len(generated) >= 1 /\ Len(tape) \in Nat /\ Len(prompt) \in Nat /\ Len(generated) \in Nat
  OBVIOUS
<1> QED BY <1>1, <1>2, <1>3

\* A tape that lags a token sequence by its last token, and the rows a decode
\* transaction consumes: the pending token and what it accepted.
Lags(tape, x, tokens) == Append(tape, x) = tokens
Consumed(x, tokens) == <<x>> \o SubSeq(tokens, 1, Len(tokens) - 1)

\* A decode transaction consumes the pending token and all but the last of the
\* tokens it emits, and keeps the lag.
LEMMA DecodeContinues ==
  ASSUME NEW tape \in Seq(Tokens), NEW s \in Seq(Tokens), NEW x \in Tokens,
         NEW tokens \in Seq(Tokens), tokens # <<>>, Lags(tape, x, s)
  PROVE  /\ Consumed(x, tokens) \in Seq(Tokens) /\ Len(Consumed(x, tokens)) = Len(tokens)
         /\ Lags(tape \o Consumed(x, tokens), tokens[Len(tokens)], s \o tokens)
<1> DEFINE n == Len(tokens)
           f == SubSeq(tokens, 1, n - 1)
           rows == <<x>> \o f
           y == tokens[n]
           a == tape \o rows
           l == Append(a, y)
           r == s \o tokens
           m == Len(tape)
<1>1. n \in Nat /\ n >= 1 /\ y \in Tokens /\ m \in Nat
  OBVIOUS
<1>2. f \in Seq(Tokens) /\ Len(f) = n - 1 /\ \A i \in 1 .. n - 1 : f[i] = tokens[i]
  <2>1. n - 1 \in 0 .. Len(tokens)
    BY <1>1
  <2> QED BY <2>1, PrefixOf
<1> HIDE DEF f, y
<1>3. /\ rows \in Seq(Tokens) /\ Len(rows) = n /\ rows[1] = x
      /\ \A i \in 2 .. n : rows[i] = tokens[i - 1]
  <2>1. <<x>> \in Seq(Tokens) /\ Len(<<x>>) = 1 /\ <<x>>[1] = x
    OBVIOUS
  <2>2. /\ rows \in Seq(Tokens) /\ Len(rows) = Len(<<x>>) + Len(f)
        /\ \A i \in 1 .. Len(<<x>>) + Len(f) : rows[i] = IF i <= Len(<<x>>) THEN <<x>>[i] ELSE f[i - Len(<<x>>)]
    BY <1>2, <2>1, ConcatProperties
  <2> HIDE DEF rows
  <2>3. Len(rows) = n /\ rows[1] = x
    BY <1>1, <1>2, <2>1, <2>2
  <2>4. ASSUME NEW i \in 2 .. n PROVE rows[i] = tokens[i - 1]
    <3>1. i \in 1 .. Len(<<x>>) + Len(f) /\ ~(i <= Len(<<x>>)) /\ i - Len(<<x>>) = i - 1 /\ i - 1 \in 1 .. n - 1
      BY <1>1, <1>2, <2>1
    <3> QED BY <1>2, <2>2, <3>1
  <2> QED BY <2>2, <2>3, <2>4
<1> HIDE DEF rows
<1>4. /\ a \in Seq(Tokens) /\ Len(a) = m + n
      /\ \A i \in 1 .. m + n : a[i] = IF i <= m THEN tape[i] ELSE rows[i - m]
  <2>1. rows \in Seq(Tokens)
    BY <1>3
  <2>2. /\ a \in Seq(Tokens) /\ Len(a) = Len(tape) + Len(rows)
        /\ \A i \in 1 .. Len(tape) + Len(rows) :
             a[i] = IF i <= Len(tape) THEN tape[i] ELSE rows[i - Len(tape)]
    BY <2>1, ConcatProperties
  <2> HIDE DEF a
  <2> QED BY <1>3, <2>2
<1> HIDE DEF a
<1>5. /\ l \in Seq(Tokens) /\ Len(l) = m + n + 1
      /\ \A i \in 1 .. m + n : l[i] = a[i]
      /\ l[m + n + 1] = y
  <2>1. y \in Tokens /\ a \in Seq(Tokens) /\ Len(a) = m + n
    BY <1>1, <1>4
  <2> HIDE DEF y
  <2>2. /\ l \in Seq(Tokens) /\ Len(l) = Len(a) + 1
        /\ \A i \in 1 .. Len(a) : l[i] = a[i]
        /\ l[Len(a) + 1] = y
    BY <2>1, AppendProperties
  <2> QED BY <2>1, <2>2
<1> HIDE DEF l
<1>6. Len(s) = m + 1 /\ s[m + 1] = x /\ \A i \in 1 .. m : s[i] = tape[i]
  BY <1>1, AppendProperties DEF Lags
<1>7. /\ r \in Seq(Tokens) /\ Len(r) = m + 1 + n
      /\ \A i \in 1 .. m + 1 + n : r[i] = IF i <= m + 1 THEN s[i] ELSE tokens[i - (m + 1)]
  <2>1. /\ r \in Seq(Tokens) /\ Len(r) = Len(s) + Len(tokens)
        /\ \A i \in 1 .. Len(s) + Len(tokens) :
             r[i] = IF i <= Len(s) THEN s[i] ELSE tokens[i - Len(s)]
    BY ConcatProperties
  <2> HIDE DEF r
  <2> QED BY <1>6, <2>1
<1> HIDE DEF r
<1>8. ASSUME NEW i \in 1 .. m + n + 1 PROVE l[i] = r[i]
  <2>1. CASE i <= m
    <3>1. i \in 1 .. m /\ i \in 1 .. m + n /\ i \in 1 .. m + 1 + n /\ i <= m + 1
      BY <1>1, <2>1
    <3> QED BY <1>4, <1>5, <1>6, <1>7, <2>1, <3>1
  <2>2. CASE i = m + 1
    <3>1. i \in 1 .. m + n /\ i \in 1 .. m + 1 + n /\ i <= m + 1 /\ ~(i <= m) /\ i - m = 1
      BY <1>1, <2>2
    <3> QED BY <1>3, <1>4, <1>5, <1>6, <1>7, <2>2, <3>1
  <2>3. CASE i > m + 1 /\ i <= m + n
    <3>1. /\ i \in 1 .. m + n /\ i \in 1 .. m + 1 + n /\ ~(i <= m + 1) /\ ~(i <= m)
          /\ i - m \in 2 .. n /\ (i - m) - 1 = i - (m + 1)
      BY <1>1, <2>3
    <3> QED BY <1>3, <1>4, <1>5, <1>7, <3>1
  <2>4. CASE i = m + n + 1
    <3>1. i \in 1 .. m + 1 + n /\ ~(i <= m + 1) /\ i - (m + 1) = n
      BY <1>1, <2>4
    <3> QED BY <1>5, <1>7, <2>4, <3>1 DEF y
  <2>5. i <= m \/ i = m + 1 \/ (i > m + 1 /\ i <= m + n) \/ i = m + n + 1
    <3> HIDE DEF m, n
    <3> QED BY <1>1
  <2> QED BY <2>1, <2>2, <2>3, <2>4, <2>5
<1>9. Len(l) = Len(r) /\ Len(l) = m + n + 1
  BY <1>1, <1>5, <1>7
<1>10. l = r
  BY <1>5, <1>7, <1>8, <1>9, SeqEqual
<1> QED BY <1>3, <1>10 DEF l, a, rows, f, r, y, Lags, Consumed

\* Appending keeps the first token and joins in any order.
LEMMA MoreGenerated ==
  ASSUME NEW S, NEW p \in Seq(S), NEW g \in Seq(S), NEW t \in Seq(S), g # <<>>, t # <<>>
  PROVE  /\ g \o t \in Seq(S) /\ g \o t # <<>> /\ (g \o t)[1] = g[1]
         /\ (g \o t)[Len(g \o t)] = t[Len(t)]
         /\ (p \o g) \o t = p \o (g \o t)
<1>1. Len(g) \in Nat /\ Len(t) \in Nat /\ Len(g) >= 1 /\ Len(t) >= 1
  OBVIOUS
<1>2. /\ g \o t \in Seq(S) /\ Len(g \o t) = Len(g) + Len(t)
      /\ \A i \in 1 .. Len(g) + Len(t) : (g \o t)[i] = IF i <= Len(g) THEN g[i] ELSE t[i - Len(g)]
  BY ConcatProperties
<1>3. /\ 1 \in 1 .. Len(g) + Len(t) /\ Len(g) + Len(t) \in 1 .. Len(g) + Len(t)
      /\ (Len(g) + Len(t)) - Len(g) = Len(t) /\ ~(Len(g) + Len(t) <= Len(g))
  BY <1>1
<1>4. (p \o g) \o t = p \o (g \o t)
  BY ConcatAssociative
<1> QED BY <1>1, <1>2, <1>3, <1>4

-----------------------------------------------------------------------------
(* What the invariant says in a phase.                                       *)

\* While a request is inside the target and not yet at its tail, no publication
\* is pending.
LEMMA RunningFacts ==
  ASSUME IInv, request.phase \in Generating \ {"tail"}
  PROVE  /\ engine.pending = {} /\ engine.stream = "none" /\ engine.life = "running"
         /\ request.result = "ok"
         /\ ~mode.faulty => (provider.branch # {} => request.holds # "none")
<1>1. engine.stream = "none" /\ engine.life = "running" /\ request.result = "ok"
  BY DEF IInv, SettleInv, Generating
<1>2. engine.pending = {}
  <2>1. ASSUME NEW d \in engine.pending PROVE FALSE
    <3>1. Own(request, d) \/ engine.life = "poisoned"
      BY DEF IInv, PendingInv
    <3> QED BY <1>1, <3>1 DEF Own, Generating
  <2> QED BY <2>1
<1> QED BY <1>1, <1>2 DEF IInv, BranchInv

\* Outside of it, and before it is answered, one is left by a poisoned engine.
LEMMA RestingFacts ==
  ASSUME IInv, request.phase \in {"idle", "enter"}
  PROVE  /\ request.holds = "none" /\ engine.stream = "none" /\ engine.life # "running"
         /\ request.stop = "none" /\ request.generated = <<>> /\ request.first = 0
         /\ \A d \in engine.pending : Describes(provider, d) /\ engine.life = "poisoned"
<1>1. /\ engine.stream = "none" /\ engine.life # "running"
      /\ request.stop = "none" /\ request.generated = <<>> /\ request.first = 0
  BY DEF IInv, SettleInv, Generating
<1>2. request.holds = "none"
  BY DEF IInv, BranchInv
<1>3. ASSUME NEW d \in engine.pending
      PROVE  Describes(provider, d) /\ engine.life = "poisoned"
  BY DEF IInv, PendingInv, Own
<1> QED BY <1>1, <1>2, <1>3

\* A pending publication has a branch, so nothing is retained.
LEMMA OwnedFacts ==
  ASSUME IInv, OwnsBranch
  PROVE  provider.branch # {} /\ engine.boundary = {} /\ engine.committed # 0
<1>1. provider.branch # {}
  <2>1. CASE request.holds # "none"
    BY <2>1 DEF IInv, BranchInv
  <2>2. CASE engine.pending # {}
    BY <2>2 DEF IInv, PendingInv, Describes
  <2> QED BY <2>1, <2>2 DEF OwnsBranch
<1> QED BY <1>1 DEF IInv, BoundaryInv, CommittedInv

\* The other provider calls.
LEMMA BranchedType ==
  ASSUME NEW p \in Providers
  PROVE  /\ Branched(p) \in Providers /\ Branched(p).tape = p.tape
         /\ Branched(p).branch # {} /\ \A s \in Branched(p).branch : s.tape = p.tape
         /\ Published(p) \in Providers /\ Published(p).tape = p.tape
         /\ Published(p).gen = p.gen /\ Published(p).branch = {}
<1> DEFINE s == [tape |-> p.tape, gen |-> p.gen]
<1>1. s \in Snapshots /\ s.tape = p.tape
  BY DEF Snapshots, Providers
<1>2. Branched(p) = [p EXCEPT !.branch = {s}]
  BY DEF Branched
<1> HIDE DEF s
<1>3. {s} \subseteq Snapshots
  BY <1>1
<1> DEFINE b == {s}
<1>4. b \in SUBSET Snapshots /\ b # {} /\ \A x \in b : x.tape = p.tape
  BY <1>1, <1>3
<1> HIDE DEF b
<1>5. Branched(p) \in Providers /\ Branched(p).tape = p.tape /\ Branched(p).branch = b
  <2>1. Branched(p) = [p EXCEPT !.branch = b]
    BY <1>2 DEF b
  <2> QED BY <1>4, <2>1 DEF Providers
<1>6. /\ Published(p) \in Providers /\ Published(p).tape = p.tape
      /\ Published(p).gen = p.gen /\ Published(p).branch = {}
  BY DEF Published, Providers
<1> QED BY <1>4, <1>5, <1>6

LEMMA CommittedType ==
  ASSUME NEW p \in Providers, NEW rows \in Seq(Tokens)
  PROVE  /\ Committed(p, rows) \in Providers
         /\ Committed(p, rows).tape = p.tape \o rows
         /\ Committed(p, rows).branch = p.branch
<1> DEFINE t == p.tape \o rows
           g == p.gen + 1
<1>1. p.tape \in Seq(Tokens) /\ g \in Nat
  BY DEF Providers
<1>2. t \in Seq(Tokens)
  BY <1>1, ConcatProperties
<1>3. Committed(p, rows) = [p EXCEPT !.tape = t, !.gen = g]
  BY DEF Committed
<1> HIDE DEF t, g
<1> QED BY <1>1, <1>2, <1>3 DEF Providers, t

LEMMA ClearedType ==
  ASSUME NEW p \in Providers
  PROVE  /\ Cleared(p) \in Providers /\ Cleared(p).tape = <<>>
         /\ Cleared(p).branch = p.branch
<1> DEFINE g == p.gen + 1
<1>1. g \in Nat /\ <<>> \in Seq(Tokens)
  BY DEF Providers
<1>2. Cleared(p) = [p EXCEPT !.tape = <<>>, !.gen = g]
  BY DEF Cleared
<1> HIDE DEF g
<1> QED BY <1>1, <1>2 DEF Providers

\* Restoring the branch yields a provider without one.
LEMMA RestoredType ==
  ASSUME NEW p \in Providers, p.branch # {}
  PROVE  /\ Restored(p) \in Providers /\ Restored(p).branch = {}
         /\ \E s \in p.branch : Restored(p).tape = s.tape
<1> DEFINE parent == CHOOSE b \in p.branch : TRUE
<1>1. parent \in p.branch /\ parent \in Snapshots
  BY DEF Providers
<1> HIDE DEF parent
<1>2. Restored(p) = [tape |-> parent.tape, gen |-> Larger(p.gen, parent.gen) + 1, branch |-> {}]
  BY DEF Restored, parent
<1>3. Larger(p.gen, parent.gen) + 1 \in Nat
  BY <1>1 DEF Larger, Providers, Snapshots
<1> QED BY <1>1, <1>2, <1>3 DEF Providers, Snapshots

\* Dropping it does too, unless the discard fails.
LEMMA DroppedType ==
  ASSUME TInv, provider.branch # {}, NEW p \in Dropped(provider)
  PROVE  p \in Providers /\ (~mode.faulty => p.branch = {})
<1>1. provider \in Providers
  BY DEF TInv
<1>2. Restored(provider) \in Providers /\ Restored(provider).branch = {}
  BY <1>1, RestoredType
<1>3. p = Restored(provider) \/ (mode.faulty /\ p = provider)
  BY DEF Dropped
<1> QED BY <1>1, <1>2, <1>3

-----------------------------------------------------------------------------
(* Before the target.                                                        *)

\* What a request without progress may find.
LEMMA RestInv ==
  ASSUME IInv, UNCHANGED <<mode, provider, engine>>, served' \in 0 .. MaxRequests,
         request.phase \in {"idle", "enter"},
         request' \in Requests, request'.phase \in {"idle", "enter"},
         request'.holds = "none", request'.first = 0, request'.generated = <<>>,
         request'.stop = "none", request'.result = "ok"
  PROVE  IInv'
<1>1. TInv'
  BY DEF IInv, TInv
<1>2. BoundaryInv(provider, engine)' /\ CommittedInv(provider, engine)'
  BY DEF IInv, BoundaryInv, CommittedInv
<1>3. ComputeInv(provider, engine, request)'
  BY DEF ComputeInv
<1>4. BranchInv(provider, engine, request)'
  BY RestingFacts DEF IInv, BranchInv
<1>5. PendingInv(provider, engine, request)'
  <2>1. \A d, f \in engine.pending : d = f
    BY DEF IInv, PendingInv
  <2> QED BY <2>1, RestingFacts DEF PendingInv, Describes
<1>6. SettleInv(engine, request)'
  BY RestingFacts DEF SettleInv, Generating
<1> QED BY <1>1, <1>2, <1>3, <1>4, <1>5, <1>6 DEF IInv

LEMMA NoRequestType ==
  /\ NoRequest \in Requests /\ NoRequest.phase = "idle"
  /\ NoRequest.holds = "none" /\ NoRequest.first = 0 /\ NoRequest.generated = <<>>
  /\ NoRequest.stop = "none" /\ NoRequest.result = "ok"
  BY DEF NoRequest, Requests, Phases

LEMMA ArriveInv ==
  ASSUME IInv, NEW prompt \in Prompts, NEW chat \in BOOLEAN, NEW stream \in BOOLEAN,
         Arrive(prompt, chat, stream)
  PROVE  IInv'
<1>1. /\ request.phase = "idle" /\ served < MaxRequests /\ served' = served + 1
      /\ request' = [NoRequest EXCEPT !.phase = "enter", !.prompt = prompt,
                                      !.chat = chat, !.stream = stream]
      /\ UNCHANGED <<mode, provider, engine>>
  BY DEF Arrive
<1>2. prompt \in Seq(Tokens) /\ MaxRequests \in Nat
  BY ReuseAssumption
<1>3. /\ request' \in Requests /\ request'.phase = "enter"
      /\ request'.holds = "none" /\ request'.first = 0 /\ request'.generated = <<>>
      /\ request'.stop = "none" /\ request'.result = "ok"
  BY <1>1, <1>2, NoRequestType DEF Requests, Phases
<1>4. served' \in 0 .. MaxRequests
  BY <1>1, <1>2 DEF IInv, TInv
<1> QED BY <1>1, <1>3, <1>4, RestInv

LEMMA AbandonEarlyInv ==
  ASSUME IInv, AbandonEarly
  PROVE  IInv'
<1>1. /\ request.phase = "enter" /\ request' = NoRequest
      /\ UNCHANGED <<mode, provider, engine, served>>
  BY DEF AbandonEarly
<1>2. served' \in 0 .. MaxRequests
  BY <1>1 DEF IInv, TInv
<1> QED BY <1>1, <1>2, NoRequestType, RestInv

LEMMA DisconnectInv ==
  ASSUME IInv, Disconnect
  PROVE  IInv'
<1>1. /\ request' = [request EXCEPT !.gone = TRUE]
      /\ UNCHANGED <<mode, provider, engine, served>>
  BY DEF Disconnect
<1>2. request \in Requests
  BY DEF IInv, TInv
<1>3. /\ request' \in Requests
      /\ request'.phase = request.phase /\ request'.prompt = request.prompt
      /\ request'.chat = request.chat /\ request'.stream = request.stream
      /\ request'.first = request.first /\ request'.generated = request.generated
      /\ request'.stop = request.stop /\ request'.holds = request.holds
      /\ request'.parent = request.parent /\ request'.result = request.result
      /\ request'.publication = request.publication
  BY <1>1, <1>2 DEF Requests
<1>4. TInv' /\ BoundaryInv(provider, engine)' /\ CommittedInv(provider, engine)'
  BY <1>1, <1>3 DEF IInv, TInv, BoundaryInv, CommittedInv
<1>5. ComputeInv(provider, engine, request)'
  BY <1>1, <1>3 DEF IInv, ComputeInv, Continues
<1>6. BranchInv(provider, engine, request)'
  BY <1>1, <1>3 DEF IInv, BranchInv
<1>7. PendingInv(provider, engine, request)'
  BY <1>1, <1>3 DEF IInv, PendingInv, Own, Describes
<1>8. SettleInv(engine, request)'
  BY <1>1, <1>3 DEF IInv, SettleInv
<1> QED BY <1>4, <1>5, <1>6, <1>7, <1>8 DEF IInv

LEMMA BeginInv ==
  ASSUME IInv, Begin
  PROVE  IInv'
<1>1. request.phase = "enter" /\ UNCHANGED <<mode, provider, served>>
  BY DEF Begin
<1>2. request \in Requests /\ engine \in Engines
  BY DEF IInv, TInv
<1>3. CASE engine.life = "ready"
  <2>1. /\ engine' = [engine EXCEPT !.life = "running"]
        /\ request' = [request EXCEPT !.phase = "started"]
    BY <1>1, <1>3, RestingFacts DEF Begin
  <2>2. /\ request' \in Requests /\ request'.phase = "started"
        /\ request'.stream = request.stream
        /\ request'.first = request.first /\ request'.generated = request.generated
        /\ request'.stop = request.stop /\ request'.holds = request.holds
        /\ request'.result = request.result
    BY <1>2, <2>1 DEF Requests, Phases
  <2>3. /\ engine' \in Engines /\ engine'.life = "running"
        /\ engine'.committed = engine.committed /\ engine'.boundary = engine.boundary
        /\ engine'.pending = engine.pending /\ engine'.stream = engine.stream
    BY <1>2, <2>1 DEF Engines
  <2>4. engine'.pending = {}
    BY <1>1, <1>3, <2>3, RestingFacts
  <2>5. TInv' /\ BoundaryInv(provider, engine)' /\ CommittedInv(provider, engine)'
    BY <1>1, <2>2, <2>3 DEF IInv, TInv, BoundaryInv, CommittedInv
  <2>6. ComputeInv(provider, engine, request)' /\ PendingInv(provider, engine, request)'
    BY <2>2, <2>4 DEF ComputeInv, PendingInv
  <2>7. BranchInv(provider, engine, request)'
    BY <1>1, <2>2, <2>3, RestingFacts DEF IInv, BranchInv
  <2>8. SettleInv(engine, request)'
    BY <1>1, <2>2, <2>3, RestingFacts DEF IInv, SettleInv, Generating
  <2> QED BY <2>5, <2>6, <2>7, <2>8 DEF IInv
<1>4. CASE engine.life # "ready"
  <2>1. /\ request' = [request EXCEPT !.phase = "respond", !.result = "target"]
        /\ engine' = engine
    BY <1>4 DEF Begin
  <2>2. /\ request' \in Requests /\ request'.phase = "respond" /\ request'.result = "target"
        /\ request'.stop = "none" /\ request'.holds = "none"
    BY <1>1, <1>2, <2>1, RestingFacts DEF Requests, Phases
  <2>3. engine.life = "poisoned"
    BY <1>1, <1>2, <1>4, RestingFacts DEF Engines
  <2>4. TInv' /\ BoundaryInv(provider, engine)' /\ CommittedInv(provider, engine)'
    BY <1>1, <2>1, <2>2 DEF IInv, TInv, BoundaryInv, CommittedInv
  <2>5. ComputeInv(provider, engine, request)'
    BY <2>2 DEF ComputeInv
  <2>6. BranchInv(provider, engine, request)'
    BY <1>1, <2>1, <2>2, RestingFacts DEF IInv, BranchInv
  <2>7. PendingInv(provider, engine, request)'
    <3>1. \A d, f \in engine.pending : d = f
      BY DEF IInv, PendingInv
    <3> QED BY <1>1, <2>1, <2>2, <2>3, <3>1, RestingFacts DEF PendingInv, Describes
  <2>8. SettleInv(engine, request)'
    BY <1>1, <2>1, <2>2, <2>3, RestingFacts DEF SettleInv, Generating
  <2> QED BY <2>4, <2>5, <2>6, <2>7, <2>8 DEF IInv
<1> QED BY <1>3, <1>4

-----------------------------------------------------------------------------
(* Inside the target.                                                        *)

\* A request fails; its branch, if it has one, is left to the tail.
LEMMA FailInv ==
  ASSUME IInv, request.phase \in Generating \ {"tail"},
         NEW kind \in {"target", "publication"}, kind = "publication" => request.stream,
         Fails(kind), UNCHANGED <<mode, provider, served>>,
         engine' = engine \/ engine' = [engine EXCEPT !.boundary = {}]
  PROVE  IInv'
<1>1. request' = [request EXCEPT !.phase = "tail", !.result = kind]
  BY DEF Fails
<1>2. request \in Requests /\ engine \in Engines
  BY DEF IInv, TInv
<1>3. /\ request' \in Requests /\ request'.phase = "tail" /\ request'.result = kind
      /\ request'.chat = request.chat /\ request'.stream = request.stream
      /\ request'.stop = request.stop /\ request'.holds = request.holds
  BY <1>1, <1>2 DEF Requests, Phases
<1>4. /\ engine' \in Engines /\ engine'.life = engine.life
      /\ engine'.committed = engine.committed /\ engine'.boundary \subseteq engine.boundary
      /\ engine'.pending = engine.pending /\ engine'.stream = engine.stream
  BY <1>2 DEF Engines
<1>5. TInv' /\ BoundaryInv(provider, engine)' /\ CommittedInv(provider, engine)'
  BY <1>3, <1>4 DEF IInv, TInv, BoundaryInv, CommittedInv
<1>6. ComputeInv(provider, engine, request)' /\ PendingInv(provider, engine, request)'
  BY <1>3, <1>4, RunningFacts DEF ComputeInv, PendingInv
<1>7. BranchInv(provider, engine, request)'
  BY <1>3, <1>4, RunningFacts DEF IInv, BranchInv
<1>8. SettleInv(engine, request)'
  BY <1>3, <1>4, RunningFacts DEF SettleInv, Generating
<1> QED BY <1>5, <1>6, <1>7, <1>8 DEF IInv

LEMMA FailuresInv ==
  ASSUME IInv, Unsuitable \/ FlushFails \/ \E phase \in {"prefill", "decode"} : TargetFault(phase)
  PROVE  IInv'
<1>1. CASE Unsuitable
  BY <1>1, FailInv DEF Unsuitable, Generating
<1>2. CASE FlushFails
  BY <1>2, FailInv DEF FlushFails, SinkMayFail, Generating
<1>3. ASSUME NEW phase \in {"prefill", "decode"}, TargetFault(phase) PROVE IInv'
  BY <1>3, FailInv DEF TargetFault, Generating
<1> QED BY <1>1, <1>2, <1>3

\* Generation stops without anything more to consume.
LEMMA StopInv ==
  ASSUME IInv, request.phase \in {"started", "prefill", "decode"},
         NEW reason \in {"full", "limit", "interrupted"}, request' = Stops(request, reason),
         request.phase # "started" => reason = "interrupted",
         UNCHANGED <<mode, provider, engine, served>>
  PROVE  IInv'
<1>1. request' = [request EXCEPT !.phase = "flush", !.stop = reason]
  BY DEF Stops
<1>2. request \in Requests
  BY DEF IInv, TInv
<1>3. /\ request' \in Requests /\ request'.phase = "flush" /\ request'.stop = reason
      /\ request'.prompt = request.prompt
      /\ request'.chat = request.chat /\ request'.stream = request.stream
      /\ request'.generated = request.generated /\ request'.holds = request.holds
      /\ request'.parent = request.parent /\ request'.result = request.result
  BY <1>1, <1>2 DEF Requests, Phases
<1>4. TInv' /\ BoundaryInv(provider, engine)' /\ CommittedInv(provider, engine)'
  BY <1>3 DEF IInv, TInv, BoundaryInv, CommittedInv
<1>5. engine.pending = {} /\ engine.stream = "none" /\ engine.life = "running" /\ request.result = "ok"
  BY RunningFacts DEF Generating
<1>6. request.holds = "decode" => request.phase = "decode"
  BY DEF IInv, BranchInv, ComputeInv
<1>7. ComputeInv(provider, engine, request)'
  BY <1>3, <1>6 DEF IInv, ComputeInv, Continues
<1>8. BranchInv(provider, engine, request)'
  BY <1>3 DEF IInv, BranchInv
<1>9. PendingInv(provider, engine, request)' /\ SettleInv(engine, request)'
  BY <1>3, <1>5 DEF PendingInv, SettleInv, Generating
<1> QED BY <1>4, <1>7, <1>8, <1>9 DEF IInv

LEMMA StopsInv ==
  ASSUME IInv, NothingToDo \/ Interrupt
  PROVE  IInv'
<1>1. CASE NothingToDo
  <2>1. PICK reason \in {"full", "limit"} : request' = Stops(request, reason)
    BY <1>1 DEF NothingToDo
  <2> QED BY <1>1, <2>1, StopInv DEF NothingToDo
<1>2. CASE Interrupt
  BY <1>2, StopInv DEF Interrupt
<1> QED BY <1>1, <1>2

LEMMA ReuseHitInv ==
  ASSUME IInv, ReuseHit
  PROVE  IInv'
<1>1. /\ request.phase = "started" /\ Enters /\ request.chat /\ UNCHANGED <<mode, served>>
  BY DEF ReuseHit
<1>2. PICK b \in engine.boundary :
        /\ Reusable(b) /\ Matches(b)
        /\ provider' = Branched(provider)
        /\ engine' = [engine EXCEPT !.boundary = {}, !.committed = b.committed]
        /\ request' = [request EXCEPT !.phase = "prefill", !.holds = "prefill",
                                      !.first = b.committed]
  BY DEF ReuseHit
<1>3. request \in Requests /\ engine \in Engines /\ provider \in Providers
  BY DEF IInv, TInv
<1>4. b \in Boundaries /\ b.committed \in Nat
  BY <1>3 DEF Engines, Boundaries
<1>5. /\ request' \in Requests /\ request'.phase = "prefill" /\ request'.holds = "prefill"
      /\ request'.first = b.committed /\ request'.prompt = request.prompt
      /\ request'.chat = request.chat /\ request'.stream = request.stream
      /\ request'.generated = request.generated /\ request'.stop = request.stop
      /\ request'.result = request.result
  BY <1>2, <1>3, <1>4 DEF Requests, Phases
<1>6. /\ engine' \in Engines /\ engine'.life = engine.life
      /\ engine'.committed = b.committed /\ engine'.boundary = {}
      /\ engine'.pending = engine.pending /\ engine'.stream = engine.stream
  BY <1>2, <1>3, <1>4 DEF Engines
<1>7. /\ provider' \in Providers /\ provider'.tape = provider.tape /\ provider'.branch # {}
  BY <1>2, <1>3, BranchedType
<1>8. /\ Len(provider.tape) = b.committed /\ b.committed >= 1 /\ Leads(provider.tape, b.tokens)
  BY DEF IInv, BoundaryInv
<1>9. b.committed \in 0 .. Len(request.prompt) /\ provider.tape = SubSeq(request.prompt, 1, b.committed)
  <2>1. request.prompt \in Seq(Tokens) /\ provider.tape \in Seq(Tokens)
    BY <1>3 DEF Requests, Providers
  <2>2. Extends(request.prompt, RequiredPrefix(b))
    BY <1>2 DEF Reusable
  <2> QED BY <1>4, <1>8, <2>1, <2>2, ExtendsTape
<1>10. /\ engine.pending = {} /\ engine.stream = "none" /\ engine.life = "running"
       /\ request.result = "ok" /\ request.generated = <<>>
  BY <1>1, RunningFacts DEF Generating, IInv, SettleInv
<1>11. Len(request.prompt) >= 1
  <2>1. Len(request.prompt) \in Nat
    BY <1>3 DEF Requests
  <2> QED BY <1>4, <1>8, <1>9, <2>1
<1>12. TInv' /\ BoundaryInv(provider, engine)' /\ CommittedInv(provider, engine)'
  BY <1>1, <1>4, <1>5, <1>6, <1>7, <1>8 DEF IInv, TInv, BoundaryInv, CommittedInv
<1>13. ComputeInv(provider, engine, request)'
  BY <1>5, <1>6, <1>7, <1>9, <1>10, <1>11 DEF ComputeInv
<1>14. BranchInv(provider, engine, request)'
  BY <1>1, <1>5, <1>6, <1>7, <1>10 DEF BranchInv
<1>15. PendingInv(provider, engine, request)' /\ SettleInv(engine, request)'
  BY <1>1, <1>5, <1>6, <1>10 DEF PendingInv, SettleInv, Generating
<1> QED BY <1>12, <1>13, <1>14, <1>15 DEF IInv

LEMMA ReuseMissInv ==
  ASSUME IInv, ReuseMiss
  PROVE  IInv'
<1>1. request.phase = "started" /\ Enters /\ UNCHANGED <<mode, served>>
  BY DEF ReuseMiss
<1>2. request \in Requests /\ engine \in Engines /\ provider \in Providers
  BY DEF IInv, TInv
<1>3. /\ engine.pending = {} /\ engine.stream = "none" /\ engine.life = "running"
      /\ request.result = "ok" /\ request.generated = <<>> /\ request.first = 0
      /\ request.holds = "none"
  BY <1>1, RunningFacts DEF Generating, IInv, SettleInv, BranchInv
<1>4. CASE /\ engine' = [engine EXCEPT !.boundary = {}]
           /\ Fails("target") /\ UNCHANGED provider
  BY <1>1, <1>4, FailInv DEF Generating
<1>5. CASE /\ IF engine.committed = 0
              THEN UNCHANGED provider
              ELSE CanReset(provider) /\ provider' = Cleared(provider)
           /\ engine' = [engine EXCEPT !.boundary = {}, !.committed = 0]
           /\ request' = [request EXCEPT !.phase = "prefill"]
  <2>1. /\ request' \in Requests /\ request'.phase = "prefill" /\ request'.holds = "none"
        /\ request'.first = 0 /\ request'.prompt = request.prompt
        /\ request'.chat = request.chat /\ request'.stream = request.stream
        /\ request'.generated = <<>> /\ request'.stop = request.stop
        /\ request'.result = "ok"
    BY <1>2, <1>3, <1>5 DEF Requests, Phases
  <2>2. /\ engine' \in Engines /\ engine'.life = engine.life
        /\ engine'.committed = 0 /\ engine'.boundary = {}
        /\ engine'.pending = {} /\ engine'.stream = "none"
    BY <1>2, <1>3, <1>5 DEF Engines
  <2>3. provider' \in Providers /\ provider'.tape = <<>> /\ provider'.branch = {}
    <3>1. CASE engine.committed = 0
      BY <1>2, <1>5, <3>1 DEF IInv, CommittedInv
    <3>2. CASE engine.committed # 0
      BY <1>2, <1>5, <3>2, ClearedType DEF CanReset
    <3> QED BY <3>1, <3>2
  <2>4. /\ Len(request.prompt) >= 1 /\ 0 \in 0 .. Len(request.prompt)
        /\ SubSeq(request.prompt, 1, 0) = <<>>
    <3>1. request.prompt \in Seq(Tokens)
      BY <1>2 DEF Requests
    <3>2. Len(request.prompt) \in Nat /\ Len(request.prompt) >= 1
      BY <1>1, <3>1, ReuseAssumption DEF Enters
    <3> QED BY <3>1, <3>2
  <2>5. TInv' /\ BoundaryInv(provider, engine)' /\ CommittedInv(provider, engine)'
    BY <1>1, <2>1, <2>2, <2>3 DEF IInv, TInv, BoundaryInv, CommittedInv
  <2>6. ComputeInv(provider, engine, request)'
    BY <2>1, <2>2, <2>3, <2>4 DEF ComputeInv
  <2>7. BranchInv(provider, engine, request)'
    BY <2>1, <2>3 DEF BranchInv
  <2>8. PendingInv(provider, engine, request)' /\ SettleInv(engine, request)'
    BY <1>3, <2>1, <2>2 DEF PendingInv, SettleInv, Generating
  <2> QED BY <2>5, <2>6, <2>7, <2>8 DEF IInv
<1> QED BY <1>4, <1>5 DEF ReuseMiss

LEMMA PrefillInv ==
  ASSUME IInv, Prefill
  PROVE  IInv'
<1> DEFINE last == IF request.first + ChunkSize < Len(request.prompt)
                   THEN request.first + ChunkSize ELSE Len(request.prompt)
           rows == SubSeq(request.prompt, request.first + 1, last)
<1>1. /\ request.phase = "prefill" /\ request.first < Len(request.prompt)
      /\ provider' = Committed(provider, rows)
      /\ engine' = [engine EXCEPT !.committed = @ + Len(rows)]
      /\ request' = [request EXCEPT !.first = last,
                       !.phase = IF last = Len(request.prompt) THEN "boundary" ELSE @]
      /\ UNCHANGED <<mode, served>>
  BY DEF Prefill
<1>2. request \in Requests /\ engine \in Engines /\ provider \in Providers
  BY DEF IInv, TInv
<1>3. request.prompt \in Seq(Tokens) /\ request.first \in Nat /\ Len(request.prompt) \in Nat
  BY <1>2 DEF Requests
<1>4. /\ engine.pending = {} /\ engine.stream = "none" /\ engine.life = "running"
      /\ request.result = "ok"
  BY <1>1, RunningFacts DEF Generating
<1>5. /\ Len(request.prompt) >= 1 /\ engine.boundary = {}
      /\ request.first \in 0 .. Len(request.prompt)
      /\ provider.tape = SubSeq(request.prompt, 1, request.first)
      /\ engine.committed = request.first /\ request.generated = <<>> /\ request.holds # "decode"
  BY <1>1 DEF IInv, ComputeInv
<1>6. /\ last \in request.first .. Len(request.prompt) /\ last \in Nat /\ last > request.first
  BY <1>1, <1>3, <1>5, ReuseAssumption
<1>7. /\ rows \in Seq(Tokens) /\ Len(rows) = last - request.first
      /\ provider.tape \o rows = SubSeq(request.prompt, 1, last)
  <2> DEFINE first == request.first
             prompt == request.prompt
  <2>1. prompt \in Seq(Tokens) /\ first \in 0 .. Len(prompt) /\ last \in first .. Len(prompt)
    BY <1>3, <1>5, <1>6
  <2> HIDE DEF last, first, prompt
  <2>2. /\ SubSeq(prompt, first + 1, last) \in Seq(Tokens)
        /\ Len(SubSeq(prompt, first + 1, last)) = last - first
        /\ SubSeq(prompt, 1, first) \o SubSeq(prompt, first + 1, last) = SubSeq(prompt, 1, last)
    BY <2>1, NextRows
  <2> QED BY <1>5, <2>2 DEF first, prompt
<1> HIDE DEF last, rows
<1>8. /\ request' \in Requests /\ request'.phase \in {"prefill", "boundary"}
      /\ request'.first = last /\ request'.prompt = request.prompt
      /\ request'.phase = "boundary" => last = Len(request.prompt)
      /\ request'.chat = request.chat /\ request'.stream = request.stream
      /\ request'.generated = <<>> /\ request'.stop = request.stop
      /\ request'.result = "ok" /\ request'.holds = request.holds
  BY <1>1, <1>2, <1>4, <1>5, <1>6 DEF Requests, Phases
<1>9. /\ engine' \in Engines /\ engine'.life = "running"
      /\ engine'.committed = last /\ engine'.boundary = {}
      /\ engine'.pending = {} /\ engine'.stream = "none"
  <2>1. engine.committed + Len(rows) = last
    BY <1>3, <1>5, <1>6, <1>7
  <2> QED BY <1>1, <1>2, <1>4, <1>5, <1>6, <2>1 DEF Engines
<1>10. provider' \in Providers /\ provider'.tape = provider.tape \o rows /\ provider'.branch = provider.branch
  BY <1>1, <1>2, <1>7, CommittedType
<1>11. TInv' /\ BoundaryInv(provider, engine)' /\ CommittedInv(provider, engine)'
  BY <1>1, <1>3, <1>6, <1>8, <1>9, <1>10 DEF IInv, TInv, BoundaryInv, CommittedInv
<1>12. last \in 0 .. Len(request.prompt)
  BY <1>3, <1>6
<1>13. ComputeInv(provider, engine, request)'
  BY <1>5, <1>7, <1>8, <1>9, <1>10, <1>12 DEF ComputeInv
<1>14. BranchInv(provider, engine, request)'
  BY <1>1, <1>4, <1>5, <1>8, <1>9, <1>10 DEF IInv, BranchInv
<1>15. PendingInv(provider, engine, request)' /\ SettleInv(engine, request)'
  BY <1>8, <1>9 DEF PendingInv, SettleInv, Generating
<1> QED BY <1>11, <1>13, <1>14, <1>15 DEF IInv

\* What was emitted continues the prompt; writing it may fail.
LEMMA WrittenInv ==
  ASSUME IInv, UNCHANGED <<mode, served>>,
         NEW r \in Requests, Written(r),
         r.phase \in {"decode", "flush"}, r.stream = request.stream, r.result = "ok",
         provider' \in Providers, engine' \in Engines,
         engine'.life = "running", engine'.boundary = {}, engine'.pending = {},
         engine'.stream = "none",
         Len(r.prompt) >= 1, Continues(provider', r),
         engine'.committed = Len(provider'.tape), engine'.committed # 0,
         r.holds = "decode" =>
           /\ \A s \in provider'.branch : s.tape = r.prompt
           /\ r.parent # {}
           /\ \A b \in r.parent : /\ b.tokens = Append(r.prompt, r.generated[1])
                                  /\ b.committed = Len(r.prompt),
         r.holds # "none" => r.chat /\ provider'.branch # {},
         r.holds = "none" => provider'.branch = {},
         r.holds = "prefill" => r.phase = "flush" /\ r.stop = "interrupted"
  PROVE  IInv'
<1>1. CASE request' = r
  <2>1. TInv' /\ BoundaryInv(provider, engine)' /\ CommittedInv(provider, engine)'
    BY <1>1 DEF IInv, TInv, BoundaryInv, CommittedInv
  <2>2. ComputeInv(provider, engine, request)'
    BY <1>1 DEF ComputeInv, Continues
  <2>3. BranchInv(provider, engine, request)'
    BY <1>1 DEF BranchInv
  <2>4. PendingInv(provider, engine, request)' /\ SettleInv(engine, request)'
    BY <1>1 DEF PendingInv, SettleInv, Generating
  <2> QED BY <2>1, <2>2, <2>3, <2>4 DEF IInv
<1>2. CASE SinkMayFail /\ request' = [r EXCEPT !.phase = "tail", !.result = "publication"]
  <2>1. /\ request' \in Requests /\ request'.phase = "tail" /\ request'.result = "publication"
        /\ request'.stream /\ request'.holds = r.holds /\ request'.chat = r.chat
    BY <1>2 DEF Requests, Phases, SinkMayFail
  <2>2. TInv' /\ BoundaryInv(provider, engine)' /\ CommittedInv(provider, engine)'
    BY <2>1 DEF IInv, TInv, BoundaryInv, CommittedInv
  <2>3. ComputeInv(provider, engine, request)'
    BY <2>1 DEF ComputeInv
  <2>4. BranchInv(provider, engine, request)'
    BY <2>1 DEF BranchInv
  <2>5. PendingInv(provider, engine, request)' /\ SettleInv(engine, request)'
    BY <2>1 DEF PendingInv, SettleInv, Generating
  <2> QED BY <2>2, <2>3, <2>4, <2>5 DEF IInv
<1> QED BY <1>1, <1>2 DEF Written

\* What is known when the prompt is consumed.
LEMMA BoundaryFacts ==
  ASSUME IInv, request.phase = "boundary"
  PROVE  /\ request \in Requests /\ engine \in Engines /\ provider \in Providers
         /\ request.prompt \in Seq(Tokens) /\ Len(request.prompt) >= 1
         /\ request.generated = <<>> /\ request.result = "ok"
         /\ provider.tape = request.prompt
         /\ engine.committed = Len(provider.tape) /\ engine.committed # 0
         /\ engine.boundary = {} /\ engine.pending = {} /\ engine.stream = "none"
         /\ engine.life = "running"
         /\ request.holds # "decode"
         /\ request.holds = "none" <=> provider.branch = {}
         /\ request.holds # "none" => request.chat
<1>1. request \in Requests /\ engine \in Engines /\ provider \in Providers
  BY DEF IInv, TInv
<1>2. request.prompt \in Seq(Tokens) /\ Len(request.prompt) \in Nat
  BY <1>1 DEF Requests
<1>3. /\ engine.pending = {} /\ engine.stream = "none" /\ engine.life = "running"
      /\ request.result = "ok"
  BY RunningFacts DEF Generating
<1>4. /\ Len(request.prompt) >= 1 /\ engine.boundary = {}
      /\ provider.tape = SubSeq(request.prompt, 1, Len(request.prompt))
      /\ engine.committed = Len(request.prompt) /\ request.generated = <<>>
      /\ request.holds # "decode"
  BY DEF IInv, ComputeInv
<1>5. provider.tape = request.prompt
  BY <1>2, <1>4, WholePrefix
<1>6. /\ request.holds = "none" <=> provider.branch = {}
      /\ request.holds # "none" => request.chat
  BY DEF IInv, BranchInv
<1>7. engine.committed # 0
  BY <1>2, <1>4
<1> QED BY <1>1, <1>2, <1>3, <1>4, <1>5, <1>6, <1>7

\* The first prediction follows the prompt.
LEMMA FirstToken ==
  ASSUME NEW prompt \in Seq(Tokens), NEW t \in Tokens
  PROVE  /\ <<>> \o <<t>> = <<t>> /\ <<t>> \in Seq(Tokens) /\ <<t>> # <<>> /\ Len(<<t>>) = 1
         /\ <<t>>[1] = t
         /\ Append(prompt, t) = prompt \o <<t>>
  BY AppendIsConcat, ConcatEmptySeq

\* Why a transaction may stop.
LEMMA StopType ==
  ASSUME NEW g, NEW stop \in StopSeen(g)
  PROVE  stop \in {"none", "eos", "full", "limit", "interrupted"}
  BY DEF StopSeen, StopAfter

\* What a request is after a transaction.
Emits(r, tokens, stop, e) ==
  /\ e \in Requests /\ e.phase \in {"decode", "flush"}
  /\ stop # "none" => e.phase = "flush"
  /\ e.prompt = r.prompt /\ e.chat = r.chat /\ e.stream = r.stream
  /\ e.generated = r.generated \o tokens /\ e.stop = stop
  /\ e.holds = r.holds /\ e.parent = r.parent /\ e.result = r.result

LEMMA EmittedType ==
  ASSUME NEW r \in Requests, NEW tokens \in Seq(Tokens),
         NEW stop \in {"none", "eos", "full", "limit", "interrupted"},
         NEW e, e = Emitted(r, tokens, stop)
  PROVE  Emits(r, tokens, stop, e)
<1> DEFINE new == r.generated \o tokens
           phase == IF stop = "none" THEN "decode" ELSE "flush"
<1>1. r.generated \in Seq(Tokens)
  BY DEF Requests
<1>2. new \in Seq(Tokens)
  BY <1>1, ConcatProperties
<1>3. phase \in {"decode", "flush"} /\ (stop # "none" => phase = "flush")
  OBVIOUS
<1>4. e = [r EXCEPT !.generated = new, !.stop = stop, !.phase = phase]
  BY DEF Emitted, Requests
<1> HIDE DEF new, phase
<1>5. /\ e \in Requests /\ e.phase = phase /\ e.prompt = r.prompt /\ e.chat = r.chat
      /\ e.stream = r.stream /\ e.generated = new /\ e.stop = stop /\ e.holds = r.holds
      /\ e.parent = r.parent /\ e.result = r.result
  <2>1. e \in Requests
    BY <1>2, <1>3, <1>4 DEF Requests, Phases
  <2> QED BY <1>4, <2>1 DEF Requests
<1> QED BY <1>3, <1>5 DEF new, Emits

LEMMA PromptBoundaryInv ==
  ASSUME IInv, NEW t \in Tokens, PromptBoundary(t)
  PROVE  IInv'
<1> DEFINE parent == [tokens |-> Append(request.prompt, t),
                      committed |-> Len(request.prompt), gen |-> provider.gen]
           r0 == [request EXCEPT !.holds = "decode", !.parent = {parent}]
<1>1. /\ request.phase = "boundary" /\ request.chat
      /\ provider' = Branched(Published(provider))
      /\ UNCHANGED <<mode, engine, served>>
  BY DEF PromptBoundary
<1>2. PICK stop \in StopSeen(<<t>>) : Written(Emitted(r0, <<t>>, stop))
  BY DEF PromptBoundary
<1>3. /\ request \in Requests /\ engine \in Engines /\ provider \in Providers
      /\ request.prompt \in Seq(Tokens) /\ Len(request.prompt) >= 1
      /\ request.generated = <<>> /\ request.result = "ok"
      /\ provider.tape = request.prompt
      /\ engine.committed = Len(provider.tape) /\ engine.committed # 0
      /\ engine.boundary = {} /\ engine.pending = {} /\ engine.stream = "none"
      /\ engine.life = "running"
  BY <1>1, BoundaryFacts
<1>4. parent \in Boundaries
  BY <1>3, AppendProperties DEF Boundaries, Providers
<1> DEFINE parents == {parent}
<1>5. /\ parents \in SUBSET Boundaries /\ parents # {}
      /\ \A b \in parents : /\ b.tokens = Append(request.prompt, t)
                            /\ b.committed = Len(request.prompt)
  BY <1>4
<1>6. r0 = [request EXCEPT !.holds = "decode", !.parent = parents]
  OBVIOUS
<1> HIDE DEF parent, parents
<1>7. /\ r0 \in Requests /\ r0.prompt = request.prompt /\ r0.chat = request.chat
      /\ r0.stream = request.stream /\ r0.generated = <<>> /\ r0.result = "ok"
      /\ r0.holds = "decode" /\ r0.parent = parents
  BY <1>3, <1>5, <1>6 DEF Requests
<1> HIDE DEF r0
<1> DEFINE r == Emitted(r0, <<t>>, stop)
<1>8. r0.generated \o <<t>> = <<t>> /\ <<t>> \in Seq(Tokens)
  BY <1>3, <1>7, FirstToken
<1>9. /\ r \in Requests /\ r.phase \in {"decode", "flush"} /\ r.prompt = request.prompt
      /\ r.chat /\ r.stream = request.stream /\ r.generated = <<t>> /\ r.result = "ok"
      /\ r.holds = "decode" /\ r.parent = parents
  <2> DEFINE u == <<t>>
  <2>1. u \in Seq(Tokens) /\ r = Emitted(r0, u, stop) /\ r0.generated \o u = u
    BY <1>8
  <2> HIDE DEF r, u
  <2>2. stop \in {"none", "eos", "full", "limit", "interrupted"}
    BY StopType
  <2>3. Emits(r0, u, stop, r)
    BY <1>7, <2>1, <2>2, EmittedType
  <2> QED BY <1>1, <1>7, <2>1, <2>3 DEF u, Emits
<1> HIDE DEF r
<1>10. /\ provider' \in Providers /\ provider'.tape = request.prompt
       /\ provider'.branch # {} /\ \A s \in provider'.branch : s.tape = request.prompt
  BY <1>1, <1>3, BranchedType
<1>11. Continues(provider', r) /\ r.generated[1] = t
  <2>1. /\ <<t>> # <<>> /\ Len(<<t>>) = 1 /\ <<t>>[1] = t
        /\ Append(request.prompt, t) = request.prompt \o <<t>>
    BY <1>3, FirstToken
  <2> QED BY <1>3, <1>9, <1>10, <2>1 DEF Continues
<1> QED BY <1>1, <1>2, <1>3, <1>5, <1>9, <1>10, <1>11, WrittenInv DEF r

LEMMA PlainBoundaryInv ==
  ASSUME IInv, NEW t \in Tokens, PlainBoundary(t)
  PROVE  IInv'
<1>1. request.phase = "boundary" /\ UNCHANGED <<mode, provider, engine, served>>
  BY DEF PlainBoundary
<1>2. PICK stop \in StopSeen(<<t>>) :
        /\ ~request.chat \/ stop = "interrupted"
        /\ Written(Emitted(request, <<t>>, stop))
  BY DEF PlainBoundary
<1>3. /\ request \in Requests /\ engine \in Engines /\ provider \in Providers
      /\ request.prompt \in Seq(Tokens) /\ Len(request.prompt) >= 1
      /\ request.generated = <<>> /\ request.result = "ok"
      /\ provider.tape = request.prompt
      /\ engine.committed = Len(provider.tape) /\ engine.committed # 0
      /\ engine.boundary = {} /\ engine.pending = {} /\ engine.stream = "none"
      /\ engine.life = "running"
      /\ request.holds # "decode"
      /\ request.holds = "none" <=> provider.branch = {}
      /\ request.holds # "none" => request.chat
  BY <1>1, BoundaryFacts
<1> DEFINE r == Emitted(request, <<t>>, stop)
<1>4. request.generated \o <<t>> = <<t>> /\ <<t>> \in Seq(Tokens)
  BY <1>3, FirstToken
<1>5. /\ r \in Requests /\ r.phase \in {"decode", "flush"} /\ r.prompt = request.prompt
      /\ r.chat = request.chat /\ r.stream = request.stream /\ r.generated = <<t>>
      /\ r.result = "ok" /\ r.holds = request.holds /\ r.stop = stop
      /\ stop # "none" => r.phase = "flush"
  <2> DEFINE u == <<t>>
  <2>1. u \in Seq(Tokens) /\ r = Emitted(request, u, stop) /\ request.generated \o u = u
    BY <1>4
  <2> HIDE DEF r, u
  <2>2. stop \in {"none", "eos", "full", "limit", "interrupted"}
    BY StopType
  <2>3. Emits(request, u, stop, r)
    BY <1>3, <2>1, <2>2, EmittedType
  <2> QED BY <1>3, <2>1, <2>3 DEF u, Emits
<1> HIDE DEF r
<1>6. Continues(provider', r)
  <2>1. /\ <<t>> # <<>> /\ Len(<<t>>) = 1 /\ <<t>>[1] = t
        /\ Append(request.prompt, t) = request.prompt \o <<t>>
    BY <1>3, FirstToken
  <2> QED BY <1>1, <1>3, <1>5, <2>1 DEF Continues
<1>7. r.holds = "prefill" => r.phase = "flush" /\ r.stop = "interrupted"
  BY <1>2, <1>3, <1>5
<1> QED BY <1>1, <1>2, <1>3, <1>5, <1>6, <1>7, WrittenInv DEF r

LEMMA BoundaryFaultInv ==
  ASSUME IInv, BoundaryFault
  PROVE  IInv'
<1>1. /\ mode.faulty /\ request.phase = "boundary"
      /\ provider' \in {Published(provider)}
                      \cup (IF request.holds = "prefill" THEN Dropped(provider) ELSE {})
      /\ request' = [request EXCEPT !.phase = "tail", !.result = "target", !.holds = "none"]
      /\ UNCHANGED <<mode, engine, served>>
  BY DEF BoundaryFault
<1>2. /\ request \in Requests /\ engine \in Engines /\ provider \in Providers
      /\ engine.committed # 0
      /\ engine.boundary = {} /\ engine.pending = {} /\ engine.stream = "none"
      /\ engine.life = "running"
      /\ request.holds = "none" <=> provider.branch = {}
  BY <1>1, BoundaryFacts
<1>3. provider' \in Providers
  <2>1. Published(provider) \in Providers
    BY <1>2, BranchedType
  <2>2. ASSUME request.holds = "prefill", provider' \in Dropped(provider) PROVE provider' \in Providers
    BY <1>2, <2>2, DroppedType DEF IInv
  <2> QED BY <1>1, <2>1, <2>2
<1>4. /\ request' \in Requests /\ request'.phase = "tail" /\ request'.result = "target"
      /\ request'.holds = "none"
  BY <1>1, <1>2 DEF Requests, Phases
<1>5. TInv' /\ BoundaryInv(provider, engine)' /\ CommittedInv(provider, engine)'
  BY <1>1, <1>2, <1>3, <1>4 DEF IInv, TInv, BoundaryInv, CommittedInv
<1>6. ComputeInv(provider, engine, request)' /\ BranchInv(provider, engine, request)'
  BY <1>1, <1>4 DEF ComputeInv, BranchInv
<1>7. PendingInv(provider, engine, request)' /\ SettleInv(engine, request)'
  BY <1>1, <1>2, <1>4 DEF PendingInv, SettleInv, Generating
<1> QED BY <1>5, <1>6, <1>7 DEF IInv

LEMMA DecodeInv ==
  ASSUME IInv, Decode
  PROVE  IInv'
<1> DEFINE pending == request.generated[Len(request.generated)]
           inputs(tokens) == <<pending>> \o SubSeq(tokens, 1, Len(tokens) - 1)
<1>1. request.phase = "decode" /\ UNCHANGED <<mode, served>>
  BY DEF Decode
<1>2. PICK tokens \in Answers :
        /\ provider' = Committed(provider, inputs(tokens))
        /\ engine' = [engine EXCEPT !.committed = @ + Len(inputs(tokens))]
        /\ \E stop \in StopSeen(request.generated \o tokens) :
             Written(Emitted(request, tokens, stop))
  BY DEF Decode
<1>3. PICK stop \in StopSeen(request.generated \o tokens) : Written(Emitted(request, tokens, stop))
  BY <1>2
<1>4. tokens \in Seq(Tokens) /\ tokens # <<>> /\ Len(tokens) \in Nat /\ Len(tokens) >= 1
  BY ReuseAssumption DEF Answers
<1>5. request \in Requests /\ engine \in Engines /\ provider \in Providers
  BY DEF IInv, TInv
<1>6. /\ engine.pending = {} /\ engine.stream = "none" /\ engine.life = "running"
      /\ request.result = "ok"
  BY <1>1, RunningFacts DEF Generating
<1>7. /\ Len(request.prompt) >= 1 /\ engine.boundary = {}
      /\ Continues(provider, request) /\ engine.committed = Len(provider.tape)
      /\ request.holds = "decode" =>
           /\ \A s \in provider.branch : s.tape = request.prompt
           /\ request.parent # {}
           /\ \A b \in request.parent : /\ b.tokens = Append(request.prompt, request.generated[1])
                                        /\ b.committed = Len(request.prompt)
  BY <1>1 DEF IInv, ComputeInv
<1>8. /\ request.holds # "prefill"
      /\ request.holds # "none" => request.chat /\ provider.branch # {}
      /\ request.holds = "none" => provider.branch = {}
  BY <1>1 DEF IInv, BranchInv
<1>9. /\ provider.tape \in Seq(Tokens) /\ request.generated \in Seq(Tokens)
      /\ request.prompt \in Seq(Tokens) /\ request.generated # <<>> /\ pending \in Tokens
  BY <1>5, <1>7 DEF Providers, Requests, Continues
<1> DEFINE rows == inputs(tokens)
           s == request.prompt \o request.generated
           y == tokens[Len(tokens)]
           g == request.generated \o tokens
<1>10. s \in Seq(Tokens) /\ Append(provider.tape, pending) = s
  BY <1>7, <1>9, ConcatProperties DEF Continues
<1>11. /\ rows \in Seq(Tokens) /\ Len(rows) = Len(tokens)
       /\ Append(provider.tape \o rows, y) = s \o tokens
  <2> DEFINE tape == provider.tape
  <2>1. /\ tape \in Seq(Tokens) /\ s \in Seq(Tokens) /\ pending \in Tokens
        /\ tokens \in Seq(Tokens) /\ tokens # <<>> /\ Lags(tape, pending, s)
    BY <1>4, <1>9, <1>10 DEF Lags
  <2>2. rows = Consumed(pending, tokens)
    BY DEF Consumed
  <2> HIDE DEF pending, s, tape, y, rows
  <2>3. /\ Consumed(pending, tokens) \in Seq(Tokens)
        /\ Len(Consumed(pending, tokens)) = Len(tokens)
        /\ Lags(tape \o Consumed(pending, tokens), tokens[Len(tokens)], s \o tokens)
    BY <2>1, DecodeContinues
  <2> QED BY <2>2, <2>3 DEF tape, y, Lags
<1>12. /\ g \in Seq(Tokens) /\ g # <<>> /\ g[1] = request.generated[1] /\ g[Len(g)] = y
       /\ s \o tokens = request.prompt \o g
  <2> DEFINE prompt == request.prompt
             old == request.generated
  <2>1. /\ prompt \in Seq(Tokens) /\ old \in Seq(Tokens) /\ old # <<>>
        /\ tokens \in Seq(Tokens) /\ tokens # <<>>
    BY <1>4, <1>9
  <2> HIDE DEF prompt, old
  <2>2. old \o tokens \in Seq(Tokens) /\ old \o tokens # <<>> /\ (old \o tokens)[1] = old[1]
    BY <2>1, MoreGenerated
  <2>3. (old \o tokens)[Len(old \o tokens)] = tokens[Len(tokens)]
    BY <2>1, MoreGenerated
  <2>4. (prompt \o old) \o tokens = prompt \o (old \o tokens)
    BY <2>1, MoreGenerated
  <2> QED BY <2>2, <2>3, <2>4 DEF prompt, old
<1>13. provider' \in Providers /\ provider'.tape = provider.tape \o rows /\ provider'.branch = provider.branch
  BY <1>2, <1>5, <1>11, CommittedType
<1>14. Len(provider'.tape) = Len(provider.tape) + Len(tokens) /\ Len(provider.tape) \in Nat
  <2> DEFINE tape == provider.tape
  <2>1. tape \in Seq(Tokens) /\ Len(tape) \in Nat /\ rows \in Seq(Tokens)
    BY <1>9, <1>11
  <2> HIDE DEF rows, tape
  <2>2. Len(tape \o rows) = Len(tape) + Len(rows)
    BY <2>1, ConcatProperties
  <2> QED BY <1>11, <1>13, <2>1, <2>2 DEF tape
<1>15. /\ engine' \in Engines /\ engine'.life = "running"
       /\ engine'.committed = Len(provider'.tape) /\ engine'.boundary = {}
       /\ engine'.pending = {} /\ engine'.stream = "none"
       /\ engine'.committed # 0
  <2>1. engine' = [engine EXCEPT !.committed = @ + Len(rows)]
    BY <1>2
  <2>2. engine.committed + Len(rows) = Len(provider'.tape) /\ Len(provider'.tape) \in Nat
        /\ Len(provider'.tape) # 0
    <3> DEFINE m == Len(provider.tape)
               n == Len(tokens)
               k == Len(rows)
    <3>1. /\ m \in Nat /\ n \in Nat /\ n >= 1 /\ k = n /\ engine.committed = m
          /\ Len(provider'.tape) = m + n
      BY <1>4, <1>7, <1>11, <1>14
    <3> HIDE DEF m, n, k
    <3>2. m + n \in Nat /\ m + n # 0 /\ m + k = m + n
      BY <3>1
    <3> QED BY <3>1, <3>2 DEF k
  <2> HIDE DEF rows
  <2> QED BY <1>5, <1>6, <1>7, <2>1, <2>2 DEF Engines
<1> DEFINE r == Emitted(request, tokens, stop)
<1> HIDE DEF rows, s, y, pending
<1>16. /\ r \in Requests /\ r.phase \in {"decode", "flush"} /\ r.prompt = request.prompt
       /\ r.chat = request.chat /\ r.stream = request.stream /\ r.generated = g
       /\ r.result = "ok" /\ r.holds = request.holds /\ r.parent = request.parent
  <2>1. stop \in {"none", "eos", "full", "limit", "interrupted"}
    BY StopType
  <2>2. r = Emitted(request, tokens, stop)
    OBVIOUS
  <2> HIDE DEF r
  <2>3. Emits(request, tokens, stop, r)
    BY <1>4, <1>5, <2>1, <2>2, EmittedType
  <2> QED BY <1>6, <2>3 DEF Emits
<1> HIDE DEF r, g
<1>17. Continues(provider', r)
  BY <1>7, <1>11, <1>12, <1>13, <1>16 DEF Continues
<1>18. Written(r)
  BY <1>3 DEF r
<1> QED BY <1>1, <1>7, <1>8, <1>12, <1>13, <1>15, <1>16, <1>17, <1>18, WrittenInv, ZenonT(60)

-----------------------------------------------------------------------------
(* After the target.                                                         *)

\* The publication of a decode branch is about the current request.
LEMMA NewPublication ==
  ASSUME IInv, request.phase = "flush", request.holds = "decode",
         NEW final \in FinalTokens, NEW d,
         d = [prompt |-> CHOOSE p \in request.parent : TRUE, final |-> final]
  PROVE  /\ d \in Publications /\ Describes(provider, d)
         /\ d.prompt.tokens = Append(request.prompt, request.generated[1])
         /\ d.final \subseteq {request.prompt \o request.generated}
         /\ request.generated # <<>>
<1> DEFINE parent == CHOOSE p \in request.parent : TRUE
           prompt == request.prompt
           generated == request.generated
           tape == provider.tape
           x == generated[Len(generated)]
<1>1. request \in Requests /\ provider \in Providers
  BY DEF IInv, TInv
<1>2. /\ Continues(provider, request)
      /\ provider.branch # {} /\ \A s \in provider.branch : s.tape = prompt
      /\ parent \in request.parent
      /\ parent.tokens = Append(prompt, generated[1]) /\ parent.committed = Len(prompt)
  BY DEF IInv, ComputeInv
<1>3. parent \in Boundaries
  BY <1>1, <1>2 DEF Requests
<1>4. d.prompt = parent /\ d.final = final /\ d = [prompt |-> parent, final |-> final]
  OBVIOUS
<1> HIDE DEF parent
<1>5. /\ prompt \in Seq(Tokens) /\ generated \in Seq(Tokens) /\ tape \in Seq(Tokens)
      /\ generated # <<>> /\ Len(prompt) >= 1 /\ Append(tape, x) = prompt \o generated
      /\ Len(generated) \in Nat /\ Len(generated) >= 1
  BY <1>1, <1>2 DEF Requests, Providers, Continues
<1>6. x \in Tokens /\ generated[1] \in Tokens
  BY <1>5
<1> HIDE DEF prompt, generated, tape, x
<1>7. prompt \o generated \in Seq(Tokens) /\ Leads(tape, prompt \o generated) /\ Len(tape) >= 1
  BY <1>5, <1>6, LagLeads
<1>8. Leads(prompt, parent.tokens)
  <2> DEFINE first == generated[1]
  <2>1. first \in Tokens
    BY <1>6
  <2> HIDE DEF first
  <2>2. Leads(prompt, Append(prompt, first))
    BY <1>5, <2>1, AppendLeads
  <2> QED BY <1>2, <2>2 DEF first, generated
<1>9. final \subseteq {prompt \o generated}
  BY DEF FinalTokens, prompt, generated
<1>10. \A t \in final : t = prompt \o generated /\ t \in Seq(Tokens)
  BY <1>7, <1>9
<1>11. d \in Publications
  BY <1>3, <1>4, <1>10 DEF Publications
<1>12. Describes(provider, d)
  <2>1. \A s \in provider.branch : Leads(s.tape, d.prompt.tokens) /\ Len(s.tape) = d.prompt.committed
    BY <1>2, <1>4, <1>8
  <2>2. d.prompt.committed >= 1
    BY <1>2, <1>4, <1>5
  <2>3. \A t \in d.final : Leads(provider.tape, t)
    BY <1>4, <1>7, <1>10 DEF tape
  <2> QED BY <1>2, <1>7, <2>1, <2>2, <2>3 DEF Describes, tape
<1> QED BY <1>2, <1>4, <1>5, <1>9, <1>11, <1>12 DEF prompt, generated

LEMMA FlushInv ==
  ASSUME IInv, Flush
  PROVE  IInv'
<1>1. request.phase = "flush" /\ UNCHANGED <<mode, provider, served>>
  BY DEF Flush
<1>2. request \in Requests /\ engine \in Engines /\ provider \in Providers
  BY DEF IInv, TInv
<1>3. /\ engine.pending = {} /\ engine.stream = "none" /\ engine.life = "running"
      /\ request.result = "ok"
      /\ ~mode.faulty => (provider.branch # {} => request.holds # "none")
  BY <1>1, RunningFacts DEF Generating
<1>4. request.holds = "prefill" => request.stop = "interrupted"
  BY <1>1 DEF IInv, BranchInv
<1>5. CASE /\ request.gone
           /\ request' = [request EXCEPT !.phase = "tail", !.stop = "interrupted"]
           /\ UNCHANGED engine
  <2>1. /\ request' \in Requests /\ request'.phase = "tail" /\ request'.stop = "interrupted"
        /\ request'.stream = request.stream /\ request'.chat = request.chat
        /\ request'.holds = request.holds /\ request'.result = "ok"
    BY <1>2, <1>3, <1>5 DEF Requests, Phases
  <2>2. TInv' /\ BoundaryInv(provider, engine)' /\ CommittedInv(provider, engine)'
    BY <1>1, <1>5, <2>1 DEF IInv, TInv, BoundaryInv, CommittedInv
  <2>3. ComputeInv(provider, engine, request)'
    BY <2>1 DEF ComputeInv
  <2>4. BranchInv(provider, engine, request)'
    BY <1>1, <1>3, <1>5, <2>1 DEF IInv, BranchInv
  <2>5. PendingInv(provider, engine, request)' /\ SettleInv(engine, request)'
    BY <1>3, <1>5, <2>1 DEF PendingInv, SettleInv, Generating
  <2> QED BY <2>2, <2>3, <2>4, <2>5 DEF IInv
<1>6. CASE /\ request.stop # "interrupted"
           /\ request' = [request EXCEPT !.phase = "tail", !.holds = "none", !.parent = {}]
           /\ IF request.holds = "decode"
              THEN \E final \in FinalTokens :
                     engine' = [engine EXCEPT !.pending =
                       {[prompt |-> CHOOSE p \in request.parent : TRUE, final |-> final]}]
              ELSE UNCHANGED engine
  <2>1. /\ request' \in Requests /\ request'.phase = "tail" /\ request'.stop = request.stop
        /\ request'.stream = request.stream /\ request'.holds = "none"
        /\ request'.prompt = request.prompt /\ request'.generated = request.generated
        /\ request'.result = "ok"
    BY <1>2, <1>3, <1>6 DEF Requests, Phases
  <2>2. ComputeInv(provider, engine, request)'
    BY <2>1 DEF ComputeInv
  <2>3. CASE request.holds = "decode"
    <3>1. PICK final \in FinalTokens :
            engine' = [engine EXCEPT !.pending =
                         {[prompt |-> CHOOSE p \in request.parent : TRUE, final |-> final]}]
      BY <1>6, <2>3
    <3> DEFINE d == [prompt |-> CHOOSE p \in request.parent : TRUE, final |-> final]
               ds == {d}
    <3>2. /\ d \in Publications /\ Describes(provider, d)
          /\ d.prompt.tokens = Append(request.prompt, request.generated[1])
          /\ d.final \subseteq {request.prompt \o request.generated}
          /\ request.generated # <<>>
      BY <1>1, <2>3, NewPublication
    <3>3. engine' = [engine EXCEPT !.pending = ds]
      BY <3>1
    <3> HIDE DEF d
    <3>4. ds \in SUBSET Publications /\ ds # {} /\ \A e \in ds : e = d
      BY <3>2
    <3> HIDE DEF ds
    <3>5. /\ engine' \in Engines /\ engine'.life = "running"
          /\ engine'.committed = engine.committed /\ engine'.boundary = engine.boundary
          /\ engine'.pending = ds /\ engine'.stream = "none"
      BY <1>2, <1>3, <3>3, <3>4 DEF Engines
    <3>6. TInv' /\ BoundaryInv(provider, engine)' /\ CommittedInv(provider, engine)'
      BY <1>1, <2>1, <3>5 DEF IInv, TInv, BoundaryInv, CommittedInv
    <3>7. BranchInv(provider, engine, request)'
      BY <1>1, <2>1, <3>4, <3>5 DEF BranchInv
    <3>8. Describes(provider', d) /\ Own(request', d)
      BY <1>1, <2>1, <3>2 DEF Describes, Own
    <3>9. PendingInv(provider, engine, request)'
      BY <2>1, <3>4, <3>5, <3>8 DEF PendingInv
    <3>10. SettleInv(engine, request)'
      BY <2>1, <3>5 DEF SettleInv, Generating
    <3> QED BY <2>2, <3>6, <3>7, <3>9, <3>10 DEF IInv
  <2>4. CASE request.holds # "decode"
    <3>1. engine' = engine
      BY <1>6, <2>4
    <3>2. request.holds = "none"
      BY <1>2, <1>4, <1>6, <2>4 DEF Requests
    <3>3. TInv' /\ BoundaryInv(provider, engine)' /\ CommittedInv(provider, engine)'
      BY <1>1, <2>1, <3>1 DEF IInv, TInv, BoundaryInv, CommittedInv
    <3>4. BranchInv(provider, engine, request)'
      BY <1>1, <1>3, <2>1, <3>1, <3>2 DEF IInv, BranchInv
    <3>5. PendingInv(provider, engine, request)' /\ SettleInv(engine, request)'
      BY <1>3, <2>1, <3>1 DEF PendingInv, SettleInv, Generating
    <3> QED BY <2>2, <3>3, <3>4, <3>5 DEF IInv
  <2> QED BY <2>3, <2>4
<1> QED BY <1>5, <1>6 DEF Flush

\* What is known at the tail.
LEMMA TailFacts ==
  ASSUME IInv, request.phase = "tail"
  PROVE  /\ request \in Requests /\ engine \in Engines /\ provider \in Providers
         /\ engine.stream = "none" /\ engine.life = "running"
         /\ request.result = "ok" /\ request.holds # "none" => request.stop = "interrupted"
         /\ request.holds # "none" => engine.pending = {} /\ provider.branch # {}
         /\ \A d \in engine.pending : Describes(provider, d) /\ Own(request, d)
         /\ \A d, f \in engine.pending : d = f
         /\ request.result = "publication" => request.stream
         /\ ~mode.faulty => (provider.branch # {} => OwnsBranch)
<1>1. request \in Requests /\ engine \in Engines /\ provider \in Providers
  BY DEF IInv, TInv
<1>2. /\ engine.stream = "none" /\ engine.life = "running"
      /\ request.result = "publication" => request.stream
  BY DEF IInv, SettleInv, Generating
<1>3. /\ request.result = "ok" /\ request.holds # "none" => request.stop = "interrupted"
      /\ request.holds # "none" => engine.pending = {} /\ provider.branch # {}
      /\ ~mode.faulty => (provider.branch # {} => OwnsBranch)
  BY DEF IInv, BranchInv, OwnsBranch
<1>4. ASSUME NEW d \in engine.pending PROVE Describes(provider, d) /\ Own(request, d)
  BY <1>2, <1>4 DEF IInv, PendingInv
<1>5. \A d, f \in engine.pending : d = f
  BY DEF IInv, PendingInv
<1> QED BY <1>1, <1>2, <1>3, <1>4, <1>5

\* What Responds makes of the request.
LEMMA RespondsType ==
  ASSUME request \in Requests, NEW result \in {"ok", "target", "publication"},
         NEW stop \in {"none", "eos", "full", "limit", "interrupted"},
         Responds(result, stop)
  PROVE  /\ request' \in Requests /\ request'.phase = "respond" /\ request'.result = result
         /\ request'.stop = stop /\ request'.holds = "none"
         /\ request'.prompt = request.prompt /\ request'.generated = request.generated
         /\ request'.stream = request.stream
  BY DEF Responds, Requests, Phases

\* The lifecycle after the tail, and what the request is told.
TailOutcome(life, result) ==
  /\ (life = "ready" /\ result = "ok") \/ (life = "poisoned" /\ result = "target")
  /\ ~mode.faulty => life = "ready"

LEMMA AfterTail ==
  ASSUME NEW abandoned \in Abandoned
  PROVE  TailOutcome(LifeAfter(abandoned), ResultAfter(abandoned))
<1>1. CASE abandoned
  <2>1. mode.faulty
    BY <1>1, Zenon DEF Abandoned
  <2> QED BY <1>1, <2>1 DEF LifeAfter, ResultAfter, TailOutcome
<1>2. CASE ~abandoned
  <2>1. LifeAfter(abandoned) = "ready"
    BY <1>2, Zenon DEF LifeAfter
  <2>2. ResultAfter(abandoned) = "ok"
    BY <1>2, Zenon DEF ResultAfter
  <2> DEFINE life == LifeAfter(abandoned)
             result == ResultAfter(abandoned)
  <2>3. life = "ready" /\ result = "ok"
    BY <2>1, <2>2
  <2> HIDE DEF life, result
  <2>4. TailOutcome(life, result)
    BY <2>3 DEF TailOutcome
  <2> QED BY <2>4 DEF life, result
<1> QED BY <1>1, <1>2

LEMMA TailOkInv ==
  ASSUME IInv, TailOk
  PROVE  IInv'
<1>1. /\ request.phase = "tail" /\ request.result = "ok" /\ request.stop # "interrupted"
      /\ UNCHANGED <<mode, provider, served>>
  BY DEF TailOk
<1>2. PICK abandoned \in Abandoned :
        /\ engine' = [engine EXCEPT !.life = LifeAfter(abandoned)]
        /\ Responds(ResultAfter(abandoned), request.stop)
  BY DEF TailOk
<1> DEFINE life == LifeAfter(abandoned)
           result == ResultAfter(abandoned)
<1>3. /\ (life = "ready" /\ result = "ok") \/ (life = "poisoned" /\ result = "target")
      /\ ~mode.faulty => life = "ready"
  <2>1. TailOutcome(LifeAfter(abandoned), ResultAfter(abandoned))
    BY AfterTail
  <2> QED BY <2>1 DEF TailOutcome
<1>4. engine' = [engine EXCEPT !.life = life] /\ Responds(result, request.stop)
  BY <1>2
<1> HIDE DEF life, result
<1>5. /\ request \in Requests /\ engine \in Engines /\ provider \in Providers
      /\ engine.stream = "none" /\ engine.life = "running" /\ request.holds = "none"
      /\ \A d \in engine.pending : Describes(provider, d) /\ Own(request, d)
      /\ \A d, f \in engine.pending : d = f
      /\ ~mode.faulty => (provider.branch # {} => engine.pending # {})
  BY <1>1, TailFacts DEF OwnsBranch
<1>6. /\ request' \in Requests /\ request'.phase = "respond" /\ request'.result = result
      /\ request'.stop = request.stop /\ request'.holds = "none"
      /\ request'.prompt = request.prompt /\ request'.generated = request.generated
      /\ request'.stream = request.stream
  <2>1. request.stop \in {"none", "eos", "full", "limit", "interrupted"}
    BY <1>5 DEF Requests
  <2> QED BY <1>3, <1>4, <1>5, <2>1, RespondsType
<1>7. /\ engine' \in Engines /\ engine'.life = life
      /\ engine'.committed = engine.committed /\ engine'.boundary = engine.boundary
      /\ engine'.pending = engine.pending /\ engine'.stream = "none"
  BY <1>3, <1>4, <1>5 DEF Engines
<1>8. TInv' /\ BoundaryInv(provider, engine)' /\ CommittedInv(provider, engine)'
  BY <1>1, <1>6, <1>7 DEF IInv, TInv, BoundaryInv, CommittedInv
<1>9. ComputeInv(provider, engine, request)' /\ BranchInv(provider, engine, request)'
  BY <1>1, <1>5, <1>6, <1>7 DEF ComputeInv, BranchInv
<1>10. PendingInv(provider, engine, request)'
  <2>1. ASSUME NEW d \in engine.pending
        PROVE  /\ Describes(provider', d)
               /\ Own(request', d) \/ (life = "poisoned" /\ result = "target")
    <3>1. Describes(provider, d) /\ Own(request, d)
      BY <1>5
    <3>2. Describes(provider', d)
      BY <1>1, <3>1
    <3>3. result = "ok" => Own(request', d)
      BY <1>6, <3>1 DEF Own
    <3> QED BY <1>3, <3>2, <3>3
  <2> QED BY <1>1, <1>5, <1>6, <1>7, <2>1 DEF PendingInv
<1>11. SettleInv(engine, request)'
  BY <1>1, <1>3, <1>6, <1>7 DEF SettleInv, Generating
<1> QED BY <1>8, <1>9, <1>10, <1>11 DEF IInv

LEMMA TailInterruptedInv ==
  ASSUME IInv, TailInterrupted
  PROVE  IInv'
<1>1. /\ request.phase = "tail" /\ request.result = "ok" /\ UNCHANGED <<mode, served>>
  BY DEF TailInterrupted
<1>2. PICK abandoned \in Abandoned :
        LET left == [engine EXCEPT !.life = LifeAfter(abandoned),
                                   !.boundary = {}, !.pending = {}]
        IN  /\ IF OwnsBranch
               THEN /\ provider' = Restored(provider)
                    /\ engine' = [left EXCEPT !.committed = Len(Restored(provider).tape)]
               ELSE engine' = left /\ UNCHANGED provider
            /\ Responds(ResultAfter(abandoned), "interrupted")
  BY DEF TailInterrupted
<1> DEFINE life == LifeAfter(abandoned)
           result == ResultAfter(abandoned)
           committed == IF OwnsBranch THEN Len(provider'.tape) ELSE engine.committed
<1>3. /\ (life = "ready" /\ result = "ok") \/ (life = "poisoned" /\ result = "target")
      /\ ~mode.faulty => life = "ready"
  <2>1. TailOutcome(LifeAfter(abandoned), ResultAfter(abandoned))
    BY AfterTail
  <2> QED BY <2>1 DEF TailOutcome
<1>4. /\ request \in Requests /\ engine \in Engines /\ provider \in Providers
      /\ engine.stream = "none"
      /\ ~mode.faulty => (provider.branch # {} => OwnsBranch)
  BY <1>1, TailFacts
<1>5. CASE OwnsBranch
  <2>1. /\ provider' = Restored(provider)
        /\ engine' = [[engine EXCEPT !.life = life, !.boundary = {}, !.pending = {}]
                        EXCEPT !.committed = committed]
        /\ Responds(result, "interrupted")
    BY <1>2, <1>5
  <2>2. /\ provider' \in Providers /\ provider'.branch = {}
        /\ \E s \in provider.branch : provider'.tape = s.tape
    BY <1>4, <1>5, <2>1, OwnedFacts, RestoredType
  <2>3. committed \in Nat /\ committed = Len(provider'.tape)
    BY <1>5, <2>2 DEF Providers
  <2> HIDE DEF life, result, committed
  <2>4. /\ request' \in Requests /\ request'.phase = "respond" /\ request'.result = result
        /\ request'.stop = "interrupted" /\ request'.holds = "none"
        /\ request'.stream = request.stream
    BY <1>3, <1>4, <2>1, RespondsType
  <2>5. /\ engine' \in Engines /\ engine'.life = life /\ engine'.committed = committed
        /\ engine'.boundary = {} /\ engine'.pending = {} /\ engine'.stream = "none"
    BY <1>3, <1>4, <2>1, <2>3 DEF Engines
  <2>6. TInv' /\ BoundaryInv(provider, engine)'
    BY <1>1, <2>2, <2>4, <2>5 DEF IInv, TInv, BoundaryInv
  <2>7. CommittedInv(provider, engine)'
    <3> DEFINE tape == provider'.tape
    <3>1. tape \in Seq(Tokens)
      BY <2>2 DEF Providers
    <3> HIDE DEF tape
    <3>2. Len(tape) = 0 => tape = <<>>
      BY <3>1
    <3> QED BY <2>2, <2>3, <2>5, <3>2 DEF CommittedInv, tape
  <2>8. ComputeInv(provider, engine, request)' /\ BranchInv(provider, engine, request)'
    BY <2>2, <2>4 DEF ComputeInv, BranchInv
  <2>9. PendingInv(provider, engine, request)' /\ SettleInv(engine, request)'
    BY <1>1, <1>3, <2>4, <2>5 DEF PendingInv, SettleInv, Generating
  <2> QED BY <2>6, <2>7, <2>8, <2>9 DEF IInv
<1>6. CASE ~OwnsBranch
  <2>1. /\ provider' = provider
        /\ engine' = [engine EXCEPT !.life = life, !.boundary = {}, !.pending = {}]
        /\ Responds(result, "interrupted")
    BY <1>2, <1>6
  <2> HIDE DEF life, result, committed
  <2>2. /\ request' \in Requests /\ request'.phase = "respond" /\ request'.result = result
        /\ request'.stop = "interrupted" /\ request'.holds = "none"
        /\ request'.stream = request.stream
    BY <1>3, <1>4, <2>1, RespondsType
  <2>3. /\ engine' \in Engines /\ engine'.life = life /\ engine'.committed = engine.committed
        /\ engine'.boundary = {} /\ engine'.pending = {} /\ engine'.stream = "none"
    BY <1>3, <1>4, <2>1 DEF Engines
  <2>4. TInv' /\ BoundaryInv(provider, engine)' /\ CommittedInv(provider, engine)'
    BY <1>1, <2>1, <2>2, <2>3 DEF IInv, TInv, BoundaryInv, CommittedInv
  <2>5. ComputeInv(provider, engine, request)' /\ BranchInv(provider, engine, request)'
    BY <1>1, <1>4, <1>6, <2>1, <2>2 DEF ComputeInv, BranchInv
  <2>6. PendingInv(provider, engine, request)' /\ SettleInv(engine, request)'
    BY <1>1, <1>3, <2>2, <2>3 DEF PendingInv, SettleInv, Generating
  <2> QED BY <2>4, <2>5, <2>6 DEF IInv
<1> QED BY <1>5, <1>6

\* The tail poisons the engine; a branch that was dropped is gone, unless the
\* provider refused.
LEMMA PoisonInv ==
  ASSUME IInv, request.phase = "tail", UNCHANGED <<mode, served>>,
         provider' \in Providers,
         NEW result \in {"target", "publication"}, result = "publication" => request.stream,
         NEW stop \in {"none", "eos", "full", "limit", "interrupted"},
         Responds(result, stop),
         engine' = [engine EXCEPT !.life = "poisoned"]
           \/ engine' = [engine EXCEPT !.life = "poisoned", !.pending = {}],
         engine'.pending = {},
         provider' = provider
           \/ (provider.branch # {} /\ provider' \in Dropped(provider)),
         ~mode.faulty => provider'.branch = {}
  PROVE  IInv'
<1>1. /\ request \in Requests /\ engine \in Engines /\ provider \in Providers
      /\ engine.stream = "none"
  BY TailFacts
<1>2. /\ request' \in Requests /\ request'.phase = "respond" /\ request'.result = result
      /\ request'.stop = stop /\ request'.holds = "none"
      /\ request'.stream = request.stream
  BY <1>1, RespondsType
<1>3. /\ engine' \in Engines /\ engine'.life = "poisoned" /\ engine'.committed = engine.committed
      /\ engine'.boundary = engine.boundary /\ engine'.stream = "none"
  BY <1>1 DEF Engines
<1>4. provider' = provider \/ (engine.boundary = {} /\ engine.committed # 0)
  BY DEF IInv, BoundaryInv, CommittedInv
<1>5. TInv' /\ BoundaryInv(provider, engine)' /\ CommittedInv(provider, engine)'
  BY <1>2, <1>3, <1>4 DEF IInv, TInv, BoundaryInv, CommittedInv
<1>6. ComputeInv(provider, engine, request)' /\ BranchInv(provider, engine, request)'
  BY <1>2 DEF ComputeInv, BranchInv
<1>7. PendingInv(provider, engine, request)' /\ SettleInv(engine, request)'
  BY <1>2, <1>3 DEF PendingInv, SettleInv, Generating
<1> QED BY <1>5, <1>6, <1>7 DEF IInv

LEMMA TailDiscardFailsInv ==
  ASSUME IInv, TailDiscardFails
  PROVE  IInv'
<1>1. /\ request.phase = "tail" /\ mode.faulty /\ UNCHANGED <<mode, served>>
      /\ engine' = [engine EXCEPT !.life = "poisoned", !.pending = {}]
      /\ provider' \in Dropped(provider) /\ provider.branch # {}
      /\ Responds("target", "interrupted")
  BY OwnedFacts DEF TailDiscardFails
<1>2. provider' \in Providers
  BY <1>1, DroppedType DEF IInv
<1>3. engine'.pending = {}
  BY <1>1 DEF IInv, TInv, Engines
<1> QED BY <1>1, <1>2, <1>3, PoisonInv

LEMMA TailFailedInv ==
  ASSUME IInv, TailFailed
  PROVE  IInv'
<1>1. /\ request.phase = "tail" /\ request.result # "ok" /\ UNCHANGED <<mode, served>>
      /\ provider' \in IF request.holds = "none" THEN {provider} ELSE Dropped(provider)
      /\ engine' = [engine EXCEPT !.life = "poisoned"]
      /\ Responds(request.result, request.stop)
  BY DEF TailFailed
<1>2. /\ request \in Requests /\ engine \in Engines /\ provider \in Providers
      /\ request.holds # "none" => provider.branch # {}
      /\ request.result = "publication" => request.stream
      /\ ~mode.faulty => (provider.branch # {} => OwnsBranch)
  BY <1>1, TailFacts
<1>3. engine.pending = {}
  <2>1. ASSUME NEW d \in engine.pending PROVE FALSE
    <3>1. Own(request, d)
      BY <1>1, TailFacts
    <3> QED BY <1>1, <3>1 DEF Own
  <2> QED BY <2>1
<1>4. engine'.pending = {}
  BY <1>1, <1>2, <1>3 DEF Engines
<1>5. /\ request.result \in {"target", "publication"}
      /\ request.stop \in {"none", "eos", "full", "limit", "interrupted"}
  BY <1>1, <1>2 DEF Requests
<1>6. CASE request.holds = "none"
  <2>1. provider' = provider
    BY <1>1, <1>6
  <2>2. ~mode.faulty => provider.branch = {}
    BY <1>2, <1>3, <1>6 DEF OwnsBranch
  <2> QED BY <1>1, <1>2, <1>4, <1>5, <2>1, <2>2, PoisonInv
<1>7. CASE request.holds # "none"
  <2>1. provider' \in Dropped(provider) /\ provider.branch # {}
    BY <1>1, <1>2, <1>7
  <2>2. provider' \in Providers /\ (~mode.faulty => provider'.branch = {})
    BY <2>1, DroppedType DEF IInv
  <2> QED BY <1>1, <1>2, <1>4, <1>5, <2>1, <2>2, PoisonInv
<1> QED BY <1>6, <1>7

-----------------------------------------------------------------------------
(* The response.                                                             *)

\* The engine may be poisoned on the way.
LEMMA AnsweredInv ==
  ASSUME IInv, request.phase = "respond", UNCHANGED <<mode, provider, served>>,
         NEW publication \in {"complete", "aborted"}, Answered(publication),
         NEW life \in {"ready", "running", "poisoned"},
         NEW stream \in {"none", "awaiting", "failed"},
         engine' = [engine EXCEPT !.life = life, !.stream = stream],
         life = engine.life \/ (life = "poisoned" /\ mode.faulty),
         stream # "none" => request.stream /\ request.result # "target" /\ life = engine.life,
         stream = "none" => request.result # "publication",
         request.result = "publication" => stream = "failed" /\ publication = "aborted",
         request.stream /\ stream = "none" /\ engine.pending # {} => life = "poisoned"
  PROVE  IInv'
<1>1. request' = [request EXCEPT !.phase = "settle", !.publication = publication]
  BY DEF Answered
<1>2. request \in Requests /\ engine \in Engines
  BY DEF IInv, TInv
<1>3. /\ request' \in Requests /\ request'.phase = "settle"
      /\ request'.publication = publication /\ request'.prompt = request.prompt
      /\ request'.stream = request.stream /\ request'.generated = request.generated
      /\ request'.stop = request.stop /\ request'.holds = request.holds
      /\ request'.result = request.result
  BY <1>1, <1>2 DEF Requests, Phases
<1>4. /\ engine' \in Engines /\ engine'.life = life /\ engine'.stream = stream
      /\ engine'.committed = engine.committed /\ engine'.boundary = engine.boundary
      /\ engine'.pending = engine.pending
  BY <1>2 DEF Engines
<1>5. /\ engine.stream = "none" /\ engine.life # "running"
      /\ request.result = "publication" => request.stream
      /\ ~mode.faulty /\ request.result = "ok" => engine.life = "ready"
  BY DEF IInv, SettleInv, Generating
<1>6. TInv' /\ BoundaryInv(provider, engine)' /\ CommittedInv(provider, engine)'
  BY <1>3, <1>4 DEF IInv, TInv, BoundaryInv, CommittedInv
<1>7. ComputeInv(provider, engine, request)'
  BY <1>3 DEF ComputeInv
<1>8. BranchInv(provider, engine, request)'
  BY <1>3, <1>4 DEF IInv, BranchInv
<1>9. PendingInv(provider, engine, request)'
  <2>1. ASSUME NEW d \in engine.pending
        PROVE  /\ Describes(provider, d) /\ request.stop # "interrupted"
               /\ Own(request, d) \/ (engine.life = "poisoned" /\ request.result = "target")
    BY DEF IInv, PendingInv
  <2>2. ASSUME NEW d \in engine.pending
        PROVE  /\ Describes(provider', d)
               /\ Own(request', d)
                    \/ (life = "poisoned" /\ stream = "none" /\ request.result = "target")
    <3>1. Describes(provider', d)
      BY <2>1
    <3>2. Own(request, d) => Own(request', d)
      BY <1>3 DEF Own
    <3>3. Own(request', d) \/ (engine.life = "poisoned" /\ request.result = "target")
      BY <2>1, <3>2
    <3> QED BY <3>1, <3>3
  <2>3. \A d, f \in engine.pending : d = f
    BY DEF IInv, PendingInv
  <2> QED BY <1>3, <1>4, <2>1, <2>2, <2>3 DEF PendingInv
<1>10. SettleInv(engine, request)'
  BY <1>3, <1>4, <1>5 DEF SettleInv, Generating
<1> QED BY <1>6, <1>7, <1>8, <1>9, <1>10 DEF IInv

\* The two ways the response leaves the engine without a stream boundary.
LEMMA SameOrPoisoned ==
  ASSUME engine \in Engines
  PROVE  /\ engine = [engine EXCEPT !.life = engine.life, !.stream = engine.stream]
         /\ [engine EXCEPT !.life = "poisoned"]
              = [engine EXCEPT !.life = "poisoned", !.stream = engine.stream]
  BY DEF Engines

\* What is known when a response is due.
LEMMA RespondFacts ==
  ASSUME IInv, request.phase = "respond"
  PROVE  /\ request \in Requests /\ engine \in Engines
         /\ engine.stream = "none"
         /\ request.result = "publication" => request.stream
         /\ \A d \in engine.pending :
              /\ request.stop # "interrupted"
              /\ request.result = "ok" \/ (engine.life = "poisoned" /\ request.result = "target")
<1>1. request \in Requests /\ engine \in Engines
  BY DEF IInv, TInv
<1>2. engine.stream = "none" /\ (request.result = "publication" => request.stream)
  BY DEF IInv, SettleInv
<1>3. ASSUME NEW d \in engine.pending
      PROVE  /\ request.stop # "interrupted"
             /\ request.result = "ok" \/ (engine.life = "poisoned" /\ request.result = "target")
  BY DEF IInv, PendingInv, Own
<1> QED BY <1>1, <1>2, <1>3

LEMMA RespondWholeInv ==
  ASSUME IInv, RespondWhole
  PROVE  IInv'
<1>1. request.phase = "respond" /\ ~request.stream /\ UNCHANGED <<mode, provider, served>>
  BY DEF RespondWhole
<1>2. /\ request \in Requests /\ engine \in Engines
      /\ engine.stream = "none" /\ request.result # "publication"
  BY <1>1, RespondFacts
<1>3. PICK publication \in {"complete", "aborted"} : Answered(publication)
  BY DEF RespondWhole
<1>4. engine' = engine \/ (mode.faulty /\ engine' = [engine EXCEPT !.life = "poisoned"])
  BY DEF RespondWhole
<1>5. CASE engine' = engine
  <2>1. engine.life \in {"ready", "running", "poisoned"}
    BY <1>2 DEF Engines
  <2> QED BY <1>1, <1>2, <1>3, <1>5, <2>1, SameOrPoisoned, AnsweredInv
<1>6. CASE mode.faulty /\ engine' = [engine EXCEPT !.life = "poisoned"]
  BY <1>1, <1>2, <1>3, <1>6, SameOrPoisoned, AnsweredInv
<1> QED BY <1>4, <1>5, <1>6

LEMMA RespondStreamInv ==
  ASSUME IInv, RespondStream
  PROVE  IInv'
<1>1. request.phase = "respond" /\ request.stream /\ UNCHANGED <<mode, provider, served>>
  BY DEF RespondStream
<1>2. /\ request \in Requests /\ engine \in Engines
      /\ engine.stream = "none"
      /\ \A d \in engine.pending :
           /\ request.stop # "interrupted"
           /\ request.result = "ok" \/ (engine.life = "poisoned" /\ request.result = "target")
  BY <1>1, RespondFacts
<1>3. engine.life \in {"ready", "running", "poisoned"}
  BY <1>2 DEF Engines
<1>4. ASSUME NEW stream \in {"awaiting", "failed"}, NEW publication \in {"complete", "aborted"},
             engine' = [engine EXCEPT !.stream = stream], Answered(publication),
             request.result # "target",
             request.result = "publication" => stream = "failed" /\ publication = "aborted"
      PROVE  IInv'
  <2>1. engine' = [engine EXCEPT !.life = engine.life, !.stream = stream]
    BY <1>2, <1>4 DEF Engines
  <2> QED BY <1>1, <1>3, <1>4, <2>1, AnsweredInv
<1>5. CASE /\ request.result = "ok"
           /\ engine' = [engine EXCEPT !.stream = "awaiting"]
           /\ Answered("complete") \/ Answered("aborted")
  BY <1>4, <1>5
<1>6. CASE /\ request.result \in {"ok", "publication"}
           /\ engine' = [engine EXCEPT !.stream = "failed"]
           /\ Answered("aborted")
  BY <1>4, <1>6
<1>7. CASE /\ request.result = "target" \/ (request.result = "ok" /\ request.stop = "interrupted")
           /\ Answered("aborted") /\ UNCHANGED engine
  <2>1. engine.pending # {} => engine.life = "poisoned"
    BY <1>2, <1>7
  <2> QED BY <1>1, <1>2, <1>3, <1>7, <2>1, SameOrPoisoned, AnsweredInv
<1>8. CASE /\ mode.faulty /\ request.result = "ok"
           /\ engine' = [engine EXCEPT !.life = "poisoned"]
           /\ Answered("aborted")
  BY <1>1, <1>2, <1>8, SameOrPoisoned, AnsweredInv
<1> QED BY <1>5, <1>6, <1>7, <1>8 DEF RespondStream

-----------------------------------------------------------------------------
(* The settlement.                                                           *)

\* What a resolved branch leaves: a boundary that is offered for retention
\* describes the provider, and holds either the delivered tokens or the prompt
\* with its prediction.
Offered(p, b, d, complete) ==
  /\ b \in Boundaries /\ p.branch = {} /\ p.gen = b.gen
  /\ Len(p.tape) = b.committed /\ b.committed >= 1 /\ Leads(p.tape, b.tokens)
  /\ (complete /\ b.tokens \in d.final) \/ b.tokens = d.prompt.tokens

LEMMA ResolutionFacts ==
  ASSUME IInv, NEW d \in engine.pending, NEW complete \in BOOLEAN,
         NEW r \in Resolutions(d, complete)
  PROVE  /\ r[1] \in Providers /\ (~mode.faulty => r[1].branch = {})
         /\ \A b \in r[2] : Offered(r[1], b, d, complete)
<1>1. provider \in Providers /\ engine \in Engines
  BY DEF IInv, TInv
<1>2. d \in Publications /\ d.prompt \in Boundaries
  BY <1>1 DEF Engines, Publications
<1>3. Describes(provider, d)
  BY DEF IInv, PendingInv
<1>4. CASE /\ complete
           /\ r = <<Published(provider), PublishedBoundary(provider, d.final)>>
  <2> DEFINE p == Published(provider)
             bs == PublishedBoundary(provider, d.final)
  <2>1. p \in Providers /\ p.tape = provider.tape /\ p.gen = provider.gen /\ p.branch = {}
    BY <1>1, BranchedType
  <2>2. ASSUME NEW b \in bs PROVE Offered(p, b, d, complete)
    <3>1. PICK t \in d.final : b = [tokens |-> t, committed |-> Len(provider.tape), gen |-> provider.gen]
      BY <2>2 DEF PublishedBoundary
    <3>2. /\ b.tokens = t /\ b.committed = Len(provider.tape) /\ b.gen = provider.gen
          /\ b = [tokens |-> b.tokens, committed |-> b.committed, gen |-> b.gen]
      BY <3>1
    <3>3. t \in Seq(Tokens) /\ Leads(provider.tape, t) /\ Len(provider.tape) >= 1
      BY <1>2, <1>3 DEF Describes, Publications
    <3>4. Len(provider.tape) \in Nat /\ provider.gen \in Nat
      BY <1>1 DEF Providers
    <3>5. b \in Boundaries
      BY <3>2, <3>3, <3>4 DEF Boundaries
    <3> HIDE DEF p, bs
    <3> QED BY <1>4, <2>1, <3>2, <3>3, <3>5 DEF Offered
  <2> HIDE DEF p, bs
  <2>3. r[1] = p /\ r[2] = bs
    BY <1>4 DEF p, bs
  <2> QED BY <2>1, <2>2, <2>3
<1>5. CASE r = <<Restored(provider), ParentBoundary(Restored(provider), d.prompt)>>
  <2> DEFINE p == Restored(provider)
             bs == ParentBoundary(p, d.prompt)
  <2>1. PICK s \in provider.branch : p.tape = s.tape
    BY <1>1, <1>3, RestoredType DEF Describes
  <2>2. p \in Providers /\ p.branch = {}
    BY <1>1, <1>3, RestoredType DEF Describes
  <2>3. /\ Leads(s.tape, d.prompt.tokens) /\ Len(s.tape) = d.prompt.committed
        /\ d.prompt.committed >= 1
    BY <1>3 DEF Describes
  <2>4. r[1] = p /\ r[2] = bs
    BY <1>5
  <2> HIDE DEF p
  <2>5. ASSUME NEW b \in bs PROVE Offered(p, b, d, complete)
    <3>1. b = [d.prompt EXCEPT !.gen = p.gen]
      BY <2>5 DEF ParentBoundary
    <3>2. p.gen \in Nat
      BY <2>2 DEF Providers
    <3>3. /\ b \in Boundaries /\ b.tokens = d.prompt.tokens
          /\ b.committed = d.prompt.committed /\ b.gen = p.gen
      BY <1>2, <3>1, <3>2 DEF Boundaries
    <3> QED BY <2>1, <2>2, <2>3, <3>3 DEF Offered
  <2> HIDE DEF bs
  <2> QED BY <2>2, <2>4, <2>5
<1>6. CASE mode.faulty /\ \E p \in Dropped(provider) : r = <<p, {}>>
  <2>1. PICK p \in Dropped(provider) : r = <<p, {}>>
    BY <1>6
  <2>2. p \in Providers
    BY <1>3, DroppedType DEF IInv, Describes
  <2>3. r[1] = p /\ r[2] = {}
    BY <2>1
  <2> QED BY <1>6, <2>2, <2>3
<1>7. \/ /\ complete
         /\ r = <<Published(provider), PublishedBoundary(provider, d.final)>>
      \/ r = <<Restored(provider), ParentBoundary(Restored(provider), d.prompt)>>
      \/ mode.faulty /\ \E p \in Dropped(provider) : r = <<p, {}>>
  BY DEF Resolutions
<1> QED BY <1>4, <1>5, <1>6, <1>7

\* What settling a publication makes of provider and engine.
Settled(p, e, pub) ==
  /\ p \in Providers /\ e \in Engines
  /\ BoundaryInv(p, e) /\ CommittedInv(p, e)
  /\ e.stream = engine.stream /\ e.pending = {}
  /\ e.life \in {engine.life, "poisoned"}
  /\ ~mode.faulty => p.branch = {} /\ e.life = engine.life
  /\ \A b \in e.boundary \ engine.boundary :
       \E d \in engine.pending :
         (pub = "complete" /\ b.tokens \in d.final) \/ b.tokens = d.prompt.tokens

LEMMA SettledFacts ==
  ASSUME IInv, request.phase = "settle", NEW pub \in {"complete", "aborted"},
         NEW s \in Settlements(pub)
  PROVE  Settled(s[1], s[2], pub)
<1>1. provider \in Providers /\ engine \in Engines
  BY DEF IInv, TInv
<1>2. CASE engine.pending = {}
  <2>1. s[1] = provider /\ s[2] = engine
    BY <1>2 DEF Settlements
  <2>2. ~mode.faulty => provider.branch = {}
    BY <1>2 DEF IInv, BranchInv
  <2>3. BoundaryInv(provider, engine) /\ CommittedInv(provider, engine)
    BY DEF IInv
  <2>4. Settled(provider, engine, pub)
    BY <1>1, <1>2, <2>2, <2>3 DEF Settled
  <2> QED BY <2>1, <2>4
<1>3. CASE engine.pending # {}
  <2> DEFINE kept(r) == {b \in r[2] : Retainable(b)}
             left(r) == [engine EXCEPT !.pending = {}, !.boundary = kept(r)]
             outcomes(r) ==
               IF kept(r) # {}
               THEN {<<r[1], [left(r) EXCEPT !.committed = Len(r[1].tape)]>>}
               ELSE (IF CanReset(r[1])
                     THEN {<<Cleared(r[1]), [left(r) EXCEPT !.committed = 0]>>} ELSE {})
                    \cup (IF mode.faulty \/ ~CanReset(r[1])
                          THEN {<<r[1], [left(r) EXCEPT !.life = "poisoned"]>>} ELSE {})
  <2>1. s \in UNION {outcomes(r) : r \in UNION {Resolutions(d, pub = "complete") : d \in engine.pending}}
    BY <1>3, Zenon DEF Settlements
  <2>2. \E d \in engine.pending : \E r \in Resolutions(d, pub = "complete") : s \in outcomes(r)
    <3> HIDE DEF outcomes
    <3> QED BY <2>1
  <2>3. PICK d \in engine.pending : \E r \in Resolutions(d, pub = "complete") : s \in outcomes(r)
    BY <2>2
  <2>4. PICK r \in Resolutions(d, pub = "complete") : s \in outcomes(r)
    BY <2>3
  <2> DEFINE p == r[1]
             boundary == kept(r)
  <2>5. /\ p \in Providers /\ (~mode.faulty => p.branch = {})
        /\ \A b \in r[2] : Offered(p, b, d, pub = "complete")
    <3> DEFINE complete == pub = "complete"
    <3>1. complete \in BOOLEAN /\ r \in Resolutions(d, complete)
      OBVIOUS
    <3> HIDE DEF complete
    <3>2. /\ p \in Providers /\ (~mode.faulty => p.branch = {})
          /\ \A b \in r[2] : Offered(p, b, d, complete)
      BY <3>1, ResolutionFacts
    <3> QED BY <3>2 DEF complete
  <2>6. \A b \in boundary : Offered(p, b, d, pub = "complete")
    BY <2>5
  <2>7. boundary \subseteq Boundaries
    BY <2>6 DEF Offered
  <2>8. engine.committed # 0 /\ engine.boundary = {}
    BY <1>3, OwnedFacts DEF OwnsBranch
  <2>9. \A b \in boundary :
          (pub = "complete" /\ b.tokens \in d.final) \/ b.tokens = d.prompt.tokens
    BY <2>6 DEF Offered
  <2>10. CASE boundary # {} /\ s = <<p, [left(r) EXCEPT !.committed = Len(p.tape)]>>
    <3> DEFINE n == Len(p.tape)
               e == [[engine EXCEPT !.pending = {}, !.boundary = boundary] EXCEPT !.committed = n]
    <3>1. s[1] = p /\ s[2] = e
      BY <2>10
    <3>2. n \in Nat
      BY <2>5 DEF Providers
    <3> HIDE DEF p, boundary
    <3>3. n # 0 /\ p.branch = {}
      <4>1. PICK b \in boundary : Offered(p, b, d, pub = "complete")
        BY <2>6, <2>10
      <4>2. b.committed \in Nat
        BY <2>7 DEF Boundaries
      <4> QED BY <3>2, <4>1, <4>2 DEF Offered
    <3> HIDE DEF n
    <3>4. /\ e \in Engines /\ e.life = engine.life /\ e.stream = engine.stream
          /\ e.committed = n /\ e.pending = {} /\ e.boundary = boundary
      BY <1>1, <2>7, <3>2 DEF Engines
    <3> HIDE DEF e
    <3>5. BoundaryInv(p, e) /\ CommittedInv(p, e)
      BY <2>6, <3>3, <3>4 DEF BoundaryInv, CommittedInv, Offered
    <3>6. Settled(p, e, pub)
      BY <2>5, <2>9, <3>3, <3>4, <3>5 DEF Settled
    <3> QED BY <3>1, <3>6
  <2>11. CASE /\ boundary = {} /\ CanReset(p)
             /\ s = <<Cleared(p), [left(r) EXCEPT !.committed = 0]>>
    <3> DEFINE e == [[engine EXCEPT !.pending = {}, !.boundary = boundary] EXCEPT !.committed = 0]
               q == Cleared(p)
    <3>1. s[1] = q /\ s[2] = e
      BY <2>11
    <3>2. q \in Providers /\ q.tape = <<>> /\ q.branch = {}
      BY <2>5, <2>11, ClearedType DEF CanReset
    <3> HIDE DEF p, boundary, q
    <3>3. /\ e \in Engines /\ e.life = engine.life /\ e.stream = engine.stream
          /\ e.committed = 0 /\ e.pending = {} /\ e.boundary = {}
      BY <1>1, <2>11 DEF Engines
    <3> HIDE DEF e
    <3>4. Settled(q, e, pub)
      BY <3>2, <3>3 DEF Settled, BoundaryInv, CommittedInv
    <3> QED BY <3>1, <3>4
  <2>12. CASE /\ boundary = {} /\ (mode.faulty \/ ~CanReset(p))
              /\ s = <<p, [left(r) EXCEPT !.life = "poisoned"]>>
    <3> DEFINE e == [[engine EXCEPT !.pending = {}, !.boundary = boundary] EXCEPT !.life = "poisoned"]
    <3>1. s[1] = p /\ s[2] = e
      BY <2>12
    <3>2. mode.faulty
      BY <2>5, <2>12 DEF CanReset
    <3> HIDE DEF p, boundary
    <3>3. /\ e \in Engines /\ e.life = "poisoned" /\ e.stream = engine.stream
          /\ e.committed = engine.committed /\ e.pending = {} /\ e.boundary = {}
      BY <1>1, <2>12 DEF Engines
    <3> HIDE DEF e
    <3>4. Settled(p, e, pub)
      BY <2>5, <2>8, <3>2, <3>3 DEF Settled, BoundaryInv, CommittedInv
    <3> QED BY <3>1, <3>4
  <2>13. \/ boundary # {} /\ s = <<p, [left(r) EXCEPT !.committed = Len(p.tape)]>>
         \/ /\ boundary = {} /\ CanReset(p)
            /\ s = <<Cleared(p), [left(r) EXCEPT !.committed = 0]>>
         \/ /\ boundary = {} /\ (mode.faulty \/ ~CanReset(p))
            /\ s = <<p, [left(r) EXCEPT !.life = "poisoned"]>>
    <3> HIDE DEF kept, left
    <3> QED BY <2>4
  <2> QED BY <2>10, <2>11, <2>12, <2>13
<1> QED BY <1>2, <1>3

\* What a request's end makes of them.
Ended(p, e) ==
  \/ /\ p = provider /\ e = engine /\ request.stream /\ engine.stream = "none"
  \/ /\ ~request.stream /\ Settled(p, e, request.publication)
  \/ /\ request.stream /\ engine.stream # "none" /\ request.publication = "aborted"
     /\ \E f \in Engines : Settled(p, f, "aborted") /\ e = [f EXCEPT !.stream = "none", !.life = "ready"]
  \/ /\ request.stream /\ engine.stream # "none" /\ request.publication = "complete"
     /\ \E f \in Engines : Settled(p, f, "complete") /\ e = [f EXCEPT !.stream = "none"]

LEMMA EndedFacts ==
  ASSUME IInv, Settle
  PROVE  Ended(provider', engine')
<1>1. request.phase = "settle"
  BY DEF Settle
<1>2. request \in Requests /\ request.publication \in {"complete", "aborted"}
  BY <1>1 DEF IInv, TInv, SettleInv, Requests
<1>3. CASE ~request.stream
  <2>1. PICK s \in Settlements(request.publication) : provider' = s[1] /\ engine' = s[2]
    BY <1>3 DEF Settle
  <2>2. Settled(s[1], s[2], request.publication)
    BY <1>1, <1>2, SettledFacts
  <2> QED BY <1>3, <2>1, <2>2 DEF Ended
<1>4. CASE request.stream
  <2>1. PICK s \in StreamSettlements(request.publication) : provider' = s[1] /\ engine' = s[2]
    BY <1>4 DEF Settle
  <2>2. CASE engine.stream = "none"
    <3>1. s = <<provider, engine>>
      BY <2>2 DEF StreamSettlements
    <3> QED BY <1>4, <2>1, <2>2, <3>1 DEF Ended
  <2>3. CASE engine.stream # "none" /\ request.publication = "aborted"
    <3>1. PICK u \in Settlements("aborted") :
            s = <<u[1], [u[2] EXCEPT !.stream = "none", !.life = "ready"]>>
      BY <2>3 DEF StreamSettlements
    <3>2. Settled(u[1], u[2], "aborted")
      BY <1>1, SettledFacts
    <3>3. u[2] \in Engines
      BY <3>2 DEF Settled
    <3> QED BY <1>4, <2>1, <2>3, <3>1, <3>2, <3>3 DEF Ended
  <2>4. CASE engine.stream # "none" /\ request.publication = "complete"
    <3>1. PICK u \in Settlements("complete") : s = <<u[1], [u[2] EXCEPT !.stream = "none"]>>
      BY <2>4 DEF StreamSettlements
    <3>2. Settled(u[1], u[2], "complete")
      BY <1>1, SettledFacts
    <3>3. u[2] \in Engines
      BY <3>2 DEF Settled
    <3> QED BY <1>4, <2>1, <2>4, <3>1, <3>2, <3>3 DEF Ended
  <2> QED BY <1>2, <2>2, <2>3, <2>4
<1> QED BY <1>3, <1>4

\* The engine after the end: f is what settling made of it.
LEMMA EndedEngine ==
  ASSUME IInv, request.phase = "settle", NEW f \in Engines, NEW p, NEW pub, Settled(p, f, pub),
         NEW life \in {"ready", "poisoned"}, life = f.life \/ life = "ready",
         NEW e, e = [f EXCEPT !.stream = "none", !.life = life]
  PROVE  /\ p \in Providers /\ e \in Engines /\ e.life = life /\ e.stream = "none"
         /\ BoundaryInv(p, e) /\ CommittedInv(p, e) /\ e.pending = {}
         /\ ~mode.faulty => p.branch = {}
<1>1. /\ e \in Engines /\ e.life = life /\ e.stream = "none"
      /\ e.committed = f.committed /\ e.boundary = f.boundary /\ e.pending = f.pending
  BY DEF Engines
<1>2. BoundaryInv(p, e) /\ CommittedInv(p, e)
  BY <1>1 DEF Settled, BoundaryInv, CommittedInv
<1> QED BY <1>1, <1>2 DEF Settled

\* A request that ended leaves the engine as it was, with the publication of an
\* earlier one, or with nothing pending.
LEMMA EndedInv ==
  ASSUME IInv, request.phase = "settle", Ended(provider', engine')
  PROVE  /\ provider' \in Providers /\ engine' \in Engines
         /\ BoundaryInv(provider', engine') /\ CommittedInv(provider', engine')
         /\ engine'.stream = "none" /\ engine'.life # "running"
         /\ \/ engine'.pending = {} /\ (~mode.faulty => provider'.branch = {})
            \/ provider' = provider /\ engine' = engine /\ request.stream
<1>1. provider \in Providers /\ engine \in Engines
  BY DEF IInv, TInv
<1>2. /\ engine.life \in {"ready", "poisoned"}
      /\ engine.stream # "none" => request.stream
  BY <1>1 DEF IInv, SettleInv, Generating, Engines
<1>3. CASE provider' = provider /\ engine' = engine /\ request.stream /\ engine.stream = "none"
  BY <1>1, <1>2, <1>3 DEF IInv
<1>4. ASSUME NEW pub, NEW f \in Engines, Settled(provider', f, pub),
             NEW life \in {"ready", "poisoned"}, life = f.life \/ life = "ready",
             engine' = [f EXCEPT !.stream = "none", !.life = life]
      PROVE  /\ provider' \in Providers /\ engine' \in Engines
             /\ BoundaryInv(provider', engine') /\ CommittedInv(provider', engine')
             /\ engine'.stream = "none" /\ engine'.life # "running"
             /\ engine'.pending = {} /\ (~mode.faulty => provider'.branch = {})
  <2> DEFINE p == provider'
             e == engine'
  <2>1. Settled(p, f, pub) /\ e = [f EXCEPT !.stream = "none", !.life = life]
    BY <1>4
  <2> HIDE DEF p, e
  <2>2. /\ p \in Providers /\ e \in Engines /\ e.life = life /\ e.stream = "none"
        /\ BoundaryInv(p, e) /\ CommittedInv(p, e) /\ e.pending = {}
        /\ ~mode.faulty => p.branch = {}
    BY <1>4, <2>1, EndedEngine, ZenonT(60)
  <2> QED BY <1>4, <2>2 DEF p, e
<1>5. ASSUME NEW pub, NEW f \in Engines, Settled(provider', f, pub)
      PROVE  f.life \in {"ready", "poisoned"} /\ f.stream = engine.stream
  BY <1>2, <1>5 DEF Settled
<1>6. CASE ~request.stream /\ Settled(provider', engine', request.publication)
  <2>1. engine' \in Engines
    BY <1>6 DEF Settled
  <2>2. engine'.stream = "none" /\ engine'.life \in {"ready", "poisoned"}
    BY <1>2, <1>5, <1>6, <2>1
  <2>3. engine' = [engine' EXCEPT !.stream = "none", !.life = engine'.life]
    BY <2>1, <2>2 DEF Engines
  <2> QED BY <1>4, <1>6, <2>1, <2>2, <2>3
<1>7. CASE \E f \in Engines : /\ Settled(provider', f, "aborted")
                              /\ engine' = [f EXCEPT !.stream = "none", !.life = "ready"]
  BY <1>4, <1>7
<1>8. CASE \E f \in Engines : /\ Settled(provider', f, "complete")
                              /\ engine' = [f EXCEPT !.stream = "none"]
  <2>1. PICK f \in Engines : /\ Settled(provider', f, "complete")
                             /\ engine' = [f EXCEPT !.stream = "none"]
    BY <1>8
  <2>2. engine' = [f EXCEPT !.stream = "none", !.life = f.life]
    BY <2>1 DEF Engines
  <2> QED BY <1>4, <1>5, <2>1, <2>2
<1> QED BY <1>3, <1>6, <1>7, <1>8 DEF Ended

LEMMA SettleStep ==
  ASSUME IInv, Settle
  PROVE  IInv'
<1>1. request.phase = "settle" /\ request' = NoRequest /\ UNCHANGED <<mode, served>>
  BY DEF Settle
<1>2. request.holds = "none" /\ (~mode.faulty => (provider.branch # {} => engine.pending # {}))
  BY <1>1 DEF IInv, BranchInv
<1>3. /\ request' \in Requests /\ request'.phase = "idle" /\ request'.holds = "none"
      /\ request'.first = 0 /\ request'.generated = <<>> /\ request'.stop = "none"
      /\ request'.result = "ok"
  BY <1>1, NoRequestType
<1>4. /\ provider' \in Providers /\ engine' \in Engines
      /\ BoundaryInv(provider', engine') /\ CommittedInv(provider', engine')
      /\ engine'.stream = "none" /\ engine'.life # "running"
      /\ \/ engine'.pending = {} /\ (~mode.faulty => provider'.branch = {})
         \/ provider' = provider /\ engine' = engine /\ request.stream
  BY <1>1, EndedFacts, EndedInv
<1>5. TInv' /\ BoundaryInv(provider, engine)' /\ CommittedInv(provider, engine)'
  BY <1>1, <1>3, <1>4 DEF IInv, TInv
<1>6. ComputeInv(provider, engine, request)' /\ BranchInv(provider, engine, request)'
  BY <1>1, <1>2, <1>3, <1>4 DEF ComputeInv, BranchInv
<1>7. PendingInv(provider, engine, request)'
  <2>1. CASE engine'.pending = {}
    BY <2>1 DEF PendingInv
  <2>2. CASE provider' = provider /\ engine' = engine /\ request.stream
    <3>1. engine.stream = "none"
      BY <1>4, <2>2
    <3>2. ASSUME NEW d \in engine.pending
          PROVE  Describes(provider, d) /\ engine.life = "poisoned"
      BY <1>1, <2>2, <3>1 DEF IInv, PendingInv
    <3>3. \A d, f \in engine.pending : d = f
      BY DEF IInv, PendingInv
    <3> QED BY <1>3, <2>2, <3>1, <3>2, <3>3 DEF PendingInv
  <2> QED BY <1>4, <2>1, <2>2
<1>8. SettleInv(engine, request)'
  BY <1>1, <1>3, <1>4 DEF SettleInv, Generating
<1> QED BY <1>5, <1>6, <1>7, <1>8 DEF IInv

-----------------------------------------------------------------------------
(* The theorems.                                                             *)

LEMMA InitInv ==
  ASSUME Init
  PROVE  IInv
<1>1. request \in Requests /\ request = NoRequest
  BY NoRequestType DEF Init
<1>2. provider \in Providers /\ provider.tape = <<>> /\ provider.branch = {}
  BY DEF Init, Providers
<1>3. /\ engine \in Engines /\ engine.life = "ready" /\ engine.boundary = {}
      /\ engine.pending = {} /\ engine.stream = "none"
  BY DEF Init, Engines
<1>4. TInv
  BY <1>1, <1>2, <1>3, ReuseAssumption DEF Init, TInv
<1>5. BoundaryInv(provider, engine) /\ CommittedInv(provider, engine)
  BY <1>2, <1>3 DEF BoundaryInv, CommittedInv
<1>6. ComputeInv(provider, engine, request) /\ BranchInv(provider, engine, request)
  BY <1>1, <1>2, NoRequestType DEF ComputeInv, BranchInv
<1>7. PendingInv(provider, engine, request) /\ SettleInv(engine, request)
  BY <1>1, <1>3, NoRequestType DEF PendingInv, SettleInv, Generating
<1> QED BY <1>4, <1>5, <1>6, <1>7 DEF IInv

LEMMA StutterInv ==
  ASSUME IInv, UNCHANGED vars
  PROVE  IInv'
<1>1. UNCHANGED <<mode, provider, engine, request, served>>
  BY DEF vars
<1>2. TInv' /\ BoundaryInv(provider, engine)' /\ CommittedInv(provider, engine)'
  BY <1>1 DEF IInv, TInv, BoundaryInv, CommittedInv
<1>3. ComputeInv(provider, engine, request)' /\ BranchInv(provider, engine, request)'
  BY <1>1 DEF IInv, ComputeInv, BranchInv, Continues
<1>4. PendingInv(provider, engine, request)' /\ SettleInv(engine, request)'
  BY <1>1 DEF IInv, PendingInv, SettleInv, Describes, Own
<1> QED BY <1>2, <1>3, <1>4 DEF IInv

LEMMA NextInv ==
  ASSUME IInv, [Next]_vars
  PROVE  IInv'
<1>1. ASSUME NEW prompt \in Prompts, NEW chat \in BOOLEAN, NEW stream \in BOOLEAN,
             Arrive(prompt, chat, stream)
      PROVE  IInv'
  BY <1>1, ArriveInv
<1>2. CASE Disconnect \/ AbandonEarly \/ Begin
  BY <1>2, DisconnectInv, AbandonEarlyInv, BeginInv
<1>3. CASE Unsuitable \/ FlushFails \/ \E phase \in {"prefill", "decode"} : TargetFault(phase)
  BY <1>3, FailuresInv
<1>4. CASE NothingToDo \/ Interrupt
  BY <1>4, StopsInv
<1>5. CASE ReuseHit \/ ReuseMiss \/ Prefill \/ Decode
  BY <1>5, ReuseHitInv, ReuseMissInv, PrefillInv, DecodeInv
<1>6. ASSUME NEW t \in Tokens, PromptBoundary(t) \/ PlainBoundary(t)
      PROVE  IInv'
  BY <1>6, PromptBoundaryInv, PlainBoundaryInv
<1>7. CASE BoundaryFault \/ Flush
  BY <1>7, BoundaryFaultInv, FlushInv
<1>8. CASE TailOk \/ TailInterrupted \/ TailDiscardFails \/ TailFailed
  BY <1>8, TailOkInv, TailInterruptedInv, TailDiscardFailsInv, TailFailedInv
<1>9. CASE RespondWhole \/ RespondStream \/ Settle
  BY <1>9, RespondWholeInv, RespondStreamInv, SettleStep
<1>10. CASE UNCHANGED vars
  BY <1>10, StutterInv
<1> QED BY <1>1, <1>2, <1>3, <1>4, <1>5, <1>6, <1>7, <1>8, <1>9, <1>10 DEF Next

\* In every reachable state the retained boundary describes the provider, the
\* tape of a running request is its own prompt and answer, and a branch belongs
\* to the request that holds it or to the one publication that is pending.
THEOREM Invariance == Spec => []IInv
<1>1. Init => IInv
  BY InitInv
<1>2. IInv /\ [Next]_vars => IInv'
  BY NextInv
<1> QED BY <1>1, <1>2, PTL DEF Spec

LEMMA OwnContext == IInv => ContextIsOwn
<1> SUFFICES ASSUME IInv PROVE ContextIsOwn
  OBVIOUS
<1>1. provider \in Providers /\ engine \in Engines /\ request \in Requests
  BY DEF IInv, TInv
<1>2. TypeOK
  <2>1. \A b \in provider.branch : b.tape \in Seq(Tokens) /\ b.gen \in Nat
    BY <1>1 DEF Providers, Snapshots
  <2>2. \A b \in engine.boundary \cup request.parent : b \in Boundaries
    BY <1>1 DEF Engines, Requests
  <2>3. engine.life = "running" <=> request.phase \in Generating
    BY DEF IInv, SettleInv
  <2>4. /\ provider.tape \in Seq(Tokens) /\ provider.gen \in Nat
        /\ engine.life \in {"ready", "running", "poisoned"} /\ engine.committed \in Nat
        /\ engine.stream \in {"none", "awaiting", "failed"}
        /\ request.phase \in Phases /\ request.generated \in Seq(Tokens)
    BY <1>1 DEF Providers, Engines, Requests
  <2> QED BY <2>1, <2>2, <2>3, <2>4 DEF TypeOK, IInv, TInv
<1>3. NoForeignContext
  BY DEF NoForeignContext, IInv, ComputeInv, Continues
<1>4. RetainedStateIsLive
  BY DEF RetainedStateIsLive, IInv, BoundaryInv, Leads, Matches
<1> QED BY <1>2, <1>3, <1>4 DEF ContextIsOwn

\* Every request is computed from the state its own tokens produce, and what is
\* retained between requests can be resumed from the provider as it is.
THEOREM OwnContextOnly == Spec => []ContextIsOwn
  BY Invariance, OwnContext, PTL

\* What a step may retain, and what the end of a request costs.
RetainsDelivered ==
  engine'.life = "ready" => \A b \in engine'.boundary \ engine.boundary :
    \/ /\ request.publication = "complete"
       /\ b.tokens = request.prompt \o request.generated
    \/ b.tokens = Append(request.prompt, request.generated[1])

CostsOneRequest ==
  request.phase = "settle" /\ request'.phase = "idle" /\ ~mode.faulty
    /\ request.result # "target" =>
    /\ engine'.life = "ready"
    /\ engine'.pending = {} /\ engine'.stream = "none"
    /\ provider'.branch = {}

\* A boundary that appears when a request ends comes from its own publication:
\* one of an earlier request is settled by a poisoned engine only.
LEMMA SettleRetains ==
  ASSUME IInv, Settle
  PROVE  RetainsDelivered
<1>1. request.phase = "settle"
  BY DEF Settle
<1>2. provider \in Providers /\ engine \in Engines
  BY DEF IInv, TInv
<1>3. SUFFICES ASSUME engine'.life = "ready", NEW b \in engine'.boundary \ engine.boundary
               PROVE  \/ /\ request.publication = "complete"
                         /\ b.tokens = request.prompt \o request.generated
                      \/ b.tokens = Append(request.prompt, request.generated[1])
  BY DEF RetainsDelivered
<1>4. Ended(provider', engine')
  BY EndedFacts
<1>5. PICK f \in Engines :
        /\ Settled(provider', f, request.publication)
        /\ engine'.boundary = f.boundary
        /\ engine.stream # "none" \/ f.life = "ready"
  <2>1. CASE provider' = provider /\ engine' = engine
    BY <1>3, <2>1
  <2>2. CASE Settled(provider', engine', request.publication)
    BY <1>3, <2>2 DEF Settled
  <2>3. CASE /\ engine.stream # "none" /\ request.publication = "aborted"
             /\ \E f \in Engines : /\ Settled(provider', f, "aborted")
                                   /\ engine' = [f EXCEPT !.stream = "none", !.life = "ready"]
    BY <2>3 DEF Engines
  <2>4. CASE /\ engine.stream # "none" /\ request.publication = "complete"
             /\ \E f \in Engines : /\ Settled(provider', f, "complete")
                                   /\ engine' = [f EXCEPT !.stream = "none"]
    BY <2>4 DEF Engines
  <2> QED BY <1>4, <2>1, <2>2, <2>3, <2>4 DEF Ended
<1>6. PICK d \in engine.pending :
        (request.publication = "complete" /\ b.tokens \in d.final) \/ b.tokens = d.prompt.tokens
  BY <1>3, <1>5 DEF Settled
<1>7. Own(request, d)
  <2>1. Own(request, d) \/ (engine.life = "poisoned" /\ engine.stream = "none")
    BY DEF IInv, PendingInv
  <2>2. f.life \in {engine.life, "poisoned"}
    BY <1>5 DEF Settled
  <2> QED BY <1>5, <2>1, <2>2
<1> QED BY <1>6, <1>7 DEF Own

LEMMA SettleCosts ==
  ASSUME IInv, Settle
  PROVE  CostsOneRequest
<1>1. request.phase = "settle"
  BY DEF Settle
<1>2. SUFFICES ASSUME ~mode.faulty, request.result # "target"
               PROVE  /\ engine'.life = "ready"
                      /\ engine'.pending = {} /\ engine'.stream = "none"
                      /\ provider'.branch = {}
  BY DEF CostsOneRequest
<1>3. provider \in Providers /\ engine \in Engines /\ request \in Requests
  BY DEF IInv, TInv
<1>4. /\ request.result = "ok" \/ (request.result = "publication" /\ request.stream
                                  /\ engine.stream = "failed" /\ request.publication = "aborted")
      /\ request.result = "ok" => engine.life = "ready"
      /\ engine.stream # "none" => request.stream
  BY <1>1, <1>2, <1>3 DEF IInv, SettleInv, Requests
<1>5. /\ request.stream /\ engine.stream = "none" /\ engine.pending # {} => engine.life = "poisoned"
      /\ provider.branch # {} => engine.pending # {}
  BY <1>1, <1>2 DEF IInv, PendingInv, BranchInv
<1>6. Ended(provider', engine')
  BY EndedFacts
<1>7. CASE provider' = provider /\ engine' = engine /\ request.stream /\ engine.stream = "none"
  BY <1>4, <1>5, <1>7
<1>8. CASE ~request.stream /\ Settled(provider', engine', request.publication)
  BY <1>2, <1>4, <1>8 DEF Settled
<1>9. CASE /\ request.publication = "aborted"
           /\ \E f \in Engines : /\ Settled(provider', f, "aborted")
                                 /\ engine' = [f EXCEPT !.stream = "none", !.life = "ready"]
  <2>1. PICK f \in Engines : /\ Settled(provider', f, "aborted")
                             /\ engine' = [f EXCEPT !.stream = "none", !.life = "ready"]
    BY <1>9
  <2>2. engine'.life = "ready" /\ engine'.stream = "none" /\ engine'.pending = f.pending
    BY <2>1 DEF Engines
  <2> QED BY <1>2, <2>1, <2>2 DEF Settled
<1>10. CASE /\ request.publication = "complete"
            /\ \E f \in Engines : /\ Settled(provider', f, "complete")
                                  /\ engine' = [f EXCEPT !.stream = "none"]
  <2>1. PICK f \in Engines : /\ Settled(provider', f, "complete")
                             /\ engine' = [f EXCEPT !.stream = "none"]
    BY <1>10
  <2>2. engine'.life = f.life /\ engine'.stream = "none" /\ engine'.pending = f.pending
    BY <2>1 DEF Engines
  <2> QED BY <1>2, <1>4, <1>10, <2>1, <2>2 DEF Settled
<1> QED BY <1>6, <1>7, <1>8, <1>9, <1>10 DEF Ended

\* Only a settlement retains anything, or ends a request that was answered.
LEMMA OnlySettleRetains ==
  ASSUME IInv, [Next]_vars, ~Settle
  PROVE  /\ engine'.boundary \subseteq engine.boundary
         /\ request.phase = "settle" => request'.phase = "settle"
<1>1. provider \in Providers /\ engine \in Engines /\ request \in Requests
  BY DEF IInv, TInv
<1> DEFINE Kept == /\ engine'.boundary \subseteq engine.boundary
                   /\ request.phase = "settle" => request'.phase = "settle"
<1>2. ASSUME NEW prompt \in Prompts, NEW chat \in BOOLEAN, NEW stream \in BOOLEAN,
             Arrive(prompt, chat, stream)
      PROVE  Kept
  BY <1>2 DEF Arrive
<1>3. CASE Disconnect \/ AbandonEarly \/ Begin
  <2>1. CASE Disconnect
    BY <1>1, <2>1 DEF Disconnect, Requests
  <2>2. CASE AbandonEarly
    BY <2>2 DEF AbandonEarly
  <2>3. CASE Begin
    BY <1>1, <2>3 DEF Begin, Engines
  <2> QED BY <1>3, <2>1, <2>2, <2>3
<1>4. CASE Unsuitable \/ FlushFails \/ (\E phase \in {"prefill", "decode"} : TargetFault(phase))
           \/ NothingToDo \/ Interrupt
  BY <1>4 DEF Unsuitable, FlushFails, TargetFault, NothingToDo, Interrupt
<1>5. CASE ReuseHit \/ ReuseMiss
  BY <1>1, <1>5 DEF ReuseHit, ReuseMiss, Engines
<1>6. CASE Prefill \/ Decode
  BY <1>1, <1>6 DEF Prefill, Decode, Engines
<1>7. ASSUME NEW t \in Tokens, PromptBoundary(t) \/ PlainBoundary(t)
      PROVE  Kept
  BY <1>7 DEF PromptBoundary, PlainBoundary
<1>8. CASE BoundaryFault
  BY <1>8 DEF BoundaryFault
<1>9. CASE Flush
  BY <1>1, <1>9 DEF Flush, Engines
<1>10. CASE TailOk \/ TailDiscardFails \/ TailFailed
  BY <1>1, <1>10 DEF TailOk, TailDiscardFails, TailFailed, Engines
<1>11. CASE TailInterrupted
  BY <1>1, <1>11 DEF TailInterrupted, Engines
<1>12. CASE RespondWhole \/ RespondStream
  BY <1>1, <1>12 DEF RespondWhole, RespondStream, Engines
<1>13. CASE UNCHANGED vars
  BY <1>13 DEF vars
<1> QED BY <1>2, <1>3, <1>4, <1>5, <1>6, <1>7, <1>8, <1>9, <1>10, <1>11, <1>12, <1>13 DEF Next

LEMMA HonestStep ==
  ASSUME IInv, [Next]_vars
  PROVE  RetainsDelivered /\ CostsOneRequest
<1>1. CASE Settle
  BY <1>1, SettleRetains, SettleCosts
<1>2. CASE ~Settle
  <2>1. /\ engine'.boundary \subseteq engine.boundary
        /\ request.phase = "settle" => request'.phase = "settle"
    BY <1>2, OnlySettleRetains
  <2> QED BY <2>1 DEF RetainsDelivered, CostsOneRequest
<1> QED BY <1>1, <1>2

\* Generated tokens are kept for the next request only if the whole response
\* reached its client, and a client that goes away costs its own request only.
THEOREM HonestSettlements == Spec => SettlementsAreHonest
<1>1. IInv /\ [Next]_vars => [RetainsDelivered]_vars /\ [CostsOneRequest]_vars
  BY HonestStep
<1>2. Spec => [][RetainsDelivered]_vars /\ [][CostsOneRequest]_vars
  BY <1>1, Invariance, PTL DEF Spec
<1>3. Spec => OnlyDeliveredIsRetained /\ DisconnectCostsOneRequest
  BY <1>2 DEF OnlyDeliveredIsRetained, DisconnectCostsOneRequest, RetainsDelivered, CostsOneRequest
<1> QED BY <1>3 DEF SettlementsAreHonest

=============================================================================
