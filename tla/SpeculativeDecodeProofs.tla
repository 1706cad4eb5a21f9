----------------------- MODULE SpeculativeDecodeProofs -----------------------
(***************************************************************************)
(* Speculative decoding emits what greedy decoding emits, keeps the target  *)
(* one token behind the history and within its context: for every           *)
(* vocabulary, prompt, context size, output limit, number of drafts, and    *)
(* for every target.                                                        *)
(***************************************************************************)
EXTENDS SpeculativeDecode, SequenceLemmas

-----------------------------------------------------------------------------
(* The inductive invariant.                                                  *)

\* The places at which a prepared transaction awaits its commit.
Verified == {"prefix", "full", "rerun", "again"}

Reasons == {"eos", "full", "limit", "interrupted", "failed"}

TypeOK ==
  /\ k3 \in [Contexts -> Tokens]
  /\ limit \in 1 .. MaxNew
  /\ prefixCommit \in BOOLEAN /\ interrupt \in BOOLEAN /\ qwen \in BOOLEAN
  /\ history \in Seq(Tokens) /\ tape \in Seq(Tokens)
  /\ drafts \in Seq(Tokens) /\ predictions \in Seq(Tokens)
  /\ pc \in {"emit", "loop", "proposed", "end"} \cup Verified
  /\ final \in Reasons \cup {"none"}

\* A history h that has come to no stop: its answer has no end of message, and
\* there is room for one more token.
Unstopped(h) ==
  /\ Len(Prompt) <= Len(h) /\ \A i \in 1 .. Len(Prompt) : h[i] = Prompt[i]
  /\ \A i \in Len(Prompt) + 1 .. Len(h) : h[i] # Eos
  /\ Len(h) < MaxContext /\ Generated(h) < limit

\* A request ends with a reason, and goes on while there is none to end it.
RunInv == IF pc = "end" THEN final # "none" ELSE final = "none" /\ Unstopped(history)

\* Each row predicted what follows the history and the drafts before it.
RowInv ==
  pc \in Verified \cup {"emit"} =>
    /\ Len(predictions) = Len(drafts) + 1
    /\ \A i \in 1 .. Len(predictions) :
         predictions[i] = Predict(history \o SubSeq(drafts, 1, i - 1))

\* What was committed is the history and the drafts about to be emitted with
\* the token after them.
TapeInv == pc = "emit" => tape = history \o SubSeq(drafts, 1, Len(Emitted) - 1)

IInv == TypeOK /\ RunInv /\ RowInv /\ TapeInv /\ OneTokenLag /\ WithinContext

-----------------------------------------------------------------------------
(* What is emitted.                                                          *)

\* Every prediction is a token.
LEMMA PredictType ==
  ASSUME TypeOK, NEW context
  PROVE  Predict(context) \in Tokens
  BY DecodeAssumption DEF TypeOK, Predict

\* Drafts are accepted up to the first one that differs from its row.
LEMMA AcceptedMatch ==
  ASSUME TypeOK
  PROVE  /\ Accepted \in 0 .. Len(drafts)
         /\ \A j \in 1 .. Accepted : drafts[j] = predictions[j]
<1> DEFINE A == {i \in DOMAIN drafts : \A j \in 1 .. i : drafts[j] = predictions[j]}
<1>1. DOMAIN drafts = 1 .. Len(drafts) /\ Len(drafts) \in Nat
  BY DEF TypeOK
<1>2. A \subseteq 1 .. Len(drafts) /\ \A i \in A : \A j \in 1 .. i : j \in A
  BY <1>1
<1>3. \A i \in A : drafts[i] = predictions[i]
  BY <1>1
<1>4. Accepted = Cardinality(A)
  BY DEF Accepted
<1> HIDE DEF A
<1>5. Cardinality(A) \in 0 .. Len(drafts) /\ A = 1 .. Cardinality(A)
  BY <1>1, <1>2, PrefixCardinality
<1> QED BY <1>3, <1>4, <1>5

\* The planned tokens are the predictions of the accepted rows and of the next.
LEMMA PlannedRows ==
  ASSUME TypeOK, Len(predictions) = Len(drafts) + 1
  PROVE  /\ Planned \in Seq(Tokens) /\ Len(Planned) \in 1 .. Len(drafts) + 1
         /\ \A j \in 1 .. Len(Planned) : Planned[j] = predictions[j]
         /\ \A j \in 1 .. Len(Planned) - 1 : Planned[j] = drafts[j]
<1>1. Accepted \in 0 .. Len(drafts) /\ \A j \in 1 .. Accepted : drafts[j] = predictions[j]
  BY AcceptedMatch
<1>2. drafts \in Seq(Tokens) /\ predictions \in Seq(Tokens) /\ Len(drafts) \in Nat
  BY DEF TypeOK
<1> DEFINE a == SubSeq(drafts, 1, Accepted)
           z == <<predictions[Accepted + 1]>>
<1>3. a \in Seq(Tokens) /\ Len(a) = Accepted /\ \A i \in 1 .. Accepted : a[i] = drafts[i]
  BY <1>1, <1>2, PrefixOf
<1>4. z \in Seq(Tokens) /\ Len(z) = 1 /\ z[1] = predictions[Accepted + 1]
  <2>1. predictions[Accepted + 1] \in Tokens
    BY <1>1, <1>2
  <2> QED BY <2>1
<1>5. Planned = a \o z
  BY DEF Planned
<1> HIDE DEF a, z
<1>6. /\ a \o z \in Seq(Tokens) /\ Len(a \o z) = Len(a) + Len(z)
      /\ \A j \in 1 .. Len(a) + Len(z) :
           (a \o z)[j] = IF j <= Len(a) THEN a[j] ELSE z[j - Len(a)]
  BY <1>3, <1>4, ConcatProperties
<1>7. Planned \in Seq(Tokens) /\ Len(Planned) = Accepted + 1
  BY <1>1, <1>3, <1>4, <1>5, <1>6
<1>8. \A j \in 1 .. Accepted : Planned[j] = drafts[j]
  BY <1>1, <1>3, <1>4, <1>5, <1>6
<1>9. Planned[Accepted + 1] = predictions[Accepted + 1]
  BY <1>1, <1>3, <1>4, <1>5, <1>6
<1> QED BY <1>1, <1>2, <1>7, <1>8, <1>9

\* The emitted tokens are the first planned ones, up to the first stop.
LEMMA EmittedRows ==
  ASSUME TypeOK, Len(predictions) = Len(drafts) + 1
  PROVE  /\ Emitted \in Seq(Tokens) /\ Len(Emitted) \in 1 .. Len(drafts) + 1
         /\ \A j \in 1 .. Len(Emitted) : Emitted[j] = predictions[j]
         /\ SubSeq(drafts, 1, Len(Emitted) - 1) = SubSeq(Emitted, 1, Len(Emitted) - 1)
         /\ \A m \in 1 .. Len(Emitted) - 1 :
              StopAfter(history \o SubSeq(Emitted, 1, m)) = "none"
<1>1. /\ Planned \in Seq(Tokens) /\ Len(Planned) \in 1 .. Len(drafts) + 1
      /\ \A j \in 1 .. Len(Planned) : Planned[j] = predictions[j]
      /\ \A j \in 1 .. Len(Planned) - 1 : Planned[j] = drafts[j]
  BY PlannedRows
<1>2. drafts \in Seq(Tokens) /\ Len(drafts) \in Nat
  BY DEF TypeOK
<1> DEFINE First(n) ==
             /\ n = Len(Planned) \/ StopAfter(history \o SubSeq(Planned, 1, n)) # "none"
             /\ \A m \in 1 .. n - 1 : StopAfter(history \o SubSeq(Planned, 1, m)) = "none"
           T == {n \in 1 .. Len(Planned) :
                   n = Len(Planned) \/ StopAfter(history \o SubSeq(Planned, 1, n)) # "none"}
<1>3. \E n \in 1 .. Len(Planned) : First(n)
  <2>1. T \subseteq Nat /\ Len(Planned) \in T
    BY <1>1
  <2>2. PICK n \in T : \A m \in T : n <= m
    <3> HIDE DEF T
    <3> QED BY <2>1, LeastNatural
  <2>3. \A m \in 1 .. n - 1 : m \in 1 .. Len(Planned) /\ m \notin T
    BY <2>1, <2>2, <1>1
  <2>4. First(n)
    BY <2>3
  <2> QED BY <2>4
<1> DEFINE k == CHOOSE n \in 1 .. Len(Planned) : First(n)
<1>4. Emitted = SubSeq(Planned, 1, k)
  BY DEF Emitted
<1>5. k \in 1 .. Len(Planned) /\ First(k)
  <2> HIDE DEF First
  <2> QED BY <1>3
<1> HIDE DEF k
<1>6. /\ Emitted \in Seq(Tokens) /\ Len(Emitted) = k
      /\ \A i \in 1 .. k : Emitted[i] = Planned[i]
  BY <1>1, <1>4, <1>5, PrefixOf
<1>7. ASSUME NEW m \in 0 .. k - 1
      PROVE  /\ SubSeq(Emitted, 1, m) = SubSeq(Planned, 1, m)
             /\ SubSeq(Emitted, 1, m) = SubSeq(drafts, 1, m)
  <2>1. m \in 0 .. Len(Emitted) /\ m \in 0 .. Len(Planned) /\ m \in 0 .. Len(drafts)
    BY <1>1, <1>2, <1>5, <1>6
  <2>2. /\ SubSeq(Emitted, 1, m) \in Seq(Tokens) /\ Len(SubSeq(Emitted, 1, m)) = m
        /\ \A i \in 1 .. m : SubSeq(Emitted, 1, m)[i] = Emitted[i]
    BY <1>6, <2>1, PrefixOf
  <2>3. /\ SubSeq(Planned, 1, m) \in Seq(Tokens) /\ Len(SubSeq(Planned, 1, m)) = m
        /\ \A i \in 1 .. m : SubSeq(Planned, 1, m)[i] = Planned[i]
    BY <1>1, <2>1, PrefixOf
  <2>4. /\ SubSeq(drafts, 1, m) \in Seq(Tokens) /\ Len(SubSeq(drafts, 1, m)) = m
        /\ \A i \in 1 .. m : SubSeq(drafts, 1, m)[i] = drafts[i]
    BY <1>2, <2>1, PrefixOf
  <2>5. \A i \in 1 .. m : Emitted[i] = Planned[i] /\ Planned[i] = drafts[i]
    BY <1>1, <1>5, <1>6
  <2>6. SubSeq(Emitted, 1, m) = SubSeq(Planned, 1, m)
    BY <2>2, <2>3, <2>5, SeqEqual
  <2>7. SubSeq(Emitted, 1, m) = SubSeq(drafts, 1, m)
    BY <2>2, <2>4, <2>5, SeqEqual
  <2> QED BY <2>6, <2>7
<1>8. ASSUME NEW m \in 1 .. k - 1
      PROVE  StopAfter(history \o SubSeq(Emitted, 1, m)) = "none"
  <2>1. m \in 0 .. k - 1 /\ StopAfter(history \o SubSeq(Planned, 1, m)) = "none"
    BY <1>5
  <2> QED BY <1>7, <2>1
<1>9. SubSeq(drafts, 1, k - 1) = SubSeq(Emitted, 1, k - 1)
  <2>1. k - 1 \in 0 .. k - 1
    BY <1>1, <1>5
  <2> QED BY <1>7, <2>1
<1> QED BY <1>1, <1>2, <1>5, <1>6, <1>8, <1>9

\* What is emitted depends on the history, the drafts and the rows only.
LEMMA SameEmitted ==
  ASSUME UNCHANGED <<limit, history, drafts, predictions>>
  PROVE  Emitted' = Emitted
  BY DEF Emitted, Planned, Accepted, StopAfter, Generated

-----------------------------------------------------------------------------
(* The rows of a transaction.                                                *)

\* One token behind the history, the pending token and the first drafts continue
\* the tape as those drafts continue the history.
LEMMA TapeAndInputs ==
  ASSUME TypeOK, history # <<>>, Append(tape, history[Len(history)]) = history,
         NEW i \in 1 .. Len(drafts) + 1
  PROVE  /\ Len(Inputs) = Len(drafts) + 1
         /\ tape \o SubSeq(Inputs, 1, i) = history \o SubSeq(drafts, 1, i - 1)
<1> DEFINE last == history[Len(history)]
           p == <<last>>
<1>1. /\ tape \in Seq(Tokens) /\ history \in Seq(Tokens) /\ drafts \in Seq(Tokens)
      /\ Len(tape) \in Nat /\ Len(history) \in Nat /\ Len(drafts) \in Nat
  BY DEF TypeOK
<1>2. last \in Tokens /\ p \in Seq(Tokens) /\ Len(p) = 1 /\ p[1] = last
  BY <1>1
<1>3. /\ Len(history) = Len(tape) + 1
      /\ \A j \in 1 .. Len(tape) : history[j] = tape[j]
  BY <1>1, <1>2, AppendProperties
<1>4. Inputs = p \o drafts
  BY DEF Inputs
<1> HIDE DEF p
<1>5. /\ Inputs \in Seq(Tokens) /\ Len(Inputs) = 1 + Len(drafts)
      /\ \A j \in 1 .. 1 + Len(drafts) : Inputs[j] = IF j <= 1 THEN p[j] ELSE drafts[j - 1]
  <2>1. /\ p \o drafts \in Seq(Tokens) /\ Len(p \o drafts) = Len(p) + Len(drafts)
        /\ \A j \in 1 .. Len(p) + Len(drafts) :
             (p \o drafts)[j] = IF j <= Len(p) THEN p[j] ELSE drafts[j - Len(p)]
    BY <1>1, <1>2, ConcatProperties
  <2> QED BY <1>2, <1>4, <2>1
<1> HIDE DEF last
<1> DEFINE a == SubSeq(Inputs, 1, i)
           b == SubSeq(drafts, 1, i - 1)
<1>6. a \in Seq(Tokens) /\ Len(a) = i /\ \A j \in 1 .. i : a[j] = Inputs[j]
  <2>1. i \in 0 .. Len(Inputs)
    BY <1>1, <1>5
  <2> QED BY <1>5, <2>1, PrefixOf
<1>7. b \in Seq(Tokens) /\ Len(b) = i - 1 /\ \A j \in 1 .. i - 1 : b[j] = drafts[j]
  <2>1. i - 1 \in 0 .. Len(drafts)
    BY <1>1
  <2> QED BY <1>1, <2>1, PrefixOf
<1> HIDE DEF a, b
<1>8. /\ tape \o a \in Seq(Tokens) /\ Len(tape \o a) = Len(tape) + i
      /\ \A j \in 1 .. Len(tape) + i :
           (tape \o a)[j] = IF j <= Len(tape) THEN tape[j] ELSE a[j - Len(tape)]
  BY <1>1, <1>6, ConcatProperties
<1>9. /\ history \o b \in Seq(Tokens) /\ Len(history \o b) = Len(history) + (i - 1)
      /\ \A j \in 1 .. Len(history) + (i - 1) :
           (history \o b)[j] = IF j <= Len(history) THEN history[j] ELSE b[j - Len(history)]
  <2>1. /\ history \o b \in Seq(Tokens) /\ Len(history \o b) = Len(history) + Len(b)
        /\ \A j \in 1 .. Len(history) + Len(b) :
             (history \o b)[j] = IF j <= Len(history) THEN history[j] ELSE b[j - Len(history)]
    BY <1>1, <1>7, ConcatProperties
  <2> QED BY <1>7, <2>1
<1>10. ASSUME NEW j \in 1 .. Len(tape) + i
       PROVE  (tape \o a)[j] = (history \o b)[j]
  <2>1. CASE j <= Len(tape)
    BY <1>1, <1>3, <1>8, <1>9, <2>1
  <2>2. CASE j = Len(tape) + 1
    <3>1. (tape \o a)[j] = a[1] /\ a[1] = Inputs[1] /\ Inputs[1] = p[1]
      BY <1>1, <1>5, <1>6, <1>8, <2>2
    <3>2. (history \o b)[j] = history[Len(history)]
      BY <1>1, <1>3, <1>9, <2>2
    <3> QED BY <1>2, <3>1, <3>2 DEF last
  <2>3. CASE j > Len(tape) + 1
    <3> DEFINE k == j - Len(tape)
    <3>1. k \in 2 .. i /\ k - 1 \in 1 .. i - 1 /\ j - Len(history) = k - 1
      BY <1>1, <1>3, <2>3
    <3>2. (tape \o a)[j] = a[k] /\ a[k] = Inputs[k] /\ Inputs[k] = drafts[k - 1]
      BY <1>1, <1>5, <1>6, <1>8, <2>3, <3>1
    <3>3. (history \o b)[j] = b[k - 1] /\ b[k - 1] = drafts[k - 1]
      BY <1>1, <1>3, <1>7, <1>9, <2>3, <3>1
    <3> QED BY <3>2, <3>3
  <2>4. j <= Len(tape) \/ j = Len(tape) + 1 \/ j > Len(tape) + 1
    BY <1>1
  <2> QED BY <2>1, <2>2, <2>3, <2>4
<1>11. Len(history \o b) = Len(tape) + i
  BY <1>1, <1>3, <1>9
<1>12. tape \o a = history \o b
  BY <1>8, <1>9, <1>10, <1>11, SeqEqual
<1>13. Len(Inputs) = Len(drafts) + 1
  BY <1>1, <1>5
<1> QED BY <1>12, <1>13 DEF a, b

-----------------------------------------------------------------------------
(* What is emitted continues the history with the target's own choices.      *)

\* The target's choice after a history without a stop is part of what it is.
LEMMA UnstoppedContext ==
  ASSUME TypeOK, NEW h \in Seq(Tokens), Unstopped(h)
  PROVE  h \in Contexts
<1> DEFINE n == Len(h) - Len(Prompt)
           t == [i \in 1 .. n |-> h[Len(Prompt) + i]]
           room == Smaller(MaxNew, MaxContext - Len(Prompt)) - 1
<1>1. /\ Prompt \in Seq(Tokens) /\ Len(Prompt) \in Nat /\ Len(h) \in Nat
      /\ MaxContext \in Nat /\ MaxNew \in Nat /\ limit \in 1 .. MaxNew
  BY DecodeAssumption DEF TypeOK
<1>2. n \in 0 .. room
  BY <1>1 DEF Unstopped, Generated, Smaller
<1>3. t \in [1 .. n -> Tokens] /\ t \in Seq(Tokens) /\ Len(t) = n /\ DOMAIN t = 1 .. n
  BY <1>1, <1>2
<1>4. t \in TokenSeqs(room)
  <2>1. [1 .. n -> Tokens] \in {[1 .. k -> Tokens] : k \in 0 .. room}
    BY <1>2
  <2> HIDE DEF t, room, n
  <2> QED BY <1>3, <2>1 DEF TokenSeqs
<1>5. \A i \in DOMAIN t : t[i] # Eos
  BY <1>1, <1>3 DEF Unstopped
<1>6. h = Prompt \o t
  <2>1. /\ Prompt \o t \in Seq(Tokens) /\ Len(Prompt \o t) = Len(Prompt) + Len(t)
        /\ \A i \in 1 .. Len(Prompt) + Len(t) :
             (Prompt \o t)[i] = IF i <= Len(Prompt) THEN Prompt[i] ELSE t[i - Len(Prompt)]
    <3> HIDE DEF t
    <3> QED BY <1>1, <1>3, ConcatProperties
  <2>2. Len(h) = Len(Prompt \o t)
    <3>1. Len(Prompt \o t) = Len(Prompt) + n
      <4> HIDE DEF t
      <4> QED BY <1>3, <2>1
    <3> HIDE DEF t
    <3> QED BY <1>1, <3>1
  <2>3. ASSUME NEW i \in 1 .. Len(h) PROVE h[i] = (Prompt \o t)[i]
    <3>1. CASE i <= Len(Prompt)
      BY <1>1, <1>3, <2>1, <3>1 DEF Unstopped
    <3>2. CASE i > Len(Prompt)
      <4>1. i - Len(Prompt) \in 1 .. n /\ t[i - Len(Prompt)] = h[i]
        BY <1>1, <3>2
      <4>2. (Prompt \o t)[i] = t[i - Len(Prompt)]
        BY <1>1, <1>3, <2>1, <3>2, <4>1
      <4> QED BY <4>1, <4>2
    <3> QED BY <1>1, <3>1, <3>2
  <2> HIDE DEF t
  <2> QED BY <2>1, <2>2, <2>3, SeqEqual
<1> HIDE DEF t, n
<1> QED BY <1>4, <1>5, <1>6 DEF Contexts

\* The history, continued with some of the tokens about to be emitted.
LEMMA EmissionPrefix ==
  ASSUME TypeOK, Len(predictions) = Len(drafts) + 1, NEW m \in 0 .. Len(Emitted)
  PROVE  LET h == history \o SubSeq(Emitted, 1, m)
         IN  /\ h \in Seq(Tokens) /\ Len(h) = Len(history) + m
             /\ \A i \in 1 .. Len(history) : h[i] = history[i]
             /\ \A i \in 1 .. m : h[Len(history) + i] = Emitted[i]
<1> DEFINE s == SubSeq(Emitted, 1, m)
<1>1. Emitted \in Seq(Tokens) /\ Len(Emitted) \in Nat /\ history \in Seq(Tokens) /\ Len(history) \in Nat
  BY EmittedRows DEF TypeOK
<1>2. s \in Seq(Tokens) /\ Len(s) = m /\ \A i \in 1 .. m : s[i] = Emitted[i]
  BY <1>1, PrefixOf
<1> HIDE DEF s
<1>3. /\ history \o s \in Seq(Tokens) /\ Len(history \o s) = Len(history) + Len(s)
      /\ \A i \in 1 .. Len(history) + Len(s) :
           (history \o s)[i] = IF i <= Len(history) THEN history[i] ELSE s[i - Len(history)]
  BY <1>1, <1>2, ConcatProperties
<1>4. \A i \in 1 .. Len(history) : (history \o s)[i] = history[i]
  BY <1>1, <1>2, <1>3
<1>5. \A i \in 1 .. m : (history \o s)[Len(history) + i] = Emitted[i]
  BY <1>1, <1>2, <1>3
<1> QED BY <1>2, <1>3, <1>4, <1>5 DEF s

\* No stop is passed: up to the last token of an emission, and up to the end of
\* one that ends without a stop, the history has come to none.
LEMMA NoStopPassed ==
  ASSUME TypeOK, Len(predictions) = Len(drafts) + 1, Unstopped(history),
         NEW m \in 0 .. Len(Emitted),
         m = Len(Emitted) => StopAfter(history \o SubSeq(Emitted, 1, m)) = "none"
  PROVE  Unstopped(history \o SubSeq(Emitted, 1, m))
<1> DEFINE H(j) == history \o SubSeq(Emitted, 1, j)
<1>1. /\ history \in Seq(Tokens) /\ Len(history) \in Nat /\ limit \in Nat /\ MaxContext \in Nat
      /\ Len(Emitted) \in Nat /\ Len(Prompt) \in Nat
  BY DecodeAssumption, EmittedRows DEF TypeOK
<1>2. \A j \in 1 .. m : StopAfter(H(j)) = "none"
  <2>1. \A j \in 1 .. Len(Emitted) - 1 : StopAfter(H(j)) = "none"
    BY EmittedRows
  <2> HIDE DEF H
  <2> QED BY <1>1, <2>1 DEF H
<1>3. ASSUME NEW j \in 0 .. m
      PROVE  /\ H(j) \in Seq(Tokens) /\ Len(H(j)) = Len(history) + j
             /\ \A i \in 1 .. Len(history) : H(j)[i] = history[i]
             /\ \A i \in 1 .. j : H(j)[Len(history) + i] = Emitted[i]
  <2>1. j \in 0 .. Len(Emitted)
    BY <1>1
  <2> QED BY <2>1, EmissionPrefix
<1> HIDE DEF H
<1>4. ASSUME NEW j \in 1 .. m
      PROVE  Emitted[j] # Eos /\ Len(history) + j # MaxContext /\ Generated(history) + j # limit
  <2>1. Len(H(j)) = Len(history) + j /\ H(j)[Len(history) + j] = Emitted[j]
    BY <1>3
  <2>2. StopAfter(H(j)) = "none"
    BY <1>2
  <2> QED BY <1>1, <2>1, <2>2 DEF StopAfter, Generated
<1>5. Len(history) + m < MaxContext
  <2> SUFFICES ASSUME Len(history) + m >= MaxContext PROVE FALSE
    BY <1>1
  <2>1. MaxContext - Len(history) \in 1 .. m
    BY <1>1 DEF Unstopped
  <2>2. Len(history) + (MaxContext - Len(history)) = MaxContext
    BY <1>1
  <2> QED BY <1>4, <2>1, <2>2
<1>6. Generated(history) + m < limit
  <2> SUFFICES ASSUME Generated(history) + m >= limit PROVE FALSE
    BY <1>1 DEF Generated
  <2>1. limit - Generated(history) \in 1 .. m
    BY <1>1 DEF Unstopped, Generated
  <2>2. Generated(history) + (limit - Generated(history)) = limit
    BY <1>1 DEF Generated
  <2> QED BY <1>4, <2>1, <2>2
<1> DEFINE h == H(m)
<1>7. /\ h \in Seq(Tokens) /\ Len(h) = Len(history) + m
      /\ \A i \in 1 .. Len(history) : h[i] = history[i]
      /\ \A i \in 1 .. m : h[Len(history) + i] = Emitted[i]
  <2>1. m \in 0 .. m
    OBVIOUS
  <2> QED BY <1>3, <2>1
<1> HIDE DEF h
<1>8. Len(Prompt) <= Len(h) /\ \A i \in 1 .. Len(Prompt) : h[i] = Prompt[i]
  BY <1>1, <1>7 DEF Unstopped
<1>9. ASSUME NEW i \in Len(Prompt) + 1 .. Len(h) PROVE h[i] # Eos
  <2>1. CASE i <= Len(history)
    BY <1>1, <1>7, <2>1 DEF Unstopped
  <2>2. CASE i > Len(history)
    <3>1. i - Len(history) \in 1 .. m /\ i = Len(history) + (i - Len(history))
      BY <1>1, <1>7, <2>2
    <3> QED BY <1>4, <1>7, <3>1
  <2> QED BY <1>1, <2>1, <2>2
<1>10. Len(h) < MaxContext /\ Generated(h) < limit
  BY <1>1, <1>5, <1>6, <1>7 DEF Generated
<1> QED BY <1>8, <1>9, <1>10 DEF Unstopped, h, H

\* The tokens about to be emitted continue the history as greedy decoding does,
\* not past a stop.
LEMMA EmissionContinues ==
  ASSUME IInv, pc = "emit"
  PROVE  Greedy!Continues(history, history \o Emitted)
<1>1. /\ TypeOK /\ Unstopped(history)
      /\ Len(predictions) = Len(drafts) + 1
      /\ \A i \in 1 .. Len(predictions) :
           predictions[i] = Predict(history \o SubSeq(drafts, 1, i - 1))
  BY DEF IInv, RunInv, RowInv
<1>2. /\ Emitted \in Seq(Tokens) /\ Len(Emitted) \in 1 .. Len(drafts) + 1
      /\ \A j \in 1 .. Len(Emitted) : Emitted[j] = predictions[j]
      /\ SubSeq(drafts, 1, Len(Emitted) - 1) = SubSeq(Emitted, 1, Len(Emitted) - 1)
      /\ \A m \in 1 .. Len(Emitted) - 1 :
           StopAfter(history \o SubSeq(Emitted, 1, m)) = "none"
  BY <1>1, EmittedRows
<1>3. history \in Seq(Tokens) /\ Len(history) \in Nat /\ drafts \in Seq(Tokens) /\ Len(drafts) \in Nat
  BY <1>1 DEF TypeOK
<1> DEFINE H(m) == history \o SubSeq(Emitted, 1, m)
           h == history \o Emitted
<1>4. h = H(Len(Emitted))
  BY <1>2, SubSeqFull
<1>5. ASSUME NEW m \in 0 .. Len(Emitted)
      PROVE  /\ H(m) \in Seq(Tokens) /\ Len(H(m)) = Len(history) + m
             /\ \A i \in 1 .. Len(history) : H(m)[i] = history[i]
             /\ \A i \in 1 .. m : H(m)[Len(history) + i] = Emitted[i]
  BY <1>1, EmissionPrefix
<1>6. /\ h \in Seq(Tokens) /\ Len(h) = Len(history) + Len(Emitted)
      /\ \A i \in 1 .. Len(history) : h[i] = history[i]
      /\ \A i \in 1 .. Len(Emitted) : h[Len(history) + i] = Emitted[i]
  <2>1. Len(Emitted) \in 0 .. Len(Emitted)
    BY <1>2, <1>3
  <2> HIDE DEF H, h
  <2> QED BY <1>4, <1>5, <2>1
<1>7. ASSUME NEW m \in 0 .. Len(Emitted) PROVE SubSeq(h, 1, Len(history) + m) = H(m)
  <2> DEFINE p == SubSeq(h, 1, Len(history) + m)
  <2>1. Len(history) + m \in 0 .. Len(h)
    BY <1>2, <1>3, <1>6
  <2>2. p \in Seq(Tokens) /\ Len(p) = Len(history) + m /\ \A i \in 1 .. Len(history) + m : p[i] = h[i]
    <3> HIDE DEF h
    <3> QED BY <1>6, <2>1, PrefixOf
  <2>3. /\ H(m) \in Seq(Tokens) /\ Len(H(m)) = Len(history) + m
        /\ \A i \in 1 .. Len(history) : H(m)[i] = history[i]
        /\ \A i \in 1 .. m : H(m)[Len(history) + i] = Emitted[i]
    BY <1>5
  <2> HIDE DEF p, H, h
  <2>4. ASSUME NEW i \in 1 .. Len(history) + m PROVE p[i] = H(m)[i]
    <3>1. CASE i <= Len(history)
      BY <1>3, <1>6, <2>2, <2>3, <3>1
    <3>2. CASE i > Len(history)
      <4>1. /\ i - Len(history) \in 1 .. m /\ i - Len(history) \in 1 .. Len(Emitted)
            /\ i = Len(history) + (i - Len(history))
        BY <1>2, <1>3, <3>2
      <4> QED BY <1>6, <2>2, <2>3, <4>1
    <3> QED BY <1>3, <3>1, <3>2
  <2>5. p = H(m)
    BY <2>2, <2>3, <2>4, SeqEqual
  <2> QED BY <2>5 DEF p
<1>8. Len(h) > Len(history)
  BY <1>2, <1>3, <1>6
<1>9. SubSeq(h, 1, Len(history)) = history
  <2>1. 0 \in 0 .. Len(Emitted) /\ Len(history) + 0 = Len(history)
    BY <1>2, <1>3
  <2>2. Len(H(0)) = Len(history) /\ H(0) \in Seq(Tokens)
        /\ \A i \in 1 .. Len(history) : H(0)[i] = history[i]
    <3> HIDE DEF H
    <3> QED BY <1>5, <2>1
  <2> HIDE DEF H, h
  <2>3. H(0) = history
    BY <1>3, <2>2, SeqEqual
  <2>4. SubSeq(h, 1, Len(history) + 0) = H(0)
    BY <1>7, <2>1
  <2> QED BY <2>1, <2>3, <2>4
<1>10. ASSUME NEW i \in Len(history) + 1 .. Len(h) PROVE h[i] = k3[SubSeq(h, 1, i - 1)]
  <2> DEFINE j == i - Len(history)
  <2>1. /\ j \in 1 .. Len(Emitted) /\ i = Len(history) + j
        /\ j - 1 \in 0 .. Len(Emitted) /\ j - 1 # Len(Emitted) /\ i - 1 = Len(history) + (j - 1)
        /\ j - 1 \in 0 .. Len(Emitted) - 1 /\ j \in 1 .. Len(predictions)
    BY <1>1, <1>2, <1>3, <1>6
  <2>2. SubSeq(h, 1, i - 1) = H(j - 1)
    <3> HIDE DEF h, H, j
    <3> QED BY <1>7, <2>1
  <2> HIDE DEF h, j
  <2>3. H(j - 1) = history \o SubSeq(drafts, 1, j - 1)
    <3> DEFINE e == SubSeq(Emitted, 1, Len(Emitted) - 1)
               d == SubSeq(drafts, 1, Len(Emitted) - 1)
    <3>1. /\ Len(Emitted) - 1 \in 0 .. Len(Emitted) /\ Len(Emitted) - 1 \in 0 .. Len(drafts)
          /\ j - 1 \in 0 .. Len(drafts)
      BY <1>2, <1>3, <2>1
    <3>2. /\ \A x \in 1 .. Len(Emitted) - 1 : e[x] = Emitted[x]
          /\ \A x \in 1 .. Len(Emitted) - 1 : d[x] = drafts[x]
      BY <1>2, <1>3, <3>1, PrefixOf
    <3>3. \A x \in 1 .. j - 1 : Emitted[x] = drafts[x]
      BY <1>2, <2>1, <3>2
    <3>4. SubSeq(Emitted, 1, j - 1) = SubSeq(drafts, 1, j - 1)
      <4>1. /\ SubSeq(Emitted, 1, j - 1) \in Seq(Tokens) /\ Len(SubSeq(Emitted, 1, j - 1)) = j - 1
            /\ \A x \in 1 .. j - 1 : SubSeq(Emitted, 1, j - 1)[x] = Emitted[x]
        BY <1>2, <2>1, PrefixOf
      <4>2. /\ SubSeq(drafts, 1, j - 1) \in Seq(Tokens) /\ Len(SubSeq(drafts, 1, j - 1)) = j - 1
            /\ \A x \in 1 .. j - 1 : SubSeq(drafts, 1, j - 1)[x] = drafts[x]
        BY <1>3, <3>1, PrefixOf
      <4> QED BY <3>3, <4>1, <4>2, SeqEqual
    <3> QED BY <3>4
  <2>4. h[i] = Predict(H(j - 1))
    <3>1. h[i] = Emitted[j] /\ Emitted[j] = predictions[j]
      BY <1>2, <1>6, <2>1
    <3>2. predictions[j] = Predict(history \o SubSeq(drafts, 1, j - 1))
      BY <1>1, <2>1
    <3> QED BY <2>3, <3>1, <3>2
  <2>5. H(j - 1) \in Contexts
    <3>1. Unstopped(H(j - 1))
      BY <1>1, <2>1, NoStopPassed
    <3>2. H(j - 1) \in Seq(Tokens)
      <4> HIDE DEF H
      <4> QED BY <1>5, <2>1
    <3> HIDE DEF H
    <3> QED BY <1>1, <3>1, <3>2, UnstoppedContext
  <2> QED BY <2>2, <2>4, <2>5 DEF Predict
<1>11. ASSUME NEW i \in Len(history) + 1 .. Len(h) - 1
       PROVE  Greedy!StopOf(SubSeq(h, 1, i)) = "none"
  <2> DEFINE m == i - Len(history)
  <2>1. m \in 1 .. Len(Emitted) - 1 /\ m \in 0 .. Len(Emitted) /\ i = Len(history) + m
    BY <1>2, <1>3, <1>6
  <2>2. SubSeq(h, 1, i) = H(m)
    <3> HIDE DEF h, H, m
    <3> QED BY <1>7, <2>1
  <2>3. StopAfter(H(m)) = "none"
    <3> HIDE DEF m
    <3> QED BY <1>2, <2>1
  <2> HIDE DEF H, h, m
  <2> QED BY <2>2, <2>3 DEF StopAfter, Greedy!StopOf, Generated
<1> HIDE DEF h, H
<1>12. Greedy!Continues(history, h)
  BY <1>8, <1>9, <1>10, <1>11 DEF Greedy!Continues
<1> QED BY <1>12 DEF h

-----------------------------------------------------------------------------
(* The invariant holds initially and is kept by every step.                  *)

\* The request starts with the prompt consumed and the prediction after it.
LEMMA InitInv == Init => IInv
<1> SUFFICES ASSUME Init PROVE IInv
  OBVIOUS
<1>1. /\ Prompt \in Seq(Tokens) /\ Len(Prompt) \in Nat /\ Len(Prompt) < MaxContext
      /\ MaxContext \in Nat /\ MaxNew \in Nat \ {0}
  BY DecodeAssumption
<1>2. TypeOK
  <2>1. Predict(Prompt) \in Tokens
    BY DecodeAssumption DEF Predict, Init
  <2>2. predictions \in Seq(Tokens)
    BY <2>1 DEF Init
  <2>3. prefixCommit \in BOOLEAN /\ interrupt \in BOOLEAN /\ qwen \in BOOLEAN
    BY Zenon DEF Init
  <2>4. history \in Seq(Tokens) /\ tape \in Seq(Tokens) /\ drafts \in Seq(Tokens)
    BY <1>1 DEF Init
  <2>5. k3 \in [Contexts -> Tokens] /\ limit \in 1 .. MaxNew
    BY DEF Init
  <2>6. pc = "emit" /\ final = "none"
    BY DEF Init
  <2> QED BY <2>2, <2>3, <2>4, <2>5, <2>6 DEF TypeOK
<1>3. RunInv
  BY <1>1 DEF Init, RunInv, Unstopped, Generated
<1>4. Len(predictions) = Len(drafts) + 1 /\ history \o SubSeq(drafts, 1, 0) = history
  <2>1. Len(predictions) = 1 /\ Len(drafts) = 0
    BY DEF Init
  <2>2. SubSeq(drafts, 1, 0) = <<>>
    BY SubSeqEmpty
  <2> QED BY <1>1, <2>1, <2>2, ConcatEmptySeq DEF Init
<1>5. RowInv
  <2>1. ASSUME NEW i \in 1 .. Len(predictions)
        PROVE  predictions[i] = Predict(history \o SubSeq(drafts, 1, i - 1))
    <3>1. i = 1 /\ i - 1 = 0
      BY DEF Init
    <3>2. predictions[1] = Predict(Prompt)
      BY DEF Init
    <3> QED BY <1>4, <3>1, <3>2 DEF Init
  <2> QED BY <1>4, <2>1 DEF RowInv
<1>6. TapeInv
  <2>1. Len(Emitted) - 1 = 0
    <3>1. Len(Emitted) \in 1 .. Len(drafts) + 1
      BY <1>2, <1>4, EmittedRows
    <3>2. Len(drafts) = 0
      BY DEF Init
    <3> QED BY <3>1, <3>2
  <2>2. tape = history
    BY DEF Init
  <2> QED BY <1>4, <2>1, <2>2 DEF TapeInv
<1>7. OneTokenLag /\ WithinContext
  BY DEF Init, OneTokenLag, WithinContext
<1> QED BY <1>2, <1>3, <1>5, <1>6, <1>7 DEF IInv

\* Nothing but the interrupt flag changes.
LEMMA IdleInv ==
  ASSUME IInv, interrupt' \in BOOLEAN,
         UNCHANGED <<request, history, tape, pc, drafts, qwen, predictions, final>>
  PROVE  IInv'
<1>u. /\ k3' = k3 /\ limit' = limit /\ prefixCommit' = prefixCommit
      /\ history' = history /\ tape' = tape /\ pc' = pc /\ drafts' = drafts
      /\ qwen' = qwen /\ predictions' = predictions /\ final' = final
  BY DEF request
<1>1. TypeOK'
  BY <1>u DEF IInv, TypeOK
<1>2. RunInv'
  BY <1>u DEF IInv, RunInv, Unstopped, Generated
<1>3. RowInv'
  BY <1>u DEF IInv, RowInv, Predict
<1>4. TapeInv'
  <2>1. Emitted' = Emitted
    BY <1>u, SameEmitted
  <2> QED BY <1>u, <2>1 DEF IInv, TapeInv
<1>5. OneTokenLag' /\ WithinContext'
  BY <1>u DEF IInv, OneTokenLag, WithinContext, Inputs
<1> QED BY <1>1, <1>2, <1>3, <1>4, <1>5 DEF IInv

\* The request ends without having committed anything.
LEMMA EndsInv ==
  ASSUME IInv, NEW reason \in {"interrupted", "failed"}, Ends(reason),
         pc \in {"loop", "proposed"} \cup Verified
  PROVE  IInv'
<1>u. /\ k3' = k3 /\ limit' = limit /\ prefixCommit' = prefixCommit /\ interrupt' = interrupt
      /\ history' = history /\ tape' = tape /\ drafts' = drafts
      /\ qwen' = qwen /\ predictions' = predictions
      /\ pc' = "end" /\ final' = reason
  BY DEF Ends, request
<1>1. TypeOK'
  BY <1>u DEF IInv, TypeOK, Reasons
<1>2. RunInv'
  BY <1>u DEF RunInv
<1>3. RowInv' /\ TapeInv' /\ WithinContext'
  BY <1>u DEF RowInv, TapeInv, WithinContext, Verified
<1>4. OneTokenLag'
  BY <1>u DEF IInv, OneTokenLag, Verified
<1> QED BY <1>1, <1>2, <1>3, <1>4 DEF IInv

\* The transaction moves to another of its places, or the rerun fails.
LEMMA MoveInv ==
  ASSUME IInv, pc \in Verified, pc' \in Verified,
         UNCHANGED <<request, interrupt, history, tape, drafts, qwen, predictions, final>>
  PROVE  IInv'
<1>u. /\ k3' = k3 /\ limit' = limit /\ prefixCommit' = prefixCommit /\ interrupt' = interrupt
      /\ history' = history /\ tape' = tape /\ drafts' = drafts
      /\ qwen' = qwen /\ predictions' = predictions /\ final' = final
  BY DEF request
<1>1. TypeOK'
  BY <1>u DEF IInv, TypeOK
<1>2. RunInv'
  BY <1>u DEF IInv, RunInv, Unstopped, Generated, Verified
<1>3. RowInv'
  BY <1>u DEF IInv, RowInv, Predict
<1>4. TapeInv' /\ WithinContext'
  BY DEF TapeInv, WithinContext, Verified
<1>5. OneTokenLag'
  BY <1>u DEF IInv, OneTokenLag, Verified
<1> QED BY <1>1, <1>2, <1>3, <1>4, <1>5 DEF IInv

\* Some drafter proposes, within the budget.
LEMMA ProposeInv ==
  ASSUME IInv, NEW source, NEW d \in TokenSeqs(MaxDrafts), Propose(source, d)
  PROVE  IInv'
<1>u. /\ k3' = k3 /\ limit' = limit /\ prefixCommit' = prefixCommit /\ interrupt' = interrupt
      /\ history' = history /\ tape' = tape
      /\ predictions' = predictions /\ final' = final
      /\ pc = "loop" /\ pc' = "proposed"
  BY DEF Propose, request
<1>1. TypeOK /\ Unstopped(history) /\ Append(tape, history[Len(history)]) = history
  BY <1>u DEF IInv, RunInv, OneTokenLag
<1>2. d \in Seq(Tokens) /\ Len(d) \in Nat /\ Len(d) <= Budget
  <2>1. PICK k \in 0 .. MaxDrafts : d \in [1 .. k -> Tokens]
    BY DEF TokenSeqs
  <2>2. d \in Seq(Tokens)
    BY <2>1, DecodeAssumption
  <2> QED BY <2>2 DEF Propose
<1>3. Truncated(d) \in Seq(Tokens) /\ Len(Truncated(d)) <= Len(d)
  <2>1. CASE \E i \in DOMAIN d : d[i] = Eos
    <3> DEFINE First(i) == d[i] = Eos /\ \A j \in 1 .. i - 1 : d[j] # Eos
               T == {i \in 1 .. Len(d) : d[i] = Eos}
               k == CHOOSE i \in DOMAIN d : First(i)
    <3>1. DOMAIN d = 1 .. Len(d)
      BY <1>2
    <3>2. T \subseteq Nat /\ T # {}
      BY <2>1, <3>1
    <3>3. PICK i \in T : \A j \in T : i <= j
      <4> HIDE DEF T
      <4> QED BY <3>2, LeastNatural
    <3>4. i \in DOMAIN d /\ First(i)
      <4>1. ASSUME NEW j \in 1 .. i - 1 PROVE d[j] # Eos
        <5>1. j \in 1 .. Len(d) /\ ~(i <= j)
          BY <1>2, <3>3
        <5> QED BY <3>3, <5>1
      <4> QED BY <3>1, <3>3, <4>1
    <3>5. k \in DOMAIN d
      <4> HIDE DEF First
      <4> QED BY <3>4
    <3>6. Truncated(d) = SubSeq(d, 1, k)
      BY <2>1 DEF Truncated
    <3> HIDE DEF k
    <3>7. k \in 0 .. Len(d)
      BY <3>1, <3>5, <1>2
    <3> QED BY <1>2, <3>6, <3>7, PrefixOf
  <2>2. CASE ~ \E i \in DOMAIN d : d[i] = Eos
    BY <1>2, <2>2 DEF Truncated
  <2> QED BY <2>1, <2>2
<1>4. drafts' \in Seq(Tokens) /\ Len(drafts') <= Budget /\ qwen' \in BOOLEAN
  <2> DEFINE kept == IF source = "dspark" THEN d ELSE Truncated(d)
             fromQwen == source = "qwen" /\ kept # <<>>
  <2>1. \/ drafts' = kept /\ qwen' = fromQwen
        \/ drafts' = <<>> /\ qwen' = FALSE
    BY DEF Propose
  <2>2. fromQwen \in BOOLEAN
    BY Zenon
  <2>3. Budget \in Nat
    BY <1>1, DecodeAssumption DEF TypeOK, Budget, Smaller, Minus, Generated
  <2>4. kept \in Seq(Tokens) /\ Len(kept) <= Budget
    BY <1>2, <1>3, <2>3
  <2> HIDE DEF kept, fromQwen
  <2>5. qwen' \in BOOLEAN
    BY <2>1, <2>2, Zenon
  <2>6. drafts' = kept \/ drafts' = <<>>
    BY <2>1
  <2>7. drafts' \in Seq(Tokens) /\ Len(drafts') <= Budget
    <3>1. CASE drafts' = kept
      BY <2>4, <3>1
    <3>2. CASE drafts' = <<>>
      <4>1. <<>> \in Seq(Tokens) /\ Len(<<>>) = 0
        BY EmptySeq
      <4> HIDE DEF Budget
      <4> QED BY <2>3, <3>2, <4>1
    <3> QED BY <2>6, <3>1, <3>2
  <2> QED BY <2>5, <2>7
<1>5. Budget + Len(history) < MaxContext
  BY <1>1, DecodeAssumption DEF TypeOK, Unstopped, Budget, Smaller, Minus, Generated
<1>6. TypeOK'
  BY <1>1, <1>u, <1>4 DEF TypeOK
<1>7. RunInv'
  BY <1>u DEF IInv, RunInv, Unstopped, Generated
<1>8. RowInv' /\ TapeInv'
  BY <1>u DEF RowInv, TapeInv, Verified
<1>9. OneTokenLag'
  BY <1>1, <1>u DEF OneTokenLag
<1>10. WithinContext'
  <2>1. history' # <<>> /\ 1 \in 1 .. Len(drafts') + 1
    BY <1>1, <1>4, <1>u, DecodeAssumption DEF Unstopped, TypeOK
  <2>2. Len(Inputs') = Len(drafts') + 1
    <3>1. Inputs' = <<history[Len(history)]>> \o drafts'
      BY <1>u DEF Inputs
    <3>2. <<history[Len(history)]>> \in Seq(Tokens)
      BY <1>1, <1>u, <2>1 DEF TypeOK
    <3> QED BY <1>4, <3>1, <3>2, ConcatProperties
  <2>3. Len(history) = Len(tape) + 1 /\ Len(tape) \in Nat
    <3>1. history[Len(history)] \in Tokens
      BY <1>1, <1>u, <2>1 DEF TypeOK
    <3> QED BY <1>1, <3>1, AppendProperties DEF TypeOK
  <2>4. Budget \in Nat /\ MaxContext \in Nat /\ Len(drafts') \in Nat
    BY <1>1, <1>4, DecodeAssumption DEF TypeOK, Budget, Smaller, Minus, Generated
  <2>5. Len(tape) + Len(Inputs') <= MaxContext
    BY <1>4, <1>5, <2>2, <2>3, <2>4
  <2> QED BY <1>u, <2>5 DEF WithinContext
<1> QED BY <1>6, <1>7, <1>8, <1>9, <1>10 DEF IInv

\* The transaction of a proposal predicts what follows each of its rows.
LEMMA PrepareInv ==
  ASSUME IInv, Prepare
  PROVE  IInv'
<1>u. /\ k3' = k3 /\ limit' = limit /\ prefixCommit' = prefixCommit /\ interrupt' = interrupt
      /\ history' = history /\ tape' = tape /\ drafts' = drafts
      /\ qwen' = qwen /\ final' = final
      /\ pc = "proposed" /\ pc' \in {"full", "prefix"}
      /\ predictions' = Rows(Len(Inputs))
  BY DEF Prepare, request
<1>1. /\ TypeOK /\ Unstopped(history) /\ history # <<>> /\ Len(drafts) \in Nat
      /\ Append(tape, history[Len(history)]) = history
  BY <1>u, DecodeAssumption DEF IInv, RunInv, OneTokenLag, TypeOK, Unstopped
<1>2. Len(Inputs) = Len(drafts) + 1
  <2>1. 1 \in 1 .. Len(drafts) + 1
    BY <1>1
  <2> QED BY <1>1, <2>1, TapeAndInputs
<1> DEFINE n == Len(Inputs)
           row(i) == Predict(tape \o SubSeq(Inputs, 1, i))
<1>3. predictions' = [i \in 1 .. n |-> row(i)]
  BY <1>u DEF Rows
<1>4. \A i \in 1 .. n : row(i) \in Tokens
  BY <1>1, PredictType
<1>5. n \in Nat
  BY <1>1, <1>2
<1> HIDE DEF row, n
<1>6. predictions' \in Seq(Tokens) /\ Len(predictions') = n /\ \A i \in 1 .. n : predictions'[i] = row(i)
  BY <1>3, <1>4, <1>5
<1>7. TypeOK'
  BY <1>1, <1>6, <1>u DEF TypeOK, Verified
<1>8. RunInv'
  BY <1>u DEF IInv, RunInv, Unstopped, Generated
<1>9. RowInv'
  <2>1. ASSUME NEW i \in 1 .. Len(predictions')
        PROVE  predictions'[i] = Predict(history \o SubSeq(drafts, 1, i - 1))
    <3>1. i \in 1 .. Len(drafts) + 1 /\ i \in 1 .. n
      BY <1>2, <1>6 DEF n
    <3>2. row(i) = Predict(history \o SubSeq(drafts, 1, i - 1))
      BY <1>1, <3>1, TapeAndInputs DEF row
    <3> QED BY <1>6, <3>1, <3>2
  <2>2. Len(predictions') = Len(drafts) + 1
    BY <1>2, <1>6 DEF n
  <2> QED BY <1>u, <2>1, <2>2 DEF RowInv, Predict
<1>10. TapeInv' /\ WithinContext'
  BY <1>u DEF TapeInv, WithinContext
<1>11. OneTokenLag'
  BY <1>1, <1>u DEF OneTokenLag
<1> QED BY <1>7, <1>8, <1>9, <1>10, <1>11 DEF IInv

\* A transaction commits the rows of the emitted tokens.
LEMMA CommitInv ==
  ASSUME IInv, pc \in Verified, pc' = "emit",
         tape' = tape \o SubSeq(Inputs, 1, Len(Emitted)),
         UNCHANGED <<request, interrupt, history, drafts, qwen, predictions, final>>
  PROVE  IInv'
<1>u. /\ k3' = k3 /\ limit' = limit /\ prefixCommit' = prefixCommit /\ interrupt' = interrupt
      /\ history' = history /\ drafts' = drafts
      /\ qwen' = qwen /\ predictions' = predictions /\ final' = final
  BY DEF request
<1>1. /\ TypeOK /\ Unstopped(history) /\ history # <<>> /\ Len(drafts) \in Nat
      /\ Append(tape, history[Len(history)]) = history
      /\ Len(predictions) = Len(drafts) + 1
  BY DecodeAssumption DEF IInv, RunInv, RowInv, OneTokenLag, TypeOK, Unstopped, Verified
<1>2. Len(Emitted) \in 1 .. Len(drafts) + 1
  BY <1>1, EmittedRows
<1>3. tape' = history \o SubSeq(drafts, 1, Len(Emitted) - 1)
  BY <1>1, <1>2, TapeAndInputs
<1>4. tape' \in Seq(Tokens)
  <2>1. Len(Emitted) - 1 \in 0 .. Len(drafts)
    BY <1>1, <1>2
  <2>2. SubSeq(drafts, 1, Len(Emitted) - 1) \in Seq(Tokens)
    BY <1>1, <2>1, PrefixOf DEF TypeOK
  <2> QED BY <1>1, <1>3, <2>2, ConcatProperties DEF TypeOK
<1>5. TypeOK'
  BY <1>1, <1>4, <1>u DEF TypeOK
<1>6. RunInv'
  BY <1>u DEF IInv, RunInv, Unstopped, Generated, Verified
<1>7. RowInv'
  BY <1>u DEF IInv, RowInv, Predict
<1>8. TapeInv'
  <2>1. Emitted' = Emitted
    BY <1>u, SameEmitted
  <2> QED BY <1>3, <1>u, <2>1 DEF TapeInv
<1>9. OneTokenLag' /\ WithinContext'
  BY DEF OneTokenLag, WithinContext
<1> QED BY <1>5, <1>6, <1>7, <1>8, <1>9 DEF IInv

\* All rows of a transaction are the first of its rows, up to their number.
LEMMA AllInputs ==
  ASSUME IInv, pc \in Verified
  PROVE  SubSeq(Inputs, 1, Len(Inputs)) = Inputs
<1>1. /\ history \in Seq(Tokens) /\ drafts \in Seq(Tokens) /\ history # <<>>
      /\ Len(history) \in Nat
  BY DecodeAssumption DEF IInv, TypeOK, RunInv, Unstopped, Verified
<1>2. <<history[Len(history)]>> \in Seq(Tokens)
  BY <1>1
<1>3. Inputs \in Seq(Tokens)
  BY <1>1, <1>2, ConcatProperties DEF Inputs
<1> QED BY <1>3, SubSeqFull

\* The emitted tokens join the history, which ends the request at a stop.
LEMMA ApplyInv ==
  ASSUME IInv, Apply
  PROVE  IInv'
<1> DEFINE h == history \o Emitted
           stop == IF interrupt THEN "interrupted" ELSE StopAfter(h)
<1>u. /\ k3' = k3 /\ limit' = limit /\ prefixCommit' = prefixCommit /\ interrupt' = interrupt
      /\ tape' = tape /\ pc = "emit"
      /\ history' = h /\ drafts' = <<>> /\ qwen' = FALSE /\ predictions' = <<>>
      /\ \/ final' = stop /\ pc' = IF stop = "none" THEN "loop" ELSE "end"
         \/ final' = "failed" /\ pc' = "end"
  BY DEF Apply, request
<1>1. /\ TypeOK /\ Unstopped(history) /\ Len(drafts) \in Nat
      /\ Len(predictions) = Len(drafts) + 1
      /\ tape = history \o SubSeq(drafts, 1, Len(Emitted) - 1)
  BY <1>u DEF IInv, TypeOK, RunInv, RowInv, TapeInv
<1>2. /\ Emitted \in Seq(Tokens) /\ Len(Emitted) \in 1 .. Len(drafts) + 1
      /\ SubSeq(drafts, 1, Len(Emitted) - 1) = SubSeq(Emitted, 1, Len(Emitted) - 1)
  BY <1>1, EmittedRows
<1>3. SubSeq(Emitted, 1, Len(Emitted)) = Emitted /\ Len(Emitted) \in 0 .. Len(Emitted)
  BY <1>1, <1>2, SubSeqFull
<1>4. /\ h \in Seq(Tokens) /\ Len(h) = Len(history) + Len(Emitted)
      /\ \A i \in 1 .. Len(history) : h[i] = history[i]
      /\ \A i \in 1 .. Len(Emitted) : h[Len(history) + i] = Emitted[i]
  <2>1. PICK m : m = Len(Emitted)
    OBVIOUS
  <2>2. m \in 0 .. Len(Emitted) /\ SubSeq(Emitted, 1, m) = Emitted
    BY <1>3, <2>1
  <2>3. PICK g : g = history \o SubSeq(Emitted, 1, m)
    OBVIOUS
  <2>4. /\ g \in Seq(Tokens) /\ Len(g) = Len(history) + m
        /\ \A i \in 1 .. Len(history) : g[i] = history[i]
        /\ \A i \in 1 .. m : g[Len(history) + i] = Emitted[i]
    BY <1>1, <2>2, <2>3, EmissionPrefix
  <2>5. g = h
    BY <2>2, <2>3
  <2> QED BY <2>1, <2>4, <2>5
<1>5. /\ StopAfter(h) \in {"none", "eos", "full", "limit"}
      /\ StopAfter(h) = "none" => Unstopped(h)
  <2>1. StopAfter(h) \in {"none", "eos", "full", "limit"}
    BY DEF StopAfter
  <2>2. ASSUME StopAfter(h) = "none" PROVE Unstopped(h)
    <3>1. Len(Emitted) = Len(Emitted) => StopAfter(history \o SubSeq(Emitted, 1, Len(Emitted))) = "none"
      BY <1>3, <2>2
    <3>2. Unstopped(history \o SubSeq(Emitted, 1, Len(Emitted)))
      BY <1>1, <1>3, <3>1, NoStopPassed
    <3> QED BY <1>3, <3>2
  <2> QED BY <2>1, <2>2
<1>6. Append(tape, h[Len(h)]) = h
  <2> DEFINE e == SubSeq(Emitted, 1, Len(Emitted) - 1)
             last == Emitted[Len(Emitted)]
  <2>1. Len(Emitted) \in 1 .. Len(Emitted) /\ 1 \in 1 .. Len(Emitted)
    BY <1>1, <1>2
  <2>2. Emitted = e \o <<last>>
    <3>1. SubSeq(Emitted, 1, Len(Emitted)) = SubSeq(Emitted, 1, Len(Emitted) - 1) \o <<Emitted[Len(Emitted)]>>
      BY <1>2, <2>1, SubSeqRecursiveSecond
    <3> QED BY <1>3, <3>1
  <2>3. e \in Seq(Tokens) /\ last \in Tokens
    <3>1. Len(Emitted) - 1 \in 0 .. Len(Emitted)
      BY <1>1, <1>2
    <3> QED BY <1>2, <2>1, <3>1, PrefixOf
  <2>4. h[Len(h)] = last
    <3> HIDE DEF h
    <3> QED BY <1>4, <2>1
  <2>5. tape = history \o e
    BY <1>1, <1>2
  <2> HIDE DEF e, last
  <2>6. Append(tape, last) = tape \o <<last>>
    BY <1>1, <2>3, AppendIsConcat DEF TypeOK
  <2>7. (history \o e) \o <<last>> = history \o (e \o <<last>>)
    <3>1. history \in Seq(Tokens) /\ <<last>> \in Seq(Tokens)
      BY <1>1, <2>3 DEF TypeOK
    <3> QED BY <2>3, <3>1, ConcatAssociative
  <2> QED BY <2>2, <2>4, <2>5, <2>6, <2>7
<1> HIDE DEF h
<1>7. /\ stop = "none" => Unstopped(h)
      /\ stop \in {"none", "interrupted", "eos", "full", "limit"}
  BY <1>5
<1> HIDE DEF stop
<1>8. TypeOK'
  <2>1. interrupt' \in BOOLEAN /\ qwen' \in BOOLEAN /\ prefixCommit' \in BOOLEAN
    BY <1>1, <1>u, Zenon DEF TypeOK
  <2>2. pc' \in {"loop", "end"} /\ final' \in Reasons \cup {"none"}
    BY <1>u, <1>7 DEF Reasons
  <2> QED BY <1>1, <1>4, <1>u, <2>1, <2>2 DEF TypeOK
<1>9. RunInv'
  <2>1. CASE final' = "none"
    <3>1. pc' = "loop" /\ Unstopped(h)
      BY <1>u, <1>7, <2>1
    <3> QED BY <1>u, <2>1, <3>1 DEF RunInv, Unstopped, Generated
  <2>2. CASE final' # "none"
    BY <1>u, <2>2 DEF RunInv
  <2> QED BY <2>1, <2>2
<1>10. RowInv' /\ TapeInv' /\ WithinContext'
  BY <1>u DEF RowInv, TapeInv, WithinContext, Verified
<1>11. OneTokenLag'
  BY <1>u, <1>6 DEF OneTokenLag
<1> QED BY <1>8, <1>9, <1>10, <1>11 DEF IInv

\* Every step keeps the invariant.
LEMMA NextInv == IInv /\ [Next]_vars => IInv'
<1> SUFFICES ASSUME IInv, [Next]_vars PROVE IInv'
  OBVIOUS
<1>1. CASE UNCHANGED vars
  <2>1. interrupt' \in BOOLEAN
    BY <1>1 DEF IInv, TypeOK, vars
  <2> QED BY <1>1, <2>1, IdleInv DEF vars
<1>2. CASE Interrupt
  <2>1. interrupt' \in BOOLEAN
    BY <1>2 DEF Interrupt
  <2> QED BY <1>2, <2>1, IdleInv DEF Interrupt
<1>3. CASE Interrupted
  BY <1>3, EndsInv DEF Interrupted, Verified
<1>4. CASE Fail
  BY <1>4, EndsInv DEF Fail, Verified
<1>5. ASSUME NEW source \in {"dspark", "qwen", "ngram"}, NEW d \in TokenSeqs(MaxDrafts),
             Propose(source, d)
      PROVE  IInv'
  BY <1>5, ProposeInv
<1>6. CASE Prepare
  BY <1>6, PrepareInv
<1>7. CASE CommitPrefix
  BY <1>7, CommitInv DEF CommitPrefix, Verified
<1>8. CASE CommitFull
  <2>1. pc \in Verified /\ SubSeq(Inputs, 1, Len(Emitted)) = Inputs
    BY <1>8, AllInputs DEF CommitFull, Verified
  <2> QED BY <1>8, <2>1, CommitInv DEF CommitFull
<1>9. CASE CancelFull
  BY <1>9, MoveInv DEF CancelFull, Verified
<1>10. CASE Rerun
  <2>1. CASE Rows(Len(Emitted)) = Emitted
    BY <1>10, <2>1, MoveInv DEF Rerun, Verified
  <2>2. CASE Rows(Len(Emitted)) # Emitted
    BY <1>10, <2>2, EndsInv DEF Rerun, Ends, Verified
  <2> QED BY <2>1, <2>2
<1>11. CASE CommitRerun
  BY <1>11, CommitInv DEF CommitRerun, Verified
<1>12. CASE Apply
  BY <1>12, ApplyInv
<1> QED BY <1>1, <1>2, <1>3, <1>4, <1>5, <1>6, <1>7, <1>8, <1>9, <1>10, <1>11, <1>12 DEF Next

-----------------------------------------------------------------------------
(* The theorems.                                                             *)

\* The provider's caches and the history stay in step through every proposal,
\* commit, cancellation, rerun, interrupt and failure.
THEOREM Invariance == Spec => []IInv
<1>1. Init => IInv
  BY InitInv
<1>2. IInv /\ [Next]_vars => IInv'
  BY NextInv
<1> QED BY <1>1, <1>2, PTL DEF Spec

\* Each step of speculative decoding emits as greedy decoding does, gives up,
\* or changes nothing the client sees.
LEMMA StepRefines ==
  ASSUME IInv, [Next]_vars
  PROVE  [Greedy!Emit \/ Greedy!GiveUp]_(Greedy!vars)
<1>1. CASE Apply
  <2> DEFINE h == history \o Emitted
  <2>1. pc = "emit" /\ final = "none"
    BY <1>1 DEF IInv, RunInv, Apply
  <2>2. history' = h /\ final' \in {StopAfter(h), "interrupted", "failed"}
    BY <1>1 DEF Apply
  <2>3. k3' = k3 /\ limit' = limit
    BY <1>1 DEF Apply, request
  <2>4. Greedy!Continues(history, h)
    BY <2>1, EmissionContinues
  <2> HIDE DEF h
  <2>5. StopAfter(h) = Greedy!StopOf(h)
    BY DEF StopAfter, Generated, Greedy!StopOf
  <2>6. Greedy!Emit
    BY <2>1, <2>2, <2>3, <2>4, <2>5 DEF Greedy!Emit, Greedy!StopOf
  <2> QED BY <2>6
<1>2. ASSUME NEW reason \in {"interrupted", "failed"}, Ends(reason), pc # "end"
      PROVE  Greedy!GiveUp
  BY <1>2 DEF IInv, RunInv, Ends, request, Greedy!GiveUp
<1>3. CASE Interrupted \/ Fail
  BY <1>2, <1>3 DEF Interrupted, Fail
<1>4. CASE Rerun
  <2>1. CASE Rows(Len(Emitted)) = Emitted
    BY <1>4, <2>1 DEF Rerun, request, Greedy!vars
  <2>2. CASE Rows(Len(Emitted)) # Emitted
    BY <1>2, <1>4, <2>2 DEF Rerun, Ends
  <2> QED BY <2>1, <2>2
<1>5. ASSUME NEW source \in {"dspark", "qwen", "ngram"}, NEW d \in TokenSeqs(MaxDrafts),
             Propose(source, d)
      PROVE  UNCHANGED Greedy!vars
  BY <1>5 DEF Propose, request, Greedy!vars
<1>6. CASE Interrupt \/ Prepare \/ CommitPrefix \/ CommitFull \/ CancelFull \/ CommitRerun
  BY <1>6 DEF Interrupt, Prepare, CommitPrefix, CommitFull, CancelFull, CommitRerun,
              request, Greedy!vars
<1>7. CASE UNCHANGED vars
  BY <1>7 DEF vars, request, Greedy!vars
<1> QED BY <1>1, <1>3, <1>4, <1>5, <1>6, <1>7 DEF Next

\* Whatever is drafted, accepted, refused, cancelled or interrupted, what a
\* request emits is what the target alone would emit, and it stops where that
\* stops; and the target stays one token behind and within its context.
THEOREM Exactness == Spec => SpeculationIsExact
<1>1. Init => Greedy!Init
  BY DEF Init, Greedy!Init
<1>2. IInv /\ [Next]_vars => [Greedy!Emit \/ Greedy!GiveUp]_(Greedy!vars)
  BY StepRefines
<1>3. Spec => Greedy!Spec
  BY <1>1, <1>2, Invariance, PTL DEF Spec, Greedy!Spec
<1>4. IInv => OneTokenLag /\ WithinContext
  BY DEF IInv
<1> QED BY <1>3, <1>4, Invariance, PTL DEF SpeculationIsExact, EmitsGreedily

=============================================================================
