-------------------------- MODULE SpeculativeDecode --------------------------
(***************************************************************************)
(* The decode loop of generate_tokens_to_with_interrupt (engine.rs) with     *)
(* DecodeArena (decode.rs): an optional drafter proposes tokens, one target *)
(* transaction verifies them all, the accepted ones are emitted, and the    *)
(* provider commits the rows that produced them.                            *)
(*                                                                          *)
(* The provider stays one token behind the history: its caches hold tape,   *)
(* and the last token of history is the pending input of the next           *)
(* transaction.  What it predicts is a function of its tape and the rows it *)
(* is given, k3, chosen freely in Init; nothing but that function makes the *)
(* emitted tokens right.  The module starts where prefill ended.            *)
(***************************************************************************)
EXTENDS Naturals, Sequences, FiniteSets

CONSTANTS
  Tokens,        \* vocabulary
  Eos,           \* model.eos_token_id
  Prompt,        \* the prefilled prompt
  MaxContext,    \* admitted_expanded_context_tokens
  MaxNew,        \* largest max_new of a request
  MaxDrafts      \* speculative_max_drafts

ASSUME DecodeAssumption ==
  /\ Eos \in Tokens /\ IsFiniteSet(Tokens)
  /\ Prompt \in Seq(Tokens) /\ Prompt # <<>>
  /\ MaxContext \in Nat /\ Len(Prompt) < MaxContext
  /\ MaxNew \in Nat \ {0} /\ MaxDrafts \in Nat

VARIABLES
  k3, limit,     \* the target, and max_new of this request
  prefixCommit,  \* K3_QWEN_PREFIX_COMMIT
  interrupt,     \* interrupt.requested()
  history,       \* DecodeArena.history
  tape,          \* the tokens committed to the provider's caches
  pc,            \* place in the loop
  drafts, qwen,  \* the admitted proposal, and whether Qwen made it
  predictions,   \* what the prepared transaction predicted, row by row
  final          \* final_stop, "failed" for an error

request == <<k3, limit, prefixCommit>>
vars == <<request, interrupt, history, tape, pc, drafts, qwen, predictions, final>>

-----------------------------------------------------------------------------
Smaller(m, n) == IF m < n THEN m ELSE n

\* saturating_sub of usize
Minus(m, n) == IF m < n THEN 0 ELSE m - n

TokenSeqs(n) == UNION {[1 .. k -> Tokens] : k \in 0 .. n}

\* The contexts whose prediction matters: those in which no message has ended.
Contexts ==
  {Prompt \o s : s \in {t \in TokenSeqs(Smaller(MaxNew, MaxContext - Len(Prompt)) - 1) :
                          \A i \in DOMAIN t : t[i] # Eos}}

\* The target's prediction after a context; past an end of message, or past the
\* context it was admitted for, it predicts what no property depends on.
Predict(context) == IF context \in Contexts THEN k3[context] ELSE Eos

Init ==
  /\ k3 \in [Contexts -> Tokens]
  /\ limit \in 1 .. MaxNew
  /\ prefixCommit \in BOOLEAN
  /\ interrupt = FALSE
  /\ history = Prompt /\ tape = Prompt
  /\ pc = "emit" /\ drafts = <<>> /\ qwen = FALSE
  /\ predictions = <<Predict(Prompt)>>
  /\ final = "none"

-----------------------------------------------------------------------------
(* DecodeArena.                                                              *)

Generated(h) == Len(h) - Len(Prompt)

\* plan_authoritative: the stop that emitting the last token of h sets.
StopAfter(h) ==
  IF h[Len(h)] = Eos THEN "eos"
  ELSE IF Len(h) = MaxContext THEN "full"
  ELSE IF Generated(h) = limit THEN "limit" ELSE "none"

\* Mutant: every draft that matches its own row counts, after a mismatch too.
Bug_Accepted == Cardinality({i \in DOMAIN drafts : drafts[i] = predictions[i]})

\* plan_verified: the drafts that equal the prediction before them are accepted;
\* they and the prediction that follows are emitted, up to the first stop.
Accepted ==
  Cardinality({i \in DOMAIN drafts : \A j \in 1 .. i : drafts[j] = predictions[j]})

Planned == SubSeq(drafts, 1, Accepted) \o <<predictions[Accepted + 1]>>

Emitted ==
  LET n == CHOOSE n \in 1 .. Len(Planned) :
             /\ n = Len(Planned) \/ StopAfter(history \o SubSeq(Planned, 1, n)) # "none"
             /\ \A m \in 1 .. n - 1 : StopAfter(history \o SubSeq(Planned, 1, m)) = "none"
  IN  SubSeq(Planned, 1, n)

-----------------------------------------------------------------------------
(* The loop.                                                                 *)

\* SIGINT, or the client of a server request went away.
Interrupt ==
  /\ ~interrupt /\ pc # "end"
  /\ interrupt' = TRUE
  /\ UNCHANGED <<request, history, tape, pc, drafts, qwen, predictions, final>>

Ends(reason) ==
  /\ pc' = "end" /\ final' = reason
  /\ UNCHANGED <<request, interrupt, history, tape, drafts, qwen, predictions>>

\* interrupt.requested() is asked at the top of the loop, after a proposal, and
\* around the steps of the full-commit path; whatever is staged is cancelled.
Interrupted == interrupt /\ pc \in {"loop", "proposed", "full", "rerun", "again"} /\ Ends("interrupted")

\* Mutant: only the output limit bounds the drafts.
Bug_Budget == Smaller(MaxDrafts, Minus(Minus(limit, Generated(history)), 1))

\* bounded_draft_budget: room for the target's own token is kept.
Budget ==
  Smaller(MaxDrafts, Smaller(Minus(Minus(MaxContext, Len(history)), 1),
                             Minus(Minus(limit, Generated(history)), 1)))

\* truncate_after_first
Truncated(d) ==
  IF \E i \in DOMAIN d : d[i] = Eos
  THEN SubSeq(d, 1, CHOOSE i \in DOMAIN d : d[i] = Eos /\ \A j \in 1 .. i - 1 : d[j] # Eos)
  ELSE d

\* DSpark, Qwen or the n-gram table propose, as their own policies and the live
\* memory probe of admit_verify_width see fit; a refused proposal is cleared.
\* The full-commit transaction of Qwen is never refused.
Propose(source, d) ==
  /\ pc = "loop" /\ ~interrupt
  /\ Len(d) <= Budget
  /\ LET kept == IF source = "dspark" THEN d ELSE Truncated(d)
         fromQwen == source = "qwen" /\ kept # <<>>
     IN  \/ drafts' = kept /\ qwen' = fromQwen
         \/ ~(fromQwen /\ ~prefixCommit) /\ drafts' = <<>> /\ qwen' = FALSE
  /\ pc' = "proposed"
  /\ UNCHANGED <<request, interrupt, history, tape, predictions, final>>

\* The rows of the transaction: the pending token, then the proposals.
Inputs == <<history[Len(history)]>> \o drafts

Rows(n) == [i \in 1 .. n |-> Predict(tape \o SubSeq(Inputs, 1, i))]

\* qwen_needs_full_commit_path: with no per-row boundaries to commit a prefix
\* of, or when no draft was accepted.
FullPath == qwen /\ (~prefixCommit \/ Len(Emitted) = 1)

\* prepare_target_chunk and its full-commit variant.
Prepare ==
  /\ pc = "proposed" /\ ~interrupt
  /\ predictions' = Rows(Len(Inputs))
  /\ UNCHANGED <<request, interrupt, history, tape, drafts, qwen, final>>
  /\ pc' = IF FullPath' THEN "full" ELSE "prefix"

\* Mutant: the rejected rows are committed too.
Bug_CommitPrefix ==
  /\ pc = "prefix"
  /\ tape' = tape \o Inputs
  /\ pc' = "emit"
  /\ UNCHANGED <<request, interrupt, history, drafts, qwen, predictions, final>>

\* commit_target_chunk of as many rows as tokens are emitted.
CommitPrefix ==
  /\ pc = "prefix"
  /\ tape' = tape \o SubSeq(Inputs, 1, Len(Emitted))
  /\ pc' = "emit"
  /\ UNCHANGED <<request, interrupt, history, drafts, qwen, predictions, final>>

\* Everything was accepted: the wide transaction is committed as it is.
CommitFull ==
  /\ pc = "full" /\ ~interrupt
  /\ Len(Emitted) = Len(Inputs)
  /\ tape' = tape \o Inputs
  /\ pc' = "emit"
  /\ UNCHANGED <<request, interrupt, history, drafts, qwen, predictions, final>>

\* A mismatch: the staged rows are cancelled ...
CancelFull ==
  /\ pc = "full" /\ ~interrupt
  /\ Len(Emitted) # Len(Inputs)
  /\ pc' = "rerun"
  /\ UNCHANGED <<request, interrupt, history, tape, drafts, qwen, predictions, final>>

\* ... only the accepted rows run again, which must reproduce the plan ...
Rerun ==
  /\ pc = "rerun" /\ ~interrupt
  /\ IF Rows(Len(Emitted)) = Emitted
     THEN pc' = "again" /\ UNCHANGED final
     ELSE pc' = "end" /\ final' = "failed"
  /\ UNCHANGED <<request, interrupt, history, tape, drafts, qwen, predictions>>

\* ... and the rerun is committed whole.
CommitRerun ==
  /\ pc = "again" /\ ~interrupt
  /\ tape' = tape \o SubSeq(Inputs, 1, Len(Emitted))
  /\ pc' = "emit"
  /\ UNCHANGED <<request, interrupt, history, drafts, qwen, predictions, final>>

\* apply_verified, the writes of the emitted tokens and stop_after_transaction.
\* The first emission is that of the prediction prefill ended with.
Apply ==
  /\ pc = "emit"
  /\ LET h == history \o Emitted
         stop == IF interrupt THEN "interrupted" ELSE StopAfter(h)
     IN  /\ history' = h
         /\ \/ final' = stop /\ pc' = IF stop = "none" THEN "loop" ELSE "end"
            \/ final' = "failed" /\ pc' = "end"
  /\ drafts' = <<>> /\ qwen' = FALSE /\ predictions' = <<>>
  /\ UNCHANGED <<request, interrupt, tape>>

\* A provider call fails: nothing is committed, the request ends with an error.
Fail == pc \in {"proposed", "prefix", "full", "rerun", "again"} /\ Ends("failed")

Next ==
  \/ Interrupt \/ Interrupted \/ Fail
  \/ \E source \in {"dspark", "qwen", "ngram"}, d \in TokenSeqs(MaxDrafts) : Propose(source, d)
  \/ Prepare \/ CommitPrefix \/ CommitFull \/ CancelFull \/ Rerun \/ CommitRerun \/ Apply

Spec == Init /\ [][Next]_vars

-----------------------------------------------------------------------------
Greedy == INSTANCE GreedyDecode WITH stopped <- final

\* Speculation never changes the answer: whatever is drafted, by whom, with
\* whatever part of it accepted, refused, cancelled or interrupted, the emitted
\* tokens are the target's own greedy choices and stop where those stop.
EmitsGreedily == Greedy!Spec

\* validate_pending_target_lag, on contents: between transactions, and when a
\* request ended without an error, the provider has consumed exactly the
\* history but for its last token.
OneTokenLag ==
  pc \in {"loop", "proposed", "prefix", "full", "rerun", "again"} \/ (pc = "end" /\ final # "failed")
    => Append(tape, history[Len(history)]) = history

\* admit_context_chunk refuses rows past the admitted context, and its error
\* poisons the engine: no proposal makes a transaction ask for one.
WithinContext == pc = "proposed" => Len(tape) + Len(Inputs) <= MaxContext

\* Speculation is invisible (it emits what greedy decoding emits), and keeps
\* the provider one token behind within its context.
SpeculationIsExact == EmitsGreedily /\ [](OneTokenLag /\ WithinContext)
=============================================================================
