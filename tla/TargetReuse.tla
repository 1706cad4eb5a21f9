----------------------------- MODULE TargetReuse -----------------------------
(***************************************************************************)
(* One generation request at a time through NativeTargetEngine              *)
(* (native/deltafin/src/engine.rs), from lifecycle.begin to the settlement  *)
(* of its response by the HTTP server (openai/server.rs), with the          *)
(* provider's committed target state and its one state branch               *)
(* (provider_gate/provider_runtime.cpp).                                    *)
(*                                                                          *)
(* The provider's KDA/MLA caches are represented by the token tape they     *)
(* were computed from: provider.tape.  The engine does not see the tape; it *)
(* sees its length and a cache generation, and decides with those whether   *)
(* the next prompt may resume from the retained state.                      *)
(*                                                                          *)
(* An Option is a set of at most one element.  Drafting is reduced to how   *)
(* many tokens one target transaction commits; which ones are accepted does *)
(* not matter here.  mla_capacity_tokens is 0 exactly when                  *)
(* committed_context_tokens is, and is left out.                            *)
(***************************************************************************)
EXTENDS Naturals, Sequences

CONSTANTS
  Tokens,        \* vocabulary
  Eos,           \* end of message, a member of Tokens
  Prompts,       \* token sequences a client may send
  ChunkSize,     \* prefill rows per target transaction
  Width,         \* most tokens one decode transaction commits
  MaxNew,        \* max_new of every request
  MaxContext,    \* admitted_expanded_context_tokens
  MinReuse,      \* SERVER_TARGET_REUSE_MIN_TOKENS
  MaxRequests    \* bound: how many requests a behaviour contains

ASSUME ReuseAssumption ==
  /\ Eos \in Tokens
  /\ Prompts \subseteq Seq(Tokens)
  /\ {ChunkSize, Width} \subseteq Nat \ {0}
  /\ {MaxNew, MaxContext, MinReuse, MaxRequests} \subseteq Nat

VARIABLES
  mode,          \* faulty: provider calls may fail; prefixOnly: K3_REUSE_COMMITTED_PREFIX
  provider,      \* target_cache_store, its generation and the branch slot
  engine,        \* lifecycle and the reuse fields of NativeTargetEngine
  request,       \* locals of the request being served
  served         \* requests started

vars == <<mode, provider, engine, request, served>>

-----------------------------------------------------------------------------
Phases == {"idle", "enter", "started", "prefill", "boundary", "decode",
           "flush", "tail", "respond", "settle"}

\* holds: which local owns the provider branch, prefill_branch or
\* reuse_transaction; parent: the PublishedTargetBoundary of the latter.
NoRequest ==
  [phase |-> "idle", prompt |-> <<>>, chat |-> FALSE, stream |-> FALSE,
   gone |-> FALSE, first |-> 0, generated |-> <<>>, stop |-> "none",
   holds |-> "none", parent |-> {}, result |-> "ok", publication |-> "none"]

Init ==
  /\ mode \in [faulty : BOOLEAN, prefixOnly : BOOLEAN]
  /\ provider = [tape |-> <<>>, gen |-> 0, branch |-> {}]
  /\ engine = [life |-> "ready", committed |-> 0, boundary |-> {},
               pending |-> {}, stream |-> "none"]
  /\ request = NoRequest
  /\ served = 0

-----------------------------------------------------------------------------
\* Provider calls.  Each yields the set of its outcomes; a call that fails
\* leaves the provider as it was.
Larger(m, n) == IF m > n THEN m ELSE n

\* deltafin_provider_target_sequence_commit_v1
Committed(p, rows) == [p EXCEPT !.tape = @ \o rows, !.gen = @ + 1]

\* deltafin_provider_target_state_branch_begin_v1, expected boundary current
Branched(p) == [p EXCEPT !.branch = {[tape |-> p.tape, gen |-> p.gen]}]

\* deltafin_provider_target_state_branch_publish_v1
Published(p) == [p EXCEPT !.branch = {}]

\* deltafin_provider_target_state_branch_discard_v1
Restored(p) ==
  LET parent == CHOOSE b \in p.branch : TRUE
  IN  [tape |-> parent.tape, gen |-> Larger(p.gen, parent.gen) + 1, branch |-> {}]

\* deltafin_provider_target_state_reset_v1: refused while a branch is active
CanReset(p) == p.branch = {}
Cleared(p) == [p EXCEPT !.tape = <<>>, !.gen = @ + 1]

\* Drop for TargetStateBranch: a best-effort discard, its failure ignored.
Dropped(p) == {Restored(p)} \cup (IF mode.faulty THEN {p} ELSE {})

-----------------------------------------------------------------------------
\* A client sends a request and may go away at any later moment.  Only the text
\* of a raw completion may be empty: a rendered chat never is.
Arrive(prompt, chat, stream) ==
  /\ request.phase = "idle"
  /\ prompt = <<>> => ~chat
  /\ served < MaxRequests
  /\ served' = served + 1
  /\ request' = [NoRequest EXCEPT !.phase = "enter", !.prompt = prompt,
                                  !.chat = chat, !.stream = stream]
  /\ UNCHANGED <<mode, provider, engine>>

Disconnect ==
  /\ request.phase # "idle" /\ ~request.gone
  /\ request' = [request EXCEPT !.gone = TRUE]
  /\ UNCHANGED <<mode, provider, engine, served>>

\* The client is seen to be gone, or the stream headers cannot be written,
\* before the target is entered.
AbandonEarly ==
  /\ request.phase = "enter" /\ request.gone
  /\ request' = NoRequest
  /\ UNCHANGED <<mode, provider, engine, served>>

\* The closure of generate_tokens_to_with_interrupt returns: an error, or Ok
\* with a stop reason.
Fails(kind) == request' = [request EXCEPT !.phase = "tail", !.result = kind]
Stops(r, reason) == [r EXCEPT !.phase = "flush", !.stop = reason]

\* A provider call fails.
TargetFault(phase) ==
  /\ mode.faulty
  /\ request.phase = phase
  /\ Fails("target")
  /\ UNCHANGED <<mode, provider, engine, served>>

\* Only a streaming sink writes to the client, and only a client that went
\* away makes the write fail.
SinkMayFail == request.stream /\ request.gone

\* lifecycle.begin, and the unresolved-boundary check of generate_target_stream;
\* a refusal returns before the request touches anything.
Begin ==
  /\ request.phase = "enter"
  /\ IF engine.life = "ready" /\ (request.stream => engine.stream = "none")
     THEN /\ engine' = [engine EXCEPT !.life = "running"]
          /\ request' = [request EXCEPT !.phase = "started"]
     ELSE /\ request' = [request EXCEPT !.phase = "respond", !.result = "target"]
          /\ UNCHANGED engine
  /\ UNCHANGED <<mode, provider, served>>

\* DecodeArena::new: an empty or over-long prompt is an error; no room, or
\* max_new = 0, stops before anything is consumed.
Enters == Len(request.prompt) \in 1 .. MaxContext - 1 /\ MaxNew > 0

Unsuitable ==
  /\ request.phase = "started"
  /\ request.prompt = <<>> \/ Len(request.prompt) > MaxContext
  /\ Fails("target")
  /\ UNCHANGED <<mode, provider, engine, served>>

NothingToDo ==
  /\ request.phase = "started"
  /\ Len(request.prompt) \in 1 .. MaxContext /\ ~Enters
  /\ request' = Stops(request, IF Len(request.prompt) = MaxContext THEN "full" ELSE "limit")
  /\ UNCHANGED <<mode, provider, engine, served>>

\* interrupt.requested() is asked before the reuse decision, before every
\* prefill chunk and before every decode transaction; it may miss a client
\* that is already gone.
Interrupt ==
  /\ \/ request.phase = "started" /\ Enters
     \/ request.phase = "prefill" /\ request.first < Len(request.prompt)
     \/ request.phase = "decode"
  /\ request.gone
  /\ request' = Stops(request, "interrupted")
  /\ UNCHANGED <<mode, provider, engine, served>>
-----------------------------------------------------------------------------
\* plan_target_reuse: the retained tokens, or only the committed ones, must be
\* a strict prefix of the prompt.
RequiredPrefix(b) ==
  IF mode.prefixOnly THEN SubSeq(b.tokens, 1, b.committed) ELSE b.tokens

\* Mutant: the prompt is only checked to be longer.
Bug_Extends(prompt, prefix) == Len(prompt) > Len(prefix)

Extends(prompt, prefix) ==
  /\ Len(prompt) > Len(prefix)
  /\ SubSeq(prompt, 1, Len(prefix)) = prefix

Reusable(b) ==
  /\ Len(b.tokens) = b.committed + 1
  /\ b.gen # 0
  /\ Extends(request.prompt, RequiredPrefix(b))

\* live == expected in begin_target_reuse_request
Matches(b) ==
  /\ provider.branch = {}
  /\ Len(provider.tape) = b.committed
  /\ provider.gen = b.gen

\* begin_target_reuse_request, hit: the slot is consumed and the prompt is
\* replayed from the retained position inside a branch.
ReuseHit ==
  /\ request.phase = "started" /\ Enters
  /\ request.chat
  /\ \E b \in engine.boundary :
       /\ Reusable(b) /\ Matches(b)
       /\ provider' = Branched(provider)
       /\ engine' = [engine EXCEPT !.boundary = {}, !.committed = b.committed]
       /\ request' = [request EXCEPT !.phase = "prefill", !.holds = "prefill",
                                     !.first = b.committed]
  /\ UNCHANGED <<mode, served>>

\* Miss: the slot is consumed as well and the provider is reset, unless it
\* holds nothing.  A branch that could not begin (faulty) is a miss too.
ReuseMiss ==
  /\ request.phase = "started" /\ Enters
  /\ \/ mode.faulty \/ ~request.chat
     \/ \A b \in engine.boundary : ~(Reusable(b) /\ Matches(b))
  /\ \/ /\ engine.pending = {}
        /\ IF engine.committed = 0
           THEN UNCHANGED provider
           ELSE CanReset(provider) /\ provider' = Cleared(provider)
        /\ engine' = [engine EXCEPT !.boundary = {}, !.committed = 0]
        /\ request' = [request EXCEPT !.phase = "prefill"]
     \/ /\ engine.pending # {} \/ (engine.committed # 0 /\ (mode.faulty \/ ~CanReset(provider)))
        /\ engine' = [engine EXCEPT !.boundary = {}]
        /\ Fails("target")
        /\ UNCHANGED provider
  /\ UNCHANGED <<mode, served>>

\* execute_target_chunk of the next prompt chunk.
Prefill ==
  /\ request.phase = "prefill"
  /\ request.first < Len(request.prompt)
  /\ LET last == IF request.first + ChunkSize < Len(request.prompt)
                 THEN request.first + ChunkSize ELSE Len(request.prompt)
         rows == SubSeq(request.prompt, request.first + 1, last)
     IN  /\ provider' = Committed(provider, rows)
         /\ engine' = [engine EXCEPT !.committed = @ + Len(rows)]
         /\ request' = [request EXCEPT !.first = last,
                          !.phase = IF last = Len(request.prompt) THEN "boundary" ELSE @]
  /\ UNCHANGED <<mode, served>>

\* plan_authoritative: why decoding stops after the last of these tokens.
StopAfter(generated) ==
  IF generated[Len(generated)] = Eos THEN "eos"
  ELSE IF Len(request.prompt) + Len(generated) = MaxContext THEN "full"
  ELSE IF Len(generated) = MaxNew THEN "limit" ELSE "none"

\* stop_after_transaction: an interrupt seen after it wins.
StopSeen(generated) ==
  {StopAfter(generated)} \cup (IF request.gone THEN {"interrupted"} ELSE {})

Emitted(r, tokens, stop) ==
  [r EXCEPT !.generated = @ \o tokens,
            !.stop = stop,
            !.phase = IF stop = "none" THEN "decode" ELSE "flush"]

\* write_token of what was just emitted.
Written(r) ==
  \/ request' = r
  \/ SinkMayFail /\ request' = [r EXCEPT !.phase = "tail", !.result = "publication"]

\* publish_prompt_parent_and_begin_decode_branch: a chat request that is not
\* seen to be interrupted publishes its prompt state and branches from it
\* before the first prediction is emitted.
PromptBoundary(t) ==
  /\ request.phase = "boundary" /\ request.chat
  /\ Len(provider.tape) = Len(request.prompt)
  /\ provider' = Branched(Published(provider))
  /\ LET parent == [tokens |-> Append(request.prompt, t),
                    committed |-> Len(request.prompt), gen |-> provider.gen]
         r == [request EXCEPT !.holds = "decode", !.parent = {parent}]
     IN  \E stop \in StopSeen(<<t>>) : Written(Emitted(r, <<t>>, stop))
  /\ UNCHANGED <<mode, engine, served>>

\* A raw completion, or an interrupt seen after prefill: no decode branch.
PlainBoundary(t) ==
  /\ request.phase = "boundary"
  /\ \E stop \in StopSeen(<<t>>) :
       /\ ~request.chat \/ stop = "interrupted"
       /\ Written(Emitted(request, <<t>>, stop))
  /\ UNCHANGED <<mode, provider, engine, served>>

\* Publishing the prompt state failed, or beginning the decode branch did.
BoundaryFault ==
  /\ mode.faulty
  /\ request.phase = "boundary" /\ request.chat
  /\ provider' \in {Published(provider)}
                  \cup (IF request.holds = "prefill" THEN Dropped(provider) ELSE {})
  /\ request' = [request EXCEPT !.phase = "tail", !.result = "target", !.holds = "none"]
  /\ UNCHANGED <<mode, engine, served>>

\* One decode transaction: the pending token and the accepted drafts are
\* committed, the tokens K3 predicted after them are emitted.
Answers ==
  {tokens \in UNION {[1..n -> Tokens] : n \in 1..Width} :
     /\ \A i \in 1..(Len(tokens) - 1) : tokens[i] # Eos
     /\ Len(request.generated) + Len(tokens) <= MaxNew
     /\ Len(request.prompt) + Len(request.generated) + Len(tokens) <= MaxContext}

Decode ==
  /\ request.phase = "decode"
  /\ \E tokens \in Answers :
       LET pending == request.generated[Len(request.generated)]
           inputs  == <<pending>> \o SubSeq(tokens, 1, Len(tokens) - 1)
       IN  /\ provider' = Committed(provider, inputs)
           /\ engine' = [engine EXCEPT !.committed = @ + Len(inputs)]
           /\ \E stop \in StopSeen(request.generated \o tokens) :
                Written(Emitted(request, tokens, stop))
  /\ UNCHANGED <<mode, served>>

-----------------------------------------------------------------------------
\* finish_output, then the publication to settle later is set up, unless the
\* request is interrupted.  canonical_chat_target_boundary decides whether the
\* generated tokens re-render to themselves: either answer is possible at EOS.
FinalTokens ==
  {{}} \cup (IF request.stop = "eos" THEN {{request.prompt \o request.generated}} ELSE {})

Flush ==
  /\ request.phase = "flush"
  /\ \/ /\ request.stop # "interrupted"
        /\ request' = [request EXCEPT !.phase = "tail", !.holds = "none", !.parent = {}]
        /\ IF request.holds = "decode"
           THEN \E final \in FinalTokens :
                  engine' = [engine EXCEPT !.pending =
                               {[prompt |-> CHOOSE p \in request.parent : TRUE, final |-> final]}]
           ELSE UNCHANGED engine
     \/ /\ request.gone
        /\ request' = [request EXCEPT !.phase = "tail", !.stop = "interrupted"]
        /\ UNCHANGED engine
  /\ UNCHANGED <<mode, provider, served>>

FlushFails ==
  /\ request.phase = "flush" /\ SinkMayFail
  /\ Fails("publication")
  /\ UNCHANGED <<mode, provider, engine, served>>

\* The code after the closure.  An interrupted generation explicitly discards
\* whatever branch it holds; a failed one leaves it to Drop.  The lifecycle
\* becomes Ready after Ok and Poisoned after an error.
OwnsBranch == request.holds # "none" \/ engine.pending # {}

Responds(result, stop) ==
  request' = [request EXCEPT !.phase = "respond", !.result = result, !.stop = stop,
                             !.holds = "none", !.parent = {}]

\* discard_pending of the spine pipeline: a pending read poisons the engine.
Abandoned == IF mode.faulty THEN BOOLEAN ELSE {FALSE}
LifeAfter(abandoned) == IF abandoned THEN "poisoned" ELSE "ready"
ResultAfter(abandoned) == IF abandoned THEN "target" ELSE "ok"

TailOk ==
  /\ request.phase = "tail" /\ request.result = "ok" /\ request.stop # "interrupted"
  /\ \E abandoned \in Abandoned :
       /\ engine' = [engine EXCEPT !.life = LifeAfter(abandoned)]
       /\ Responds(ResultAfter(abandoned), request.stop)
  /\ UNCHANGED <<mode, provider, served>>

TailInterrupted ==
  /\ request.phase = "tail" /\ request.result = "ok" /\ request.gone
  /\ \E abandoned \in Abandoned :
       LET left == [engine EXCEPT !.life = LifeAfter(abandoned),
                                  !.boundary = {}, !.pending = {}]
       IN  /\ IF OwnsBranch
              THEN /\ provider' = Restored(provider)
                   /\ engine' = [left EXCEPT !.committed = Len(Restored(provider).tape)]
              ELSE engine' = left /\ UNCHANGED provider
           /\ Responds(ResultAfter(abandoned), "interrupted")
  /\ UNCHANGED <<mode, served>>

\* The explicit discard fails; the branch is dropped and tried once more.
TailDiscardFails ==
  /\ mode.faulty
  /\ request.phase = "tail" /\ request.result = "ok" /\ request.gone
  /\ OwnsBranch
  /\ provider' \in Dropped(provider)
  /\ engine' = [engine EXCEPT !.life = "poisoned", !.pending = {}]
  /\ Responds("target", "interrupted")
  /\ UNCHANGED <<mode, served>>

\* Mutant: a failed request leaves the lifecycle Running.
Bug_TailFailed ==
  /\ request.phase = "tail" /\ request.result # "ok"
  /\ provider' \in IF request.holds = "none" THEN {provider} ELSE Dropped(provider)
  /\ Responds(request.result, request.stop)
  /\ UNCHANGED <<mode, engine, served>>

TailFailed ==
  /\ request.phase = "tail" /\ request.result # "ok"
  /\ provider' \in IF request.holds = "none" THEN {provider} ELSE Dropped(provider)
  /\ engine' = [engine EXCEPT !.life = "poisoned"]
  /\ Responds(request.result, request.stop)
  /\ UNCHANGED <<mode, served>>

-----------------------------------------------------------------------------
\* The response.  Without streaming, generate answers 500 for an error and the
\* body is then written; finish_target_response learns whether all of it was.
\* generate_target may still fail on UTF-8 or, poisoning, on its metadata.
Answered(publication) ==
  request' = [request EXCEPT !.phase = "settle", !.publication = publication]

RespondWhole ==
  /\ request.phase = "respond" /\ ~request.stream
  /\ \/ /\ request.result = "ok" /\ request.stop # "interrupted"
        /\ Answered("complete")
        /\ UNCHANGED engine
     \/ /\ request.result # "ok" \/ request.gone
        /\ Answered("aborted")
        /\ UNCHANGED engine
     \/ /\ mode.faulty /\ request.result = "ok"
        /\ Answered("aborted")
        /\ engine' \in {engine, [engine EXCEPT !.life = "poisoned"]}
  /\ UNCHANGED <<mode, provider, served>>

\* With streaming: what generate_target_stream leaves in stream_boundary, and
\* whether StreamFinalizer was completed or dropped.
RespondStream ==
  /\ request.phase = "respond" /\ request.stream
  /\ \/ /\ request.result = "ok" /\ request.stop # "interrupted"
        /\ engine' = [engine EXCEPT !.stream = "awaiting"]
        /\ \/ Answered("complete")
           \/ request.gone /\ Answered("aborted")
     \/ /\ \/ request.result = "publication"
           \/ request.result = "ok" /\ request.stop # "interrupted" /\ request.gone
        /\ engine' = [engine EXCEPT !.stream = "failed"]
        /\ Answered("aborted")
     \/ /\ request.result = "target" \/ (request.result = "ok" /\ request.stop = "interrupted")
        /\ Answered("aborted")
        /\ UNCHANGED engine
     \/ /\ mode.faulty /\ request.result = "ok" /\ request.stop # "interrupted"
        /\ engine' = [engine EXCEPT !.life = "poisoned"]
        /\ Answered("aborted")
  /\ UNCHANGED <<mode, provider, served>>

-----------------------------------------------------------------------------
\* settle_target_publication.  The branch is published for a completely
\* delivered canonical response and discarded otherwise; the boundary that
\* results is retained if it is long enough, and everything is reset if there
\* is none.
PublishedBoundary(p, final) ==
  {b \in {[tokens |-> t, committed |-> Len(p.tape), gen |-> p.gen] : t \in final} :
     Len(b.tokens) = b.committed + 1}

\* Mutant: the generation from before the discard is kept.
Bug_ParentBoundary(p, parent) == {b \in {parent} : Len(p.tape) = b.committed}

ParentBoundary(p, parent) ==
  {b \in {[parent EXCEPT !.gen = p.gen]} : Len(p.tape) = b.committed}

Retainable(b) == MinReuse <= b.committed /\ b.committed <= MaxContext

\* Mutant: the child is published whether or not the response was delivered.
Bug_Resolutions(pending, complete) ==
  IF pending.final # {}
  THEN {<<Published(provider), PublishedBoundary(provider, pending.final)>>}
  ELSE {<<Restored(provider), ParentBoundary(Restored(provider), pending.prompt)>>}

\* provider and boundary after the branch is resolved, faults included
Resolutions(pending, complete) ==
  (IF complete /\ pending.final # {}
   THEN {<<Published(provider), PublishedBoundary(provider, pending.final)>>}
   ELSE {<<Restored(provider), ParentBoundary(Restored(provider), pending.prompt)>>})
  \cup (IF mode.faulty THEN {<<p, {}>> : p \in Dropped(provider)} ELSE {})

\* What settling does to provider and engine, the lifecycle included.
Settlements(publication) ==
  IF engine.pending = {} THEN {<<provider, engine>>}
  ELSE UNION {
    LET p == r[1]
        kept == {b \in r[2] : Retainable(b)}
        left == [engine EXCEPT !.pending = {}, !.boundary = kept]
    IN  IF kept # {}
        THEN {<<p, [left EXCEPT !.committed = Len(p.tape)]>>}
        ELSE (IF CanReset(p) THEN {<<Cleared(p), [left EXCEPT !.committed = 0]>>} ELSE {})
             \cup (IF mode.faulty \/ ~CanReset(p)
                   THEN {<<p, [left EXCEPT !.life = "poisoned"]>>} ELSE {})
    : r \in UNION {Resolutions(d, publication = "complete") : d \in engine.pending}}

\* Mutant: a failed publication does not give the lifecycle back.
Bug_StreamSettlements(publication) ==
  {<<s[1], [s[2] EXCEPT !.stream = "none"]>> :
     s \in IF engine.stream = "none" THEN {<<provider, engine>>} ELSE Settlements(publication)}

\* NativeStreamBoundary::resolve and finish_target_stream: a discard puts the
\* lifecycle back to Ready, whatever settling made of it.
StreamSettlements(publication) ==
  CASE engine.stream = "none" -> {<<provider, engine>>}
    [] engine.stream # "none" /\ publication = "aborted" ->
         {<<s[1], [s[2] EXCEPT !.stream = "none", !.life = "ready"]>> :
            s \in Settlements("aborted")}
    [] OTHER ->
         {<<s[1], [s[2] EXCEPT !.stream = "none"]>> : s \in Settlements("complete")}

\* The permit is dropped after this step.
Settle ==
  /\ request.phase = "settle"
  /\ \E s \in IF request.stream THEN StreamSettlements(request.publication)
                                ELSE Settlements(request.publication) :
       provider' = s[1] /\ engine' = s[2]
  /\ request' = NoRequest
  /\ UNCHANGED <<mode, served>>

-----------------------------------------------------------------------------
Next ==
  \/ \E prompt \in Prompts, chat \in BOOLEAN, stream \in BOOLEAN : Arrive(prompt, chat, stream)
  \/ Disconnect \/ AbandonEarly
  \/ Begin \/ Unsuitable \/ NothingToDo \/ Interrupt
  \/ ReuseHit \/ ReuseMiss
  \/ Prefill \/ Decode
  \/ \E phase \in {"prefill", "decode"} : TargetFault(phase)
  \/ \E t \in Tokens : PromptBoundary(t) \/ PlainBoundary(t)
  \/ BoundaryFault
  \/ Flush \/ FlushFails
  \/ TailOk \/ TailInterrupted \/ TailDiscardFails \/ TailFailed
  \/ RespondWhole \/ RespondStream \/ Settle

Spec == Init /\ [][Next]_vars

-----------------------------------------------------------------------------
Boundaries == [tokens : Seq(Tokens), committed : Nat, gen : Nat]
Generating == {"started", "prefill", "boundary", "decode", "flush", "tail"}

\* Every variable has the shape the code gives it, and the lifecycle is Running
\* exactly inside generate_tokens_to_with_interrupt.
TypeOK ==
  /\ mode \in [faulty : BOOLEAN, prefixOnly : BOOLEAN]
  /\ provider.tape \in Seq(Tokens) /\ provider.gen \in Nat
  /\ \A b \in provider.branch : b.tape \in Seq(Tokens) /\ b.gen \in Nat
  /\ engine.life \in {"ready", "running", "poisoned"}
  /\ engine.life = "running" <=> request.phase \in Generating
  /\ engine.committed \in Nat
  /\ engine.stream \in {"none", "awaiting", "failed"}
  /\ \A b \in engine.boundary \cup request.parent : b \in Boundaries
  /\ request.phase \in Phases
  /\ request.generated \in Seq(Tokens)
  /\ served \in 0..MaxRequests

\* validate_pending_target_lag, and what reuse has to guarantee: whatever was
\* retained, discarded or left behind by earlier requests, the provider state a
\* request is computed from is exactly the one its own tokens produce.
NoForeignContext ==
  /\ request.phase \in {"prefill", "boundary"} =>
       /\ provider.tape = SubSeq(request.prompt, 1, request.first)
       /\ engine.committed = request.first
  /\ request.phase = "decode" =>
       /\ Append(provider.tape, request.generated[Len(request.generated)])
            = request.prompt \o request.generated
       /\ engine.committed = Len(provider.tape)

\* Between requests a retained PublishedTargetBoundary describes the provider's
\* state as it is: no branch is open, the generation is current and the tape is
\* the committed part of its tokens, so the snapshot can be resumed.
RetainedStateIsLive ==
  request.phase = "idle" =>
    \A b \in engine.boundary :
      /\ Matches(b)
      /\ provider.tape = SubSeq(b.tokens, 1, b.committed)

\* Generated tokens are retained across requests only when the whole response
\* that carries them reached its client; an aborted one leaves at most the
\* prompt, with the prediction that follows it.  (A poisoned engine may settle a
\* publication of an earlier request, but serves nothing.)
OnlyDeliveredIsRetained ==
  [][engine'.life = "ready" => \A b \in engine'.boundary \ engine.boundary :
       \/ /\ request.publication = "complete"
          /\ b.tokens = request.prompt \o request.generated
       \/ b.tokens = Append(request.prompt, request.generated[1])]_vars

\* A client that disconnects, at whatever moment, costs no more than its own
\* request: while provider calls succeed, a request that did not fail in the
\* target ends with the engine Ready and nothing left over.
DisconnectCostsOneRequest ==
  [][request.phase = "settle" /\ request'.phase = "idle" /\ ~mode.faulty
       /\ request.result # "target" =>
       /\ engine'.life = "ready"
       /\ engine'.pending = {} /\ engine'.stream = "none"
       /\ provider'.branch = {}]_vars

\* docs/OPTIMIZATIONS.md, publication protocol, step 5: "A provider failure that
\* cannot prove restoration poisons the engine rather than serving from
\* uncertain state."  When settling could neither keep a boundary nor reset the
\* provider, the engine is poisoned.
FailedCleanupPoisons ==
  [][engine.pending # {} /\ request.phase = "settle" =>
       \/ engine'.pending # {} \/ engine'.boundary # {} \/ engine'.committed = 0
       \/ engine'.life = "poisoned"]_vars

\* openai/server.rs, serve_forever: "A disconnected client or one failed target
\* request must not take down the listener."  While provider calls succeed, the
\* engine can serve the next request whatever the clients sent before.
OnlyFaultsPoison ==
  request.phase = "idle" /\ ~mode.faulty => engine.life = "ready"

\* Provider and engine agree on one request's context, or on a retained one.
ContextIsOwn == TypeOK /\ NoForeignContext /\ RetainedStateIsLive

\* How a response settles: only what was delivered is kept for the next
\* request, and a lost client leaves the engine ready for it.
SettlementsAreHonest == OnlyDeliveredIsRetained /\ DisconnectCostsOneRequest
=============================================================================
