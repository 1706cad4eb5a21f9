----------------------------- MODULE DSparkDraft -----------------------------
(***************************************************************************)
(* The optional DSpark drafter (dspark_runtime.rs) over its native backend *)
(* (dspark_provider.rs), driven by the decode loop of engine.rs.           *)
(*                                                                         *)
(* The drafter keeps a cache of the target's rows in the provider.  Rust   *)
(* mirrors its length and generation, keeps a ledger of the tokens it      *)
(* stands for, and publishes a boundary that a later request may resume    *)
(* from together with the target's own.  A call into the provider may be   *)
(* refused, or take effect and come back with a report Rust rejects.       *)
(* Generations only grow, so only whether the mirror still has the         *)
(* provider's matters: `stale`.  Drafting is optional; what must hold is   *)
(* that a draft is never made from a cache that is not the target's        *)
(* history.                                                                *)
(***************************************************************************)
EXTENDS Naturals, Integers, Sequences, SequencesExt

CONSTANTS
  Tokens,          \* vocabulary
  Modes,           \* subset of {"off", "on", "auto"}
  SafeContext,     \* max_context_tokens
  ProbeDrafts,     \* probe_drafts
  DraftWidth,      \* max_drafts
  MissTolerance,   \* miss_tolerance
  TrailingPercent, \* K3_DSPARK_MIN_TRAILING_ACCEPT, 0 when unset
  TrailingWindow,  \* 32 drafted tokens
  Times,           \* seconds a pass may take
  MaxPrompt,       \* bound: prompt tokens
  MaxTarget,       \* bound: rows the target commits
  MaxDraftRequests,\* bound: requests
  MaxDraftFaults   \* bound: backend faults

ASSUME DSparkAssumption ==
  /\ SafeContext \in Nat /\ ProbeDrafts \in Nat /\ DraftWidth \in Nat /\ MissTolerance \in Nat
  /\ TrailingPercent \in Nat /\ TrailingWindow \in Nat /\ Times \subseteq Nat
  /\ MaxPrompt \in Nat /\ MaxTarget \in Nat /\ MaxDraftRequests \in Nat /\ MaxDraftFaults \in Nat

VARIABLES
  dmode,    \* DSparkRuntime.mode
  cache,    \* the provider's rows, the mirrored length, whether the mirror lags
  active,   \* ActiveRequest, or None
  pub,      \* published boundary, or None
  target,   \* the engine: phase, prompt, committed rows, pending token, boundary
  window,   \* trailing_drafted, trailing_accepted
  dfaults   \* faults met so far

dvars == <<dmode, cache, active, pub, target, window, dfaults>>

None == [none |-> TRUE]

Prefixed(s, t) == IsPrefix(s, t)

----------------------------------------------------------------------------
(* The backend.  A fault names the call it hits and how.                   *)

Sound == [call |-> "none", kind |-> "none"]

Faults ==
  IF dfaults < MaxDraftFaults
  THEN {Sound} \cup ({[call |-> c, kind |-> k] : c \in {"append", "restore"}, k \in {"refused", "lost"}}
                     \cup {[call |-> "snapshot", kind |-> "refused"],
                           [call |-> "capture", kind |-> "refused"],
                           [call |-> "propose", kind |-> "refused"],
                           [call |-> "propose", kind |-> "contract"]})
  ELSE {Sound}

How(f, c) == IF f.call = c THEN f.kind ELSE "ok"

\* NativeDSpark::restore under DSparkRuntime::restore: the provider takes the
\* snapshot's rows; Rust believes it only when length and generation are as
\* expected, which a mirror that lags never sees again.
Restored(c, rows, f) ==
  CASE How(f, "restore") = "refused" -> [cache |-> c, ok |-> FALSE]
    [] How(f, "restore") = "ok" /\ ~c.stale ->
         [cache |-> [rows |-> rows, length |-> Len(rows), stale |-> FALSE], ok |-> TRUE]
    [] OTHER -> [cache |-> [c EXCEPT !.rows = rows, !.stale = TRUE], ok |-> FALSE]

\* reset_state: a restore of the snapshot taken when the model was bound.
Reset(c, f) == Restored(c, <<>>, f)

\* NativeDSpark::snapshot under DSparkRuntime::capture.
Captures(c, f) == How(f, "snapshot") = "ok" /\ ~c.stale /\ c.length = Len(c.rows)

\* append_target_context_tensor_prefix: the provider refuses a stale boundary.
Appended(c, toks, f) ==
  IF How(f, "append") = "refused" \/ c.stale \/ c.length # Len(c.rows) THEN [cache |-> c, ok |-> FALSE]
  ELSE IF How(f, "append") = "lost"
       THEN [cache |-> [c EXCEPT !.rows = @ \o toks, !.stale = TRUE], ok |-> FALSE]
       ELSE [cache |-> [c EXCEPT !.rows = @ \o toks, !.length = @ + Len(toks)], ok |-> TRUE]

----------------------------------------------------------------------------
(* DSparkRuntime.                                                          *)

\* disable_active
Disabled(a, aligned, category) ==
  [a EXCEPT !.enabled = FALSE, !.aligned = aligned, !.category = category]

\* release_obsolete_publication(true): the model is reset unless it is empty.
Released(c, f) == IF c.length = 0 THEN c ELSE Reset(c, f).cache

\* TargetCache::Hit names the target's boundary; the draft boundary must be the
\* one paired with it and cover exactly the cached prefix.
PrefixMatches(prompt, b) ==
  /\ pub # None
  /\ Len(b.tokens) > 0 /\ Len(b.tokens) < Len(prompt)
  /\ Len(pub.tokens) = Len(b.tokens)
  /\ Prefixed(pub.tokens, prompt)
  /\ pub.id = b.id

\* What begin_request finds: the cache it leaves, the cached prefix it resumes
\* from and whether drafting starts enabled.
Opening(prompt, hit, f) ==
  LET off(c) == [cache |-> c, ledger |-> <<>>, ok |-> FALSE, origin |-> None]
  IN  CASE dmode = "off" -> off(cache)
        [] dmode # "off" /\ Len(prompt) > SafeContext -> off(Released(cache, f))
        [] dmode # "off" /\ Len(prompt) <= SafeContext /\ ~hit ->
             LET r == Reset(cache, f)
             IN  IF r.ok /\ Captures(r.cache, f)
                 THEN [cache |-> r.cache, ledger |-> <<>>, ok |-> TRUE, origin |-> [rows |-> <<>>]]
                 ELSE off(r.cache)
        [] OTHER ->
             IF ~PrefixMatches(prompt, target.boundary) THEN off(Released(cache, f))
             ELSE LET r == Restored(cache, pub.rows, f)
                  IN  IF r.ok
                      THEN [cache |-> r.cache, ledger |-> pub.tokens, ok |-> TRUE,
                            origin |-> [rows |-> pub.rows]]
                      ELSE off(Released(r.cache, f))

\* begin_request: a published boundary is consumed whatever becomes of it.
BeginDraftRequest(prompt, reuse, hit, f) ==
  LET o == Opening(prompt, hit, f)
  IN  /\ cache' = o.cache
      /\ pub' = IF dmode = "off" THEN pub ELSE None
      /\ active' = [enabled |-> o.ok, aligned |-> o.ok, retain |-> reuse, qualified |-> FALSE,
                    width |-> ProbeDrafts, category |-> "none", ledger |-> o.ledger,
                    prompt |-> None, origin |-> o.origin, txn |-> None, baseline |-> 0,
                    credit |-> 0, losses |-> 0, misses |-> 0, resolved |-> None]

\* advance: the rows the target committed, one transaction.
Advanced(a, c, toks, f) ==
  CASE ~a.aligned -> [active |-> a, cache |-> c, ok |-> FALSE]
    [] a.aligned /\ Len(a.ledger) + Len(toks) > SafeContext ->
         [active |-> Disabled([a EXCEPT !.origin = None, !.prompt = None, !.ledger = <<>>], FALSE, "none"),
          cache |-> Reset(c, f).cache, ok |-> FALSE]
    [] OTHER ->
         IF ~Captures(c, f) \/ c.length # Len(a.ledger)
         THEN [active |-> Disabled(a, FALSE, "none"), cache |-> c, ok |-> FALSE]
         ELSE LET up == Appended(c, toks, f)
              IN  IF up.ok
                  THEN [active |-> [a EXCEPT !.ledger = @ \o toks], cache |-> up.cache, ok |-> TRUE]
                  ELSE [active |-> Disabled(a, FALSE, "none"),
                        cache |-> Restored(up.cache, c.rows, f).cache, ok |-> FALSE]

\* advance_dspark_rows: rows the provider did not capture end the drafting.
RowsCommitted(toks, f) ==
  LET r == IF How(f, "capture") = "ok" THEN Advanced(active, cache, toks, f)
           ELSE [active |-> active, cache |-> cache, ok |-> FALSE]
  IN  [r EXCEPT !.active = IF ~active.aligned \/ r.ok THEN @ ELSE Disabled(@, FALSE, "none")]

\* capture_prompt_boundary: taken only when the ledger is the prompt exactly.
PromptCaptured(a, prompt, f) ==
  CASE ~a.aligned -> a
    [] a.aligned /\ a.ledger = prompt /\ Captures(cache, f) ->
         [a EXCEPT !.prompt = [tokens |-> prompt, rows |-> cache.rows], !.origin = None]
    [] OTHER -> Disabled(a, FALSE, "none")

\* needs_target_baseline
NeedsBaseline(a) == dmode = "auto" /\ a.enabled /\ a.aligned /\ a.baseline = 0

\* record_target_baseline, one token long.
BaselineRecorded(a, seconds) == [a EXCEPT !.baseline = seconds]

\* The failed proposal keeps the state only when it could be put back.
ProposalFailed(a, c, f, category) ==
  LET r == Restored(c, a.ledger, f)
  IN  [active |-> Disabled(a, r.ok /\ a.retain, category), cache |-> r.cache]

\* propose: from a cache that ends just before the pending token.
Proposed(a, c, limit, drafts, f) ==
  LET width == IF limit < a.width THEN limit ELSE a.width
  IN  CASE c.length # Len(a.ledger) \/ ~Captures(c, f) ->
             [active |-> Disabled(a, FALSE, "none"), cache |-> c]
        [] c.length = Len(a.ledger) /\ Captures(c, f) /\ How(f, "propose") = "refused" ->
             ProposalFailed(a, c, f, "optional")
        [] c.length = Len(a.ledger) /\ Captures(c, f) /\ How(f, "propose") = "contract" ->
             ProposalFailed(a, c, f, "none")
        [] OTHER ->
             [active |-> [a EXCEPT !.txn = [drafts |-> SubSeq(drafts, 1, width), base |-> c.rows,
                                            pending |-> target.pending, probe |-> ~a.qualified]],
              cache |-> c]

\* abort_proposal: the base is put back.
Aborted(a, c, f) ==
  IF a.txn = None THEN [active |-> a, cache |-> c]
  ELSE LET r == Restored(c, a.txn.base, f)
           b == [a EXCEPT !.txn = None]
       IN  [active |-> IF r.ok THEN b ELSE Disabled(b, FALSE, b.category), cache |-> r.cache]

\* The window of recent acceptance: too low ends the drafting and is kept,
\* a window that passes is halved.
Fires(w) == TrailingPercent > 0 /\ w.drafted >= TrailingWindow
            /\ w.accepted * 100 < w.drafted * TrailingPercent

Decayed(w) == IF TrailingPercent > 0 /\ w.drafted >= TrailingWindow /\ ~Fires(w)
              THEN [drafted |-> w.drafted \div 2, accepted |-> w.accepted \div 2] ELSE w

Widened(n) == LET twice == IF 2 * n < DraftWidth THEN 2 * n ELSE DraftWidth
              IN  IF twice > ProbeDrafts THEN twice ELSE ProbeDrafts

\* The policy of resolve after `n` of the proposal's drafts were accepted.
Judged(a, n, total) ==
  CASE n = total ->
         LET q == a.qualified \/ (dmode # "auto" /\ total >= ProbeDrafts)
         IN  [a EXCEPT !.qualified = q, !.width = IF q THEN DraftWidth ELSE ProbeDrafts, !.misses = 0]
    [] n = 0 /\ n # total ->
         IF a.misses + 1 >= MissTolerance
         THEN Disabled([a EXCEPT !.misses = @ + 1], a.retain, "acceptance")
         ELSE [a EXCEPT !.misses = @ + 1, !.width = ProbeDrafts]
    [] OTHER -> [a EXCEPT !.width = Widened(n), !.misses = 0]

\* Mutant: the token still pending is entered too.
Bug_CommittedInputs(txn, emitted) == <<txn.pending>> \o emitted

\* The inputs whose rows a verified step committed: the last token emitted is
\* the next pending one and has no row yet.
CommittedInputs(txn, emitted) == <<txn.pending>> \o Front(emitted)

\* resolve: back to the base, then the rows the target committed, then policy.
Resolved(a, c, n, emitted, w, f) ==
  LET back == Restored(c, a.txn.base, f)
      b == [a EXCEPT !.txn = None]
      up == Advanced(b, back.cache, CommittedInputs(a.txn, emitted), f)
      grown == [drafted |-> w.drafted + Len(a.txn.drafts), accepted |-> w.accepted + n]
      kept == IF TrailingPercent = 0 THEN w ELSE grown
  IN  CASE ~back.ok -> [active |-> Disabled(b, FALSE, "none"), cache |-> back.cache, window |-> w]
        [] back.ok /\ ~up.ok -> [active |-> up.active, cache |-> up.cache, window |-> w]
        [] back.ok /\ up.ok /\ Fires(kept) ->
             [active |-> Disabled(up.active, a.retain, "acceptance"), cache |-> up.cache, window |-> kept]
        [] OTHER ->
             [active |-> Judged([up.active EXCEPT !.resolved =
                                   [n |-> n, emitted |-> Len(emitted), probe |-> a.txn.probe,
                                    full |-> n = Len(a.txn.drafts)]],
                                n, Len(a.txn.drafts)),
              cache |-> up.cache, window |-> Decayed(kept)]

\* Mutant: only two large losses in a row stop automatic drafting.
Bug_Timed(a, seconds) ==
  IF a.resolved = None THEN a
  ELSE LET credit == a.baseline * a.resolved.emitted - seconds
           b == [a EXCEPT !.resolved = None, !.credit = @ + credit,
                          !.losses = IF credit < -a.baseline THEN @ + 1 ELSE IF credit >= 0 THEN 0 ELSE @]
       IN  IF dmode = "auto" /\ b.losses >= 2 THEN Disabled(b, b.retain, "economics") ELSE b

\* record_verified_step: a full probe must beat the baseline by
\* min_auto_speedup (3%) to qualify; afterwards the balance must stay positive
\* and two passes in a row must not each lose more than one token's time.
Timed(a, seconds) ==
  IF a.resolved = None THEN a
  ELSE LET expected == a.baseline * a.resolved.emitted
           credit == IF a.baseline = 0 THEN 0 ELSE expected - seconds
           b == [a EXCEPT !.resolved = None, !.credit = @ + credit]
           losses == IF credit < -a.baseline THEN b.losses + 1 ELSE IF credit >= 0 THEN 0 ELSE b.losses
       IN  CASE dmode # "auto" \/ ~b.enabled -> b
             [] dmode = "auto" /\ b.enabled /\ a.baseline = 0 -> Disabled(b, b.retain, "economics")
             [] dmode = "auto" /\ b.enabled /\ a.baseline # 0
                /\ a.resolved.probe /\ a.resolved.full /\ ~b.qualified ->
                  IF 100 * credit >= 3 * expected
                  THEN [b EXCEPT !.qualified = TRUE, !.width = DraftWidth]
                  ELSE Disabled(b, b.retain, "economics")
             [] OTHER ->
                  IF b.credit < 0 \/ losses >= 2
                  THEN Disabled([b EXCEPT !.losses = losses], b.retain, "economics")
                  ELSE [b EXCEPT !.losses = losses]

\* A boundary that cannot be staged leaves the state unaligned, unless there
\* was no prompt boundary to fall back on.
Unstaged(a, final) == IF final \/ a.prompt # None THEN Disabled(a, FALSE, "none") ELSE a

\* stage_final_boundary and commit_staged: the boundary of the whole request.
FinalStaged(a, tokens, f) ==
  IF a.aligned /\ a.ledger = tokens /\ Captures(cache, f) /\ cache.length = Len(tokens)
  THEN [tokens |-> tokens, rows |-> cache.rows] ELSE None

\* Mutant: the prompt is staged with the state of the moment.
Bug_PromptStaged(a, f) ==
  IF a.prompt = None THEN None ELSE [tokens |-> a.prompt.tokens, rows |-> cache.rows]

\* stage_prompt_fallback: back to the prompt.
PromptStaged(a, f) ==
  IF a.prompt = None \/ ~Restored(cache, a.prompt.rows, f).ok THEN None ELSE a.prompt

\* abort_request: the proposal is undone and the state the request found, or
\* its prompt, is put back as far as that is possible.
RequestAborted(request, c, f) ==
  LET undone == Aborted(request, c, f)
      a == undone.active
      back == IF a.prompt # None THEN a.prompt.rows ELSE IF a.origin # None THEN a.origin.rows ELSE <<>>
  IN  IF a.aligned /\ (a.prompt # None \/ a.origin # None)
      THEN Restored(undone.cache, back, f).cache ELSE undone.cache

----------------------------------------------------------------------------
(* The engine's decode loop.                                               *)

DInit ==
  /\ dmode \in Modes
  /\ cache = [rows |-> <<>>, length |-> 0, stale |-> FALSE]
  /\ active = None /\ pub = None
  /\ target = [phase |-> "idle", prompt |-> <<>>, committed |-> <<>>, pending |-> 0,
               boundary |-> None, nextId |-> 1, requests |-> 0]
  /\ window = [drafted |-> 0, accepted |-> 0]
  /\ dfaults = 0

Met(f) == dfaults' = IF f = Sound THEN dfaults ELSE dfaults + 1

\* begin_target_reuse_request and begin_request: the target resumes from its
\* published boundary when the prompt extends it, or starts afresh.
BeginDraft(prompt, reuse, hit, f) ==
  /\ target.phase = "idle" /\ target.requests < MaxDraftRequests
  /\ hit => /\ reuse /\ target.boundary # None
            /\ Prefixed(target.boundary.tokens, prompt) /\ Len(prompt) > Len(target.boundary.tokens)
  /\ BeginDraftRequest(prompt, reuse, hit, f)
  /\ target' = [target EXCEPT !.phase = "prefill", !.prompt = prompt, !.requests = @ + 1,
                              !.committed = IF hit THEN target.boundary.tokens ELSE <<>>,
                              !.boundary = IF hit THEN @ ELSE None]
  /\ Met(f) /\ UNCHANGED <<dmode, window>>

\* A raw completion in automatic mode: the drafter is not asked, the target
\* starts afresh and forgets its boundary, the draft's boundary stays behind.
RawRequest ==
  /\ target.phase = "idle" /\ target.requests < MaxDraftRequests /\ dmode = "auto"
  /\ target' = [target EXCEPT !.boundary = None, !.requests = @ + 1]
  /\ UNCHANGED <<dmode, cache, active, pub, window, dfaults>>

\* One bounded prompt chunk.
Prefill(n, f) ==
  /\ target.phase = "prefill" /\ target.committed # target.prompt
  /\ Len(target.committed) + n <= Len(target.prompt)
  /\ LET chunk == SubSeq(target.prompt, Len(target.committed) + 1, Len(target.committed) + n)
         r == RowsCommitted(chunk, f)
     IN  /\ cache' = r.cache /\ active' = r.active
         /\ target' = [target EXCEPT !.committed = @ \o chunk]
  /\ Met(f) /\ UNCHANGED <<dmode, pub, window>>

\* The prompt is committed: its boundary, and the target's first token.
Prompted(t, f) ==
  /\ target.phase = "prefill" /\ target.committed = target.prompt
  /\ active' = PromptCaptured(active, target.prompt, f)
  /\ target' = [target EXCEPT !.phase = "decode", !.pending = t]
  /\ Met(f) /\ UNCHANGED <<dmode, cache, pub, window>>

\* A transaction without a DSpark proposal: the pending token and, when another
\* drafter's proposals were verified, the accepted ones after it.
Step(extra, t, seconds, f) ==
  /\ target.phase = "decode" /\ active.txn = None
  /\ NeedsBaseline(active) => extra = <<>>
  /\ Len(target.committed) + Len(extra) < MaxTarget
  /\ LET r == RowsCommitted(<<target.pending>> \o extra, f)
     IN  /\ cache' = r.cache
         /\ active' = IF NeedsBaseline(active) THEN BaselineRecorded(r.active, seconds) ELSE r.active
  /\ target' = [target EXCEPT !.committed = @ \o <<target.pending>> \o extra, !.pending = t]
  /\ Met(f) /\ UNCHANGED <<dmode, pub, window>>

Propose(limit, drafts, f) ==
  /\ target.phase = "decode" /\ active.txn = None
  /\ active.enabled /\ active.aligned /\ ~NeedsBaseline(active)
  /\ Len(target.committed) + limit < MaxTarget
  /\ LET r == Proposed(active, cache, limit, drafts, f)
     IN  active' = r.active /\ cache' = r.cache
  /\ Met(f) /\ UNCHANGED <<dmode, pub, target, window>>

\* The verifier's memory was refused.
RefuseProposal(f) ==
  /\ target.phase = "decode" /\ active.txn # None
  /\ LET r == Aborted(active, cache, f) IN active' = r.active /\ cache' = r.cache
  /\ Met(f) /\ UNCHANGED <<dmode, pub, target, window>>

\* The target accepted n drafts and wrote one token of its own, unless it
\* stopped at the last accepted one.
Resolve(n, own, seconds, f) ==
  /\ target.phase = "decode" /\ active.txn # None
  /\ n <= Len(active.txn.drafts)
  /\ n > 0 \/ own # <<>>
  /\ own # <<>> /\ n < Len(active.txn.drafts) => own[1] # active.txn.drafts[n + 1]
  /\ LET emitted == SubSeq(active.txn.drafts, 1, n) \o own
     IN  /\ IF How(f, "capture") = "ok"
            THEN LET r == Resolved(active, cache, n, emitted, window, f)
                 IN  cache' = r.cache /\ window' = r.window /\ active' = Timed(r.active, seconds)
            ELSE LET r == Aborted(active, cache, f)
                 IN  cache' = r.cache /\ window' = window /\ active' = Disabled(r.active, FALSE, "none")
         /\ target' = [target EXCEPT !.committed = @ \o <<target.pending>> \o Front(emitted),
                                     !.pending = Last(emitted)]
  /\ Met(f) /\ UNCHANGED <<dmode, pub>>

\* settle_target_publication: the target retains the whole request, or the
\* prompt, under a new identifier; the draft boundary is published with it or
\* the draft request is aborted.
SettleDraft(final, f) ==
  /\ target.phase = "decode" /\ active.retain /\ active.txn = None
  /\ LET kept == IF final THEN target.committed ELSE target.prompt
         staged == IF final THEN FinalStaged(active, kept, f) ELSE PromptStaged(active, f)
         tried == IF final \/ active.prompt = None THEN cache ELSE Restored(cache, active.prompt.rows, f).cache
     IN  /\ target' = [target EXCEPT !.phase = "idle", !.nextId = @ + 1,
                                     !.boundary = [tokens |-> kept, id |-> target.nextId]]
         /\ IF staged # None
            THEN /\ pub' = [tokens |-> staged.tokens, rows |-> staged.rows, id |-> target.nextId]
                 /\ cache' = tried
            ELSE pub' = pub /\ cache' = RequestAborted(Unstaged(active, final), tried, f)
  /\ active' = None
  /\ Met(f) /\ UNCHANGED <<dmode, window>>

\* finish_request of a request that retains nothing.
FinishDraft(f) ==
  /\ target.phase = "decode" /\ ~active.retain /\ active.txn = None
  /\ active' = None
  /\ target' = [target EXCEPT !.phase = "idle", !.boundary = None]
  /\ Met(f) /\ UNCHANGED <<dmode, cache, pub, window>>

\* An interruption or an error anywhere: abort_request, nothing is retained.
Interrupt(f) ==
  /\ target.phase \in {"prefill", "decode"}
  /\ cache' = RequestAborted(active, cache, f)
  /\ active' = None
  /\ target' = [target EXCEPT !.phase = "idle", !.boundary = None]
  /\ Met(f) /\ UNCHANGED <<dmode, pub, window>>

SeqsOf(n) == UNION {[1 .. k -> Tokens] : k \in 1 .. n}

DNext ==
  \/ RawRequest
  \/ \E f \in Faults :
       \/ \E p \in SeqsOf(MaxPrompt), r, h \in BOOLEAN : BeginDraft(p, r, h, f)
       \/ \E n \in 1 .. 2 : Prefill(n, f)
       \/ \E t \in Tokens : Prompted(t, f)
       \/ \E e \in {<<>>} \cup SeqsOf(1), t \in Tokens, s \in Times : Step(e, t, s, f)
       \/ \E l \in 1 .. DraftWidth, d \in [1 .. DraftWidth -> Tokens] : Propose(l, d, f)
       \/ RefuseProposal(f)
       \/ \E n \in 0 .. DraftWidth, o \in {<<>>} \cup SeqsOf(1), s \in Times : Resolve(n, o, s, f)
       \/ \E final \in BOOLEAN : SettleDraft(final, f)
       \/ FinishDraft(f)
       \/ Interrupt(f)

DSpec == DInit /\ [][DNext]_dvars

----------------------------------------------------------------------------

\* Every draft under verification was made from a cache holding exactly the
\* rows the target has committed, through reuse of earlier requests, aborted
\* proposals, and calls that failed or took effect unseen
\* (DSparkRuntime::advance, propose, resolve).
DraftsSeeCommittedRows ==
  (active # None /\ active.txn # None) => (cache.rows = target.committed /\ active.ledger = target.committed)

\* A published draft boundary restores the rows it is labelled with, and the
\* target boundary of the same identifier covers the same tokens
\* (stage_final_boundary, stage_prompt_fallback, commit_staged).
PublishedPairAgrees ==
  (pub # None) =>
    /\ pub.rows = pub.tokens
    /\ (target.boundary # None /\ target.boundary.id = pub.id) => target.boundary.tokens = pub.tokens

\* Automatic drafting that is still on has not cost more time, over all its
\* verified steps, than plain decoding would have (record_verified_step).
AutoDraftingPaysItsWay ==
  (dmode = "auto" /\ active # None /\ active.enabled) => active.credit >= 0

\* The three together: what is drafted from is the target's history, now and
\* after a resumption, and drafting is not a loss.
DraftsSeeTheTarget == DraftsSeeCommittedRows /\ PublishedPairAgrees /\ AutoDraftingPaysItsWay

=============================================================================
