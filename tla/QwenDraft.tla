------------------------------ MODULE QwenDraft ------------------------------
(***************************************************************************)
(* The optional Qwen drafters: QwenRuntime and QwenRequestPolicy of        *)
(* engine.rs over the text-translating controller of qwen_draft.rs.        *)
(*                                                                         *)
(* A 0.6B probe proposes; when it is not confident over the whole width,   *)
(* its unconfident suffix may be submitted anyway (the raw override) or a  *)
(* 1.7B model, loaded on first need, is asked.  A request policy sets the  *)
(* width from what the target accepts, switches the drafter off, and, if   *)
(* so configured, on again after a while.  Any error of a drafter is soft: *)
(* it disables that drafter.  A proposal is the number of its confident    *)
(* and of its raw tokens: what the tokens are is the verifier's concern    *)
(* (SpeculativeDecode).                                                    *)
(***************************************************************************)
EXTENDS Naturals

CONSTANTS
  DraftMaximum,   \* speculative_max_drafts, at most MAX_EXACT_DRAFTS
  RearmAfter,     \* K3_QWEN_REARM
  RearmBar,       \* K3_QWEN_REARM_MIN_ACCEPT, permille
  RearmProbe,     \* K3_QWEN_REARM_PROBE
  SpecPercent,    \* K3_SPEC_MIN_TRAILING_ACCEPT, 0 when unset
  SpecWindow,     \* 32 drafted tokens
  MaxQwenSteps    \* bound: decode steps

ASSUME QwenAssumption ==
  /\ DraftMaximum \in Nat /\ RearmAfter \in Nat /\ RearmBar \in Nat /\ RearmProbe \in Nat
  /\ SpecPercent \in Nat /\ SpecWindow \in Nat /\ MaxQwenSteps \in Nat

VARIABLES
  qenv,    \* K3_QWEN_ADAPTIVE, K3_QWEN_RAW_OVERRIDE=0
  qwen,    \* QwenRuntime
  policy,  \* QwenRequestPolicy
  trail,   \* spec_trailing_drafted, spec_trailing_accepted
  draft,   \* the proposal under verification, or none
  qsteps,  \* decode steps so far
  idle     \* ticks since the policy was switched off (history)

qvars == <<qenv, qwen, policy, trail, draft, qsteps, idle>>

Lesser(a, b) == IF a < b THEN a ELSE b
Greater(a, b) == IF a > b THEN a ELSE b

ProbeWidth == Lesser(DraftMaximum, 2)
NoDraft == [n |-> 0, override |-> FALSE]

----------------------------------------------------------------------------
(* QwenRequestPolicy.                                                      *)

\* new
NewPolicy(available, adaptive) ==
  [active |-> available /\ ProbeWidth # 0, available |-> available /\ ProbeWidth # 0,
   adaptive |-> adaptive, qualified |-> FALSE, misses |-> 0, width |-> ProbeWidth,
   cooldown |-> 0, ewma |-> 1000, refusals |-> 0]

\* adaptive_width: the maximum scaled by recent acceptance, rounded.
AdaptiveWidth(p) ==
  Lesser(DraftMaximum, Greater(ProbeWidth, (DraftMaximum * p.ewma + 500) \div 1000))

Deactivated(p) == [p EXCEPT !.active = FALSE, !.cooldown = RearmAfter]

\* Mutant: a refused re-arm is not counted.
Bug_Ticked(p) ==
  IF p.active \/ RearmAfter = 0 \/ ~p.available THEN p
  ELSE LET cooled == IF p.cooldown = 0 THEN 0 ELSE p.cooldown - 1
           refused == p.ewma < RearmBar
       IN  IF cooled # 0 THEN [p EXCEPT !.cooldown = cooled]
           ELSE IF refused THEN [p EXCEPT !.cooldown = RearmAfter]
           ELSE [p EXCEPT !.cooldown = 0, !.active = TRUE, !.qualified = FALSE, !.misses = 0,
                          !.width = ProbeWidth, !.refusals = 0]

\* tick: the cooldown runs out; the acceptance bar may refuse the re-arm, but
\* not RearmProbe times in a row.
Ticked(p) ==
  IF p.active \/ RearmAfter = 0 \/ ~p.available THEN p
  ELSE LET cooled == IF p.cooldown = 0 THEN 0 ELSE p.cooldown - 1
           refused == p.ewma < RearmBar
           refusals == p.refusals + 1
       IN  CASE cooled # 0 -> [p EXCEPT !.cooldown = cooled]
             [] cooled = 0 /\ refused /\ (RearmProbe = 0 \/ refusals < RearmProbe) ->
                  [p EXCEPT !.cooldown = RearmAfter, !.refusals = Lesser(refusals, RearmProbe)]
             [] OTHER ->
                  [p EXCEPT !.cooldown = 0, !.refusals = 0, !.active = TRUE, !.qualified = FALSE,
                            !.misses = 0, !.width = ProbeWidth,
                            !.ewma = IF refused THEN RearmBar ELSE @]

\* proposal_width
ProposalWidth(p, budget) == IF p.active THEN Lesser(p.width, budget) ELSE 0

\* record_empty: only a confidence stop keeps the drafter on.
EmptyRecorded(p, stopped) == IF stopped THEN p ELSE Deactivated(p)

\* record_verified: `a` of the `n` proposed were accepted.
VerifiedRecorded(p, a, n) ==
  LET misses == IF a = 0 THEN p.misses + 1 ELSE 0
      m == [p EXCEPT !.misses = Lesser(misses, 2),
                     !.ewma = (2 * ((a * 1000) \div n) + 3 * @) \div 5]
      doubled == Greater(ProbeWidth, Lesser(DraftMaximum, 2 * a))
  IN  CASE ~p.active \/ n = 0 -> p
        [] p.active /\ n # 0 /\ p.adaptive ->
             IF a = 0 /\ (~p.qualified \/ misses >= 2) THEN Deactivated(m)
             ELSE [m EXCEPT !.qualified = TRUE, !.width = AdaptiveWidth(m)]
        [] p.active /\ n # 0 /\ ~p.adaptive /\ ~p.qualified ->
             IF a = n /\ a >= 2 THEN [m EXCEPT !.qualified = TRUE, !.width = DraftMaximum]
             ELSE IF a = 0 THEN Deactivated(m) ELSE [m EXCEPT !.width = ProbeWidth]
        [] OTHER ->
             IF a = n THEN [m EXCEPT !.width = DraftMaximum]
             ELSE IF a = 0 THEN (IF misses >= 2 THEN Deactivated(m) ELSE [m EXCEPT !.width = ProbeWidth])
             ELSE [m EXCEPT !.width = doubled]

----------------------------------------------------------------------------
(* The drafters.  An answer is what one of them proposes for a width:      *)
(* confident tokens, raw tokens, whether confidence stopped it.            *)

Failure == [kind |-> "error", n |-> 0, raw |-> 0, stopped |-> FALSE]

\* translate_once and propose_with_outcome: the raw tokens are at least the
\* confident ones, and all of them when no confidence test is made (two tokens
\* or fewer).  A history that does not survive translation, a generation past
\* the admitted context or a bad report is an error; where it is configured so,
\* the first is an empty answer.
Answers(width) ==
  {Failure} \cup
  {[kind |-> "ok", n |-> nr[1], raw |-> nr[2], stopped |-> nr[1] < nr[2]] :
     nr \in {x \in (0 .. width) \X (0 .. width) : x[1] <= x[2] /\ (width <= 2 => x[1] = x[2])}}

\* FailSoftQwenDraft disables itself at the first error, fail_soft follows.
FailedSoft(q) == [q EXCEPT !.source = "failed", !.wide = "none", !.last = FALSE, !.submitted = 0]

\* select_adaptive_qwen_probe: the probe's unconfident suffix is submitted when
\* it reaches the full width behind enough confident tokens.
RawOverride(a, width, allowed) == allowed /\ a.raw = width /\ a.n >= Lesser(3, width)

\* select_hybrid_qwen_proposal: both agree on the whole raw draft, the wide one
\* is clearly more confident, or the probe's stands.
Hybrid(r, a, w, width) ==
  {[qwen |-> [r EXCEPT !.submitted = x.n], n |-> x.n, override |-> FALSE, stopped |-> x.stopped] :
     x \in {a, w} \cup (IF a.raw = width /\ w.raw = width
                        THEN {[kind |-> "ok", n |-> width, raw |-> width, stopped |-> FALSE]} ELSE {})}

----------------------------------------------------------------------------

\* from_plan: the initial drafter is loaded or has failed.
QInit ==
  /\ qenv \in [adaptive : BOOLEAN, overrideOff : BOOLEAN]
  /\ qwen \in [source : {"none", "failed", "probe", "wide"}, lazy : BOOLEAN, wide : {"none"},
               allowed : {~qenv.overrideOff}, last : {FALSE}, submitted : {0}]
  /\ qwen.lazy => qwen.source \in {"probe", "failed"}
  /\ policy = NewPolicy(FALSE, qenv.adaptive)
  /\ trail = [drafted |-> 0, accepted |-> 0]
  /\ draft = NoDraft /\ qsteps = 0 /\ idle = 0

\* is_available, and begin_request with a fresh policy.
BeginRequest ==
  /\ draft = NoDraft /\ qsteps < MaxQwenSteps
  /\ policy' = NewPolicy(qwen.source \in {"probe", "wide"}, qenv.adaptive)
  /\ qwen' = [qwen EXCEPT !.allowed = TRUE, !.last = FALSE, !.submitted = 0]
  /\ qsteps' = qsteps + 1
  /\ idle' = 0
  /\ UNCHANGED <<qenv, trail, draft>>

\* spec_trailing_gate_blocked
Blocked ==
  SpecPercent > 0 /\ trail.drafted >= SpecWindow /\ trail.accepted * 100 < trail.drafted * SpecPercent

\* record_spec_trailing
TrailRecorded(t, n, a) ==
  LET s == [drafted |-> t.drafted + n, accepted |-> t.accepted + a]
      below == s.drafted >= SpecWindow /\ s.accepted * 100 < s.drafted * SpecPercent
  IN  CASE SpecPercent = 0 -> t
        [] SpecPercent # 0 /\ s.drafted >= SpecWindow /\ ~below ->
             [drafted |-> s.drafted \div 2, accepted |-> s.accepted \div 2]
        [] OTHER -> s

\* The outcomes of QwenRuntime::propose for a width: the runtime it leaves and
\* the number of tokens it submits.
Proposals(q, width) ==
  LET asked == [q EXCEPT !.last = FALSE, !.submitted = 0]
      give(r, n, over, stopped) ==
        [qwen |-> [r EXCEPT !.last = over, !.submitted = n], n |-> n, override |-> over, stopped |-> stopped]
      probe(r, a) == give(r, a.n, FALSE, a.stopped)
      widened(a) ==
        (IF q.wide = "none" THEN {probe([asked EXCEPT !.lazy = FALSE], a)} ELSE {})
        \cup UNION {IF w = Failure THEN {probe([asked EXCEPT !.wide = "none", !.lazy = FALSE], a)}
                    ELSE Hybrid([asked EXCEPT !.wide = "loaded"], a, w, width) : w \in Answers(width)}
      outcomes(a) ==
        CASE a = Failure -> {give(FailedSoft(asked), 0, FALSE, FALSE)}
          [] a # Failure /\ (width <= 2 \/ ~q.lazy \/ a.n = width) -> {probe(asked, a)}
          [] a # Failure /\ width > 2 /\ q.lazy /\ a.n # width /\ RawOverride(a, width, q.allowed) ->
               {give(asked, width, TRUE, FALSE)}
          [] OTHER -> widened(a)
  IN  IF q.source \in {"probe", "wide"} THEN UNION {outcomes(a) : a \in Answers(width)}
      ELSE {give(asked, 0, FALSE, FALSE)}

\* The drafting part of one decode step, when neither DSpark nor its baseline
\* nor the trailing gate takes it.
Draft(budget) ==
  /\ draft = NoDraft /\ ~Blocked /\ qsteps < MaxQwenSteps
  /\ LET p == Ticked(policy)
         width == ProposalWidth(p, budget)
     IN  IF width = 0
         THEN policy' = p /\ UNCHANGED <<qwen, draft>>
         ELSE \E g \in Proposals(qwen, width) :
                /\ qwen' = g.qwen
                /\ policy' = IF g.n = 0 THEN EmptyRecorded(p, g.stopped) ELSE p
                /\ draft' = IF g.n = 0 THEN NoDraft ELSE [n |-> g.n, override |-> g.override]
  /\ idle' = IF Ticked(policy).active THEN 0 ELSE idle + 1
  /\ qsteps' = qsteps + 1
  /\ UNCHANGED <<qenv, trail>>

\* The verified width: the drafts up to an end-of-sequence token, of which the
\* target accepted a.
Verify(n, a) ==
  /\ draft # NoDraft /\ n <= draft.n /\ a <= n
  /\ qwen' = [qwen EXCEPT !.allowed = @ /\ ~(qwen.last /\ a < qwen.submitted),
                          !.last = FALSE, !.submitted = 0]
  /\ policy' = VerifiedRecorded(policy, a, n)
  /\ trail' = TrailRecorded(trail, n, a)
  /\ draft' = NoDraft
  /\ idle' = 0
  /\ UNCHANGED <<qenv, qsteps>>

\* The verifier's memory was refused, or the request ends: the proposal goes.
Refuse ==
  /\ draft # NoDraft
  /\ draft' = NoDraft
  /\ UNCHANGED <<qenv, qwen, policy, trail, qsteps, idle>>

QNext ==
  \/ BeginRequest
  \/ \E b \in 1 .. DraftMaximum : Draft(b)
  \/ \E n \in 1 .. DraftMaximum, a \in 0 .. DraftMaximum : Verify(n, a)
  \/ Refuse

QSpec == QInit /\ [][QNext]_qvars

----------------------------------------------------------------------------

\* A drafter the policy switched off comes back: with a probe re-arm configured
\* no refusal by the acceptance bar keeps it off for more than RearmProbe
\* cooldowns (QwenRequestPolicy::tick).
QwenComesBack ==
  (RearmAfter > 0 /\ RearmProbe > 0 /\ policy.available) => idle <= RearmAfter * RearmProbe

\* engine.rs:603 "K3_QWEN_RAW_OVERRIDE=0: never submit the probe's unconfident
\* raw candidate".  begin_request allows it again for every request.
DisabledOverrideStaysOff == qenv.overrideOff => ~draft.override

=============================================================================
