---------------------------- MODULE GreedyDecode ----------------------------
(***************************************************************************)
(* What decoding promises whatever drafts are tried: the tokens a request   *)
(* emits are the ones the full target would choose one at a time, and they  *)
(* end where it would end.  A step may emit several of them.                *)
(***************************************************************************)
EXTENDS Naturals, Sequences

CONSTANTS
  Eos,
  Prompt,        \* the tokens the request starts from
  MaxContext     \* most tokens of prompt and answer together

VARIABLES
  k3,            \* the target: its prediction for a context, unknown but fixed
  limit,         \* max_new of the request
  history,       \* prompt and emitted tokens
  stopped        \* why the request ended, or "none"

vars == <<k3, limit, history, stopped>>

\* Why a request that has come to h ends there.
StopOf(h) ==
  IF h[Len(h)] = Eos THEN "eos"
  ELSE IF Len(h) = MaxContext THEN "full"
  ELSE IF Len(h) - Len(Prompt) = limit THEN "limit" ELSE "none"

\* h2 continues h with the target's own choices, and not past a stop.
Continues(h, h2) ==
  /\ Len(h2) > Len(h)
  /\ SubSeq(h2, 1, Len(h)) = h
  /\ \A i \in Len(h) + 1 .. Len(h2) : h2[i] = k3[SubSeq(h2, 1, i - 1)]
  /\ \A i \in Len(h) + 1 .. Len(h2) - 1 : StopOf(SubSeq(h2, 1, i)) = "none"

Init == history = Prompt /\ stopped = "none"

Emit ==
  /\ stopped = "none"
  /\ Continues(history, history')
  /\ stopped' \in {StopOf(history'), "interrupted", "failed"}
  /\ UNCHANGED <<k3, limit>>

GiveUp ==
  /\ stopped = "none"
  /\ stopped' \in {"interrupted", "failed"}
  /\ UNCHANGED <<k3, limit, history>>

Spec == Init /\ [][Emit \/ GiveUp]_vars
=============================================================================
