--------------------------- MODULE MCExpertCache ---------------------------
(* Model-checking instance of ExpertCache.                                   *)
EXTENDS ExpertCache

\* One process per combination of switches.
Off == [intoSlot |-> FALSE, dropLosers |-> FALSE, model |-> FALSE, preload |-> FALSE,
        topup |-> FALSE, early |-> FALSE, prefill |-> FALSE, fanout |-> FALSE,
        retain |-> FALSE, arena |-> 1]
MCConfigs ==
  {[Off EXCEPT !.retain = TRUE], [Off EXCEPT !.preload = TRUE],
   [Off EXCEPT !.model = TRUE, !.fanout = TRUE],
   [Off EXCEPT !.topup = TRUE, !.early = TRUE, !.arena = 2],
   [Off EXCEPT !.prefill = TRUE],
   [Off EXCEPT !.intoSlot = TRUE, !.dropLosers = TRUE]}
MCExperts == {1, 2}
MCFaults == [p \in 0..2 |-> 1]

\* With reads straight into the slots, the first pass routes expert 1 of every
\* layer, and its reads succeed.
Quick == cfg.intoSlot /\ eng'.pass < MaxPasses
MCNext ==
  /\ ENext
  /\ Quick => faults' = faults /\ tile'.todo \subseteq {1} /\ eng'.tiles \in {<<>>, <<{1}>>}

MCSpec == EInit /\ [][MCNext]_evars
=============================================================================
