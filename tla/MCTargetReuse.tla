---------------------------- MODULE MCTargetReuse ----------------------------
(* Prompts for TLC over the tokens 1 and Eos = 0: conversations that extend,  *)
(* diverge from, truncate or repeat one another, one that fills the context,  *)
(* one that exceeds it and the empty one.                                     *)
EXTENDS TargetReuse

MCPrompts ==
  {<<>>, <<1>>, <<1, 1>>, <<1, 1, 0>>, <<1, 1, 1>>, <<1, 1, 0, 1>>, <<1, 1, 1, 1>>,
   <<1, 0, 1, 1>>, <<1, 1, 0, 1, 1>>, <<1, 1, 1, 1, 1, 1>>}
=============================================================================
