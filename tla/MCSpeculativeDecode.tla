------------------------ MODULE MCSpeculativeDecode ------------------------
(***************************************************************************)
(* Decoding after a prompt of one token: max_new is reached before the      *)
(* context is full, with it, or never.  Of the targets, TLC tries all       *)
(* those whose prediction depends on the position and the last token of     *)
(* the context; that a tape of the right length and last token is right     *)
(* throughout is OneTokenLag.                                               *)
(***************************************************************************)
EXTENDS SpeculativeDecode

MCPrompt == <<1>>

Seen(context) == <<Len(context), context[Len(context)]>>
Targets == {[c \in Contexts |-> m[Seen(c)]] : m \in [{Seen(c) : c \in Contexts} -> Tokens]}

MCInit == k3 \in Targets /\ Init
MCSpec == MCInit /\ [][Next]_vars
=============================================================================
