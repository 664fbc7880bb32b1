---------------------------- MODULE GreedyDecoding ----------------------------
(***************************************************************************)
(* What a greedy decode of one request produces: the token loop of         *)
(* Generator._stream (src/src/fontaine/inference/engine.py) at temperature *)
(* 0, one token per step, up to the EOS token or the token budget.         *)
(*                                                                         *)
(* Greedy choices depend on the tokens so far only, so the answers of the  *)
(* model along its own output are one sequence: `target`.                  *)
(***************************************************************************)
EXTENDS Integers, Sequences

CONSTANTS
  Tokens,   \* the vocabulary without EOS
  Eos,      \* tokenizer.eos_id
  MaxNew    \* sampling.max_new_tokens, after fit_context

VARIABLES
  target,   \* position -> the model's choice after the positions before it
  text,     \* generated
  done      \* the loop has ended

vars == <<target, text, done>>

Init ==
  /\ target \in [1..MaxNew -> Tokens \cup {Eos}]
  /\ text = <<>>
  /\ done = FALSE

\* A token is sampled and kept.
Emit ==
  /\ ~done
  /\ Len(text) < MaxNew
  /\ target[Len(text) + 1] # Eos
  /\ text' = Append(text, target[Len(text) + 1])
  /\ UNCHANGED <<target, done>>

\* The budget is spent or EOS is sampled.
Stop ==
  /\ ~done
  /\ Len(text) < MaxNew => target[Len(text) + 1] = Eos
  /\ done' = TRUE
  /\ UNCHANGED <<target, text>>

Next == Emit \/ Stop

Spec == Init /\ [][Next]_vars
===============================================================================
