-------------------------------- MODULE MCBatching --------------------------------
(* A model over four tokens whose choices depend on its whole text. *)
EXTENDS Batching

Place(text, k) == IF k = 0 THEN 0 ELSE k * (text[k] + 1)

MCScore(text, t) ==
  LET seed == MapThenSumSet(LAMBDA k : Place(text, k), DOMAIN text)
  IN 2 * (((seed * (t + 1) + t * t) % 5) - 2)

Knobs(temperature, top_k, top_p, penalty) ==
  [temperature |-> temperature, top_k |-> top_k, top_p |-> top_p, repetition_penalty |-> penalty]

MCSamplings ==
  {Knobs(0, 0, 100, 1), Knobs(0, 0, 100, 2), Knobs(1, 2, 100, 1), Knobs(1, 0, 60, 2), Knobs(1, 3, 50, 1)}

MCPrompts == {<<0>>, <<1, 2>>, <<2, 1, 2>>}
MCBudgets == {0, 1, 2, 3}
================================================================================
