--------------------------------- MODULE Sampling ---------------------------------
(***************************************************************************)
(* sample_token (generation/sampling.py): which tokens may be drawn.       *)
(* Logits are integers to the base 2; a vocabulary is 0..n - 1; top_p is in *)
(* hundredths, temperature is 0 or one that leaves the logits as they are. *)
(***************************************************************************)
EXTENDS Integers, Sequences, SequencesExt, FiniteSets, FiniteSetsExt

\* apply_repetition_penalty
Penalized(logits, generated, penalty) ==
  [t \in DOMAIN logits |->
     IF t \notin ToSet(generated) THEN logits[t]
     ELSE IF logits[t] < 0 THEN logits[t] * penalty ELSE logits[t] \div penalty]

\* apply_top_k: what is as good as the k-th best stays too.
TopK(logits, k) ==
  IF k <= 0 \/ k >= Cardinality(DOMAIN logits) THEN DOMAIN logits
  ELSE {t \in DOMAIN logits : Cardinality({u \in DOMAIN logits : logits[u] > logits[t]}) < k}

\* softmax, up to a factor.
Mass(logits, tokens) ==
  LET least == Min({logits[t] : t \in DOMAIN logits})
  IN MapThenSumSet(LAMBDA t : 2 ^ (logits[t] - least), tokens)

\* Sorted downwards, equal ones by their id.
Before(logits, kept, t) ==
  {u \in kept : logits[u] > logits[t] \/ (logits[u] = logits[t] /\ u < t)}

\* apply_top_p: a token goes when those before it have more than top_p already.
TopP(logits, kept, top_p) ==
  IF top_p >= 100 THEN kept
  ELSE {t \in kept : LET before == Before(logits, kept, t)
                     IN before = {} \/ 100 * Mass(logits, before) <= top_p * Mass(logits, kept)}

\* The tokens sample_token may return.
Candidates(logits, config, generated) ==
  LET scores == Penalized(logits, generated, config.repetition_penalty)
  IN IF config.temperature = 0
     THEN {t \in DOMAIN scores : \A u \in DOMAIN scores : scores[u] <= scores[t]}
     ELSE TopP(scores, TopK(scores, config.top_k), config.top_p)
================================================================================
