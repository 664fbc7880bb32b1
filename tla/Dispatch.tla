-------------------------------- MODULE Dispatch --------------------------------
(***************************************************************************)
(* Which experts of a mixture run on which tokens (MixtureOfExperts of     *)
(* models/components.py). The router's probabilities come with the token;  *)
(* what the experts compute is left out: the output of a token is told by  *)
(* the experts whose weighted outputs are added up for it.                 *)
(***************************************************************************)
EXTENDS Schema

CONSTANT Scores   \* token -> the router's score of each expert, from 0 on; no ties

Experts(m) == 0..m.num_experts - 1

\* torch.topk over the probabilities of a token.
Chosen(m, token) ==
  {e \in Experts(m) :
     Cardinality({f \in Experts(m) : Scores[token][f] > Scores[token][e]})
       < m.num_experts_per_token}

\* The weight of an expert, renormalized over the chosen ones, in hundredths.
Share(m, token, e) ==
  (100 * Scores[token][e]) \div SumSet({Scores[token][f] : f \in Chosen(m, token)})

\* (token, expert) pairs sorted by expert; a token goes by its index.
Pairs(m, tokens) ==
  FlattenSeq([n \in 1..m.num_experts |->
    LET e == n - 1
    IN [k \in 1..Cardinality({i \in DOMAIN tokens : e \in Chosen(m, tokens[i])}) |->
          [expert |-> e,
           index |-> CHOOSE i \in DOMAIN tokens :
                       /\ e \in Chosen(m, tokens[i])
                       /\ k = Cardinality({j \in 1..i : e \in Chosen(m, tokens[j])})]]])

Count(pairs, e) == Cardinality({k \in DOMAIN pairs : pairs[k].expert = e})

\* The contiguous slice of an expert begins where those before it end.
SliceOf(pairs, e) ==
  LET start == Cardinality({k \in DOMAIN pairs : pairs[k].expert < e})
  IN {pairs[k].index : k \in start + 1..start + Count(pairs, e)}

\* At most this many tokens for an expert; 0 is no limit. Rounded up.
Capacity(m, n) ==
  IF m.expert_capacity_factor = 0 THEN 0
  ELSE Max({1, (n * m.num_experts_per_token * m.expert_capacity_factor + 100 * m.num_experts - 1)
                 \div (100 * m.num_experts)})

\* What an expert may keep of its slice: the tokens of the greatest weights,
\* any of them where weights are equal.
Keeps(m, tokens, slice, e) ==
  LET most == Capacity(m, Len(tokens))
      share(i) == Share(m, tokens[i], e)
  IN IF most = 0 \/ Cardinality(slice) <= most THEN {slice}
     ELSE {kept \in kSubset(most, slice) :
             \A i \in kept, j \in slice \ kept : share(i) >= share(j)}

Times(m, experts) == [e \in Experts(m) |-> IF e \in experts THEN 1 ELSE 0]

\* local_forward on each rank of an expert group of `ranks`, summed: how often
\* the output of each expert is added for each token. The reference kernel goes
\* token by token; without experts there is one feed-forward layer.
Dispatched(m, tokens, ranks) ==
  IF \/ m.num_experts = 1
     \/ m.kernel = "reference" /\ m.expert_capacity_factor = 0 /\ ranks = 1
  THEN {[i \in DOMAIN tokens |-> Times(m, Chosen(m, tokens[i]))]}
  ELSE LET mesh    == [data |-> ranks, tensor |-> 1, pipeline |-> 1, sequence |-> 1, expert |-> ranks]
           pairs   == Pairs(m, tokens)
           choices == UNION {{[expert |-> e, kept |-> kept] :
                                kept \in Keeps(m, tokens, SliceOf(pairs, e), e)} : e \in Experts(m)}
           ranksOf(e) == {r \in Ranks(mesh) : e \in ExpertsOf(mesh, Shape(m), r)}
           added(choice, i, e) ==
             Cardinality({r \in ranksOf(e) : \E c \in choice : c.expert = e /\ i \in c.kept})
       IN {[i \in DOMAIN tokens |-> [e \in Experts(m) |-> added(choice, i, e)]] :
             choice \in {choice \in kSubset(m.num_experts, choices) :
                           {c.expert : c \in choice} = Experts(m)}}
================================================================================
