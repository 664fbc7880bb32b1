--------------------------------- MODULE Batching ---------------------------------
(***************************************************************************)
(* ContinuousBatcher (inference/batching.py): requests join between two    *)
(* steps; a step gives every active request one token, each through a      *)
(* cache of its own, and tells which have finished.                        *)
(*                                                                         *)
(* A forward pass may raise before its cache advances: a text beyond the   *)
(* window always does, and memory may run out. The sampler may raise after  *)
(* it has. The caller then goes on with its next step.                     *)
(***************************************************************************)
EXTENDS Sampling

CONSTANTS
  Vocabulary,
  Score(_, _),    \* the model: a text and a token -> the logit of that token
  Eos,            \* eos_id
  Samplings,      \* configurations of the sampler
  Prompts, Budgets,
  Window,         \* config.max_sequence_length
  MaxRequests     \* bound

ASSUME RequestsAssumption ==
  Prompts \subseteq Seq(Vocabulary) \ {<<>>} /\ Budgets \subseteq Int

\* The logits of the next token.
Logits(text) == [t \in Vocabulary |-> Score(text, t)]

VARIABLES
  sampling,
  requests,   \* of each request: prompt, max_new, generated and done
  caches,     \* of each request: the tokens its cache has advanced over
  index,      \* of step(): the request it is at, 0 between steps
  finished,   \* of step(): its list
  told,       \* what steps returned
  ahead       \* the requests whose sampler has raised: their cache has what
              \* is fed to them again

batchVars == <<sampling, requests, caches, index, finished, told, ahead>>

BatchInit ==
  /\ sampling \in Samplings
  /\ requests = <<>>
  /\ caches = <<>>
  /\ index = 0
  /\ finished = {}
  /\ told = {}
  /\ ahead = {}

Add ==
  /\ index = 0
  /\ Len(requests) < MaxRequests
  /\ \E prompt \in Prompts, max_new \in Budgets :
       requests' = Append(requests, [token_ids |-> prompt, max_new |-> max_new,
                                     generated |-> <<>>, done |-> FALSE])
  /\ caches' = Append(caches, <<>>)
  /\ UNCHANGED <<sampling, index, finished, told, ahead>>

Step ==
  /\ index = 0
  /\ requests # <<>>
  /\ index' = 1
  /\ finished' = {}
  /\ UNCHANGED <<sampling, requests, caches, told, ahead>>

At == requests[index]
InLoop == index \in DOMAIN requests

Skip ==
  /\ InLoop /\ At.done
  /\ index' = index + 1
  /\ UNCHANGED <<sampling, requests, caches, finished, told, ahead>>

\* Mutant: the text so far goes in again with every step.
Fed_WholeText(request) == request.token_ids \o request.generated

\* The prompt at first, then the last token.
Fed(request) ==
  IF request.generated = <<>> THEN request.token_ids ELSE <<Last(request.generated)>>

Fits(request, cache) == Len(cache) + Len(Fed(request)) <= Window

Decode ==
  /\ InLoop /\ ~At.done /\ Fits(At, caches[index])
  /\ LET text == caches[index] \o Fed(At)
     IN /\ caches' = [caches EXCEPT ![index] = text]
        /\ \E nxt \in Candidates(Logits(text), sampling, At.generated) :
             LET generated == IF nxt = Eos THEN At.generated ELSE Append(At.generated, nxt)
                 done == nxt = Eos \/ Len(At.generated) + 1 >= At.max_new
             IN /\ requests' = [requests EXCEPT ![index] =
                                   [token_ids |-> At.token_ids, max_new |-> At.max_new,
                                    generated |-> generated, done |-> done]]
                /\ finished' = IF done THEN finished \cup {<<index, generated>>} ELSE finished
  /\ index' = index + 1
  /\ UNCHANGED <<sampling, told, ahead>>

\* The pass of a request raises, and step() with it: its list is lost.
PassRaises ==
  /\ InLoop /\ ~At.done
  /\ index' = 0
  /\ finished' = {}
  /\ UNCHANGED <<sampling, requests, caches, told, ahead>>

\* sample_token raises: the cache has advanced over tokens whose successor the
\* request will ask for again.
SamplerRaises ==
  /\ InLoop /\ ~At.done /\ Fits(At, caches[index])
  /\ caches' = [caches EXCEPT ![index] = @ \o Fed(At)]
  /\ ahead' = ahead \cup {index}
  /\ index' = 0
  /\ finished' = {}
  /\ UNCHANGED <<sampling, requests, told>>

StepReturns ==
  /\ index > Len(requests)
  /\ told' = told \cup finished
  /\ index' = 0
  /\ finished' = {}
  /\ UNCHANGED <<sampling, requests, caches, ahead>>

BatchNext == Add \/ Step \/ Skip \/ Decode \/ PassRaises \/ SamplerRaises \/ StepReturns

BatchSpec == BatchInit /\ [][BatchNext]_batchVars

-----------------------------------------------------------------------------
(* Properties.                                                             *)

\* Whoever joins, finishes or fails beside it, and in whatever step, a request
\* gets the text it could have got alone: every token is one the sampler may
\* draw after prompt and text so far, it ends with its budget or where EOS may
\* be drawn, and what a step tells of it is that text. Only a request whose own
\* sampler has raised goes on with a text that has some tokens twice.
EachAsAlone ==
  /\ \A i \in DOMAIN requests \ ahead :
       LET r == requests[i]
           upTo(k) == SubSeq(r.generated, 1, k)
           next(k) == Candidates(Logits(r.token_ids \o upTo(k)), sampling, upTo(k))
       IN /\ \A k \in DOMAIN r.generated : r.generated[k] \in next(k - 1) \ {Eos}
          /\ r.done => \/ Len(r.generated) = Max({1, r.max_new})
                       \/ Eos \in next(Len(r.generated))
          /\ ~r.done => Len(r.generated) < Max({1, r.max_new})
  /\ \A end \in told \cup finished :
       requests[end[1]].done /\ requests[end[1]].generated = end[2]
================================================================================
