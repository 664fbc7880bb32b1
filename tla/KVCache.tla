-------------------------------- MODULE KVCache --------------------------------
(***************************************************************************)
(* What a key/value cache promises to the forward pass of a model, whether *)
(* it is static, dynamic or paged (models/kv_cache.py, the docstring of    *)
(* KVCache): each layer gives the entries of the new positions and gets    *)
(* back the entries of all positions, past and present, in order.          *)
(*                                                                         *)
(* The entry of a position is told by the token there: layers never mix.   *)
(***************************************************************************)
EXTENDS Naturals, Sequences

CONSTANTS Vocabulary, NumLayers, Window, MaxChunk

VARIABLES
  text,     \* tokens of the forward passes that were completed
  chunk,    \* tokens of the pass under way, <<>> when there is none
  layer,    \* the next layer of that pass
  answer    \* what the last update() returned

vars == <<text, chunk, layer, answer>>

Chunks == UNION {[1..n -> Vocabulary] : n \in 1..MaxChunk}

Init ==
  /\ text = <<>>
  /\ chunk = <<>>
  /\ layer = 0
  /\ answer = <<>>

Begin ==
  /\ chunk = <<>>
  /\ chunk' \in {c \in Chunks : Len(text) + Len(c) <= Window}
  /\ UNCHANGED <<text, layer, answer>>

Update ==
  /\ chunk # <<>>
  /\ layer < NumLayers
  /\ answer' = text \o chunk
  /\ layer' = layer + 1
  /\ UNCHANGED <<text, chunk>>

Advance ==
  /\ chunk # <<>>
  /\ layer = NumLayers
  /\ text' = text \o chunk
  /\ chunk' = <<>>
  /\ layer' = 0
  /\ UNCHANGED answer

\* A pass that raises leaves the past as it was.
Abort ==
  /\ chunk # <<>>
  /\ chunk' = <<>>
  /\ layer' = 0
  /\ UNCHANGED <<text, answer>>

Reset ==
  /\ chunk = <<>>
  /\ text' = <<>>
  /\ UNCHANGED <<chunk, layer, answer>>

Next == Begin \/ Update \/ Advance \/ Abort \/ Reset

Spec == Init /\ [][Next]_vars
================================================================================
