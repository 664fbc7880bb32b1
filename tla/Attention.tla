-------------------------------- MODULE Attention --------------------------------
(***************************************************************************)
(* Which positions a query attends to (models/attention.py and             *)
(* CausalSelfAttention.forward of models/components.py): the mask of a     *)
(* layer, and when the layer does without one. Positions count from 0; the *)
(* scores, a softmax over what is visible, are left out.                   *)
(***************************************************************************)
EXTENDS Schema

\* attention_spec
AttentionSpec(m, layer) ==
  LET kind == LayerKind(m, layer)
  IN [kind |-> kind,
      window |-> IF kind = "sliding" THEN m.sliding_window
                 ELSE IF kind = "sparse" THEN Span(m) ELSE 0,
      pattern |-> m.sparse_pattern, block_size |-> m.sparse_block_size,
      stride |-> m.sparse_stride, global_tokens |-> m.sparse_global_tokens]

SparseVisible(spec, query, key) ==
  LET local == query - key < spec.window
      strided == Divides(spec.stride, query - key)
      glob == key < spec.global_tokens
  IN CASE spec.pattern = "local"        -> local
       [] spec.pattern = "block"        -> query \div spec.block_size = key \div spec.block_size
       [] spec.pattern = "strided"      -> local \/ strided
       [] spec.pattern = "global-local" -> local \/ glob
       [] spec.pattern = "hybrid"       -> local \/ strided \/ glob

\* build_position_mask
Visible(spec, query, key) ==
  /\ key <= query
  /\ spec.kind = "sliding" => key > query - spec.window
  /\ spec.kind = "sparse" => SparseVisible(spec, query, key)

\* Without CUDA the other backends run the same attention.
Backend(m) == IF m.attention_backend = "auto" THEN "optimized" ELSE m.attention_backend

\* Mutant: a pass is compared with the window by where it begins.
Windowed_ByOffset(spec, offset, length) ==
  spec.kind = "sparse" \/ (spec.kind = "sliding" /\ spec.window > 0 /\ offset > spec.window)

Windowed(spec, offset, length) ==
  \/ spec.kind = "sparse"
  \/ spec.kind = "sliding" /\ spec.window > 0 /\ offset + length > spec.window

\* Whether forward() builds a mask for the pass of `length` queries from
\* `offset`; documents is <<>> or the document of each position.
Masked(m, spec, offset, length, documents) ==
  \/ documents # <<>> \/ Backend(m) = "reference" \/ spec.kind = "sparse"
  \/ Windowed(spec, offset, length)
  \/ ~(offset = 0 \/ length = 1)

SameDocument(documents, query, key) ==
  documents # <<>> => documents[query + 1] = documents[key + 1]

\* The keys the i-th query of a pass attends to, of `keys` there are. Without a
\* mask the attention is causal from the first key on, or not restricted.
Attends(m, layer, offset, length, keys, documents, i) ==
  LET spec == AttentionSpec(m, layer)
  IN {key \in 0..keys - 1 :
        IF Masked(m, spec, offset, length, documents)
        THEN Visible(spec, offset + i, key) /\ SameDocument(documents, offset + i, key)
        ELSE offset = 0 => key <= i}
================================================================================
