--------------------------------- MODULE Forward ---------------------------------
(***************************************************************************)
(* The forward pass of a model (models/transformer.py): each block attends *)
(* with what its cache answers and sends its positions to their experts.   *)
(* A text goes in as a row of training, alone or packed with others, or    *)
(* chunk by chunk through a key/value cache.                               *)
(*                                                                         *)
(* What a block makes of a position is told by its ingredients: the places *)
(* and tokens it attends to and the experts that run for it.               *)
(***************************************************************************)
EXTENDS CacheStorage, Attention, Dispatch

CONSTANTS Models, MaxRanks   \* MaxRanks: bound on an expert group

ASSUME ModelsAssumption ==
  \A m \in Models : ModelFits(m) /\ m.num_layers = NumLayers /\ m.max_sequence_length = Window

ASSUME RanksAssumption == MaxRanks \in Nat

VARIABLES
  model,
  fed,     \* tokens of the completed passes through the cache
  block    \* what the last block of the pass under way was given, and what it
           \* made of its positions

fvars == <<storageVars, model, fed, block>>

None == [layer |-> 0, row |-> <<>>, documents |-> <<>>, from |-> 0, made |-> <<>>]

ForwardInit == CacheInit /\ model \in Models /\ fed = <<>> /\ block = None

\* The block of layer l (from 1) on the positions of row from `from`, with the
\* keys of `entries`: its attention, then its experts, on the ranks of a group.
Makes(l, row, documents, from, entries, ranks) ==
  LET length == Len(row) - from
      mixes(i) == {<<k, entries[k + 1]>> :
                     k \in Attends(model, l - 1, from, length, Len(entries), documents, i - 1)}
  IN {[layer |-> l, row |-> row, documents |-> documents, from |-> from,
       made |-> [i \in 1..length |-> [mixes |-> mixes(i), runs |-> runs[i]]]] :
        runs \in Dispatched(model, SubSeq(row, from + 1, Len(row)), ranks)}

ForwardBegin == Begin /\ block' = None /\ UNCHANGED <<model, fed>>

ForwardUpdate ==
  /\ Update
  /\ block' \in Makes(layer + 1, fed \o chunk, <<>>, pos, answer', 1)
  /\ UNCHANGED <<model, fed>>

ForwardAdvance == Advance /\ fed' = fed \o chunk /\ block' = None /\ UNCHANGED model

ForwardAbort == Abort /\ block' = None /\ UNCHANGED <<model, fed>>

ForwardReset == Reset /\ fed' = <<>> /\ block' = None /\ UNCHANGED model

\* Documents follow each other in a packed row.
Packings ==
  {d \in [1..Window -> 1..Window] :
     d[1] = 1 /\ \A i \in 2..Window : d[i] \in {d[i - 1], d[i - 1] + 1}}

\* A block of a training pass: no cache, a full row. Rows come before any text,
\* and with one kind of cache, since they use none.
TrainRow ==
  /\ kind = "static" /\ chunk = <<>> /\ answer = <<>> /\ block = None
  /\ \E row \in [1..Window -> Vocabulary], documents \in {<<>>} \cup Packings, l \in Layers,
        ranks \in {n \in 1..MaxRanks : n = 1 \/ Divides(n, model.num_experts)} :
       block' \in Makes(l, row, documents, 0, row, ranks)
  /\ UNCHANGED <<storageVars, model, fed>>

ForwardNext ==
  ForwardBegin \/ ForwardUpdate \/ ForwardAdvance \/ ForwardAbort \/ ForwardReset \/ TrainRow

ForwardSpec == ForwardInit /\ [][ForwardNext]_fvars

-----------------------------------------------------------------------------
(* Properties.                                                             *)

\* Where the document of a position begins.
StartOf(position) ==
  IF block.documents = <<>> THEN 0
  ELSE Min({k \in 0..position : block.documents[k + 1] = block.documents[position + 1]})

\* However a text goes in - as a row, in a row packed with others, in chunks of
\* any size through any cache, after passes that failed and texts before it - a
\* block mixes for a position what it would mix if the text up to there were a
\* row of its own, and adds each of its experts once, on whatever rank it is.
\* Two things do not have that property in the code and are left out: sparse
\* layers, which count positions from the start of a packed row, and a capacity,
\* which drops tokens depending on the others of the pass, though never tokens
\* below it.
EachTextAlone ==
  \A i \in DOMAIN block.made :
    LET position == block.from + i - 1
        start    == StartOf(position)
        spec     == AttentionSpec(model, block.layer - 1)
        token    == block.row[position + 1]
        runs     == block.made[i].runs
        limit    == Capacity(model, Len(block.made))
        load(e)  == Cardinality({j \in DOMAIN block.made : block.made[j].runs[e] > 0})
    IN /\ (spec.kind # "sparse" \/ block.documents = <<>>) =>
            {<<at[1] - start, at[2]>> : at \in block.made[i].mixes}
              = {<<k, block.row[start + k + 1]>> :
                   k \in {k \in 0..position - start : Visible(spec, position - start, k)}}
       /\ \A e \in Experts(model) :
            IF e \notin Chosen(model, token) THEN runs[e] = 0
            ELSE runs[e] = 1 \/ (runs[e] = 0 /\ limit > 0 /\ load(e) = limit)
================================================================================
