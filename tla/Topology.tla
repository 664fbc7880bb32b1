-------------------------------- MODULE Topology --------------------------------
(***************************************************************************)
(* The mesh of a distributed job: which meshes a configuration may ask for *)
(* (DistributedConfig.validate), which one plan_topology proposes, where a *)
(* rank is in it and which ranks it works with (distributed/topology.py,   *)
(* distributed/groups.py).                                                 *)
(*                                                                         *)
(* A mesh is a record of the five sizes; a model is a record of the        *)
(* dimensions of ModelConfig that are split.                               *)
(***************************************************************************)
EXTENDS Integers, FiniteSets, FiniteSetsExt, Sequences, SequencesExt

Divides(d, n) == n % d = 0
Divisors(n) == {d \in 1..n : Divides(d, n)}

WorldSize(mesh) == mesh.data * mesh.tensor * mesh.pipeline
Ranks(mesh) == 0..WorldSize(mesh) - 1

-----------------------------------------------------------------------------
(* Which meshes are accepted.                                              *)

TensorSplits(model, tp) ==
  /\ Divides(tp, model.heads) /\ Divides(tp, model.kvHeads)
  /\ Divides(tp, model.width)
  /\ model.experts > 1 => Divides(tp, model.expertWidth)

Validates(mesh, model) ==
  /\ {mesh.data, mesh.tensor, mesh.pipeline, mesh.sequence, mesh.expert} \subseteq Nat \ {0}
  /\ mesh.sequence \in {1, mesh.tensor}
  /\ TensorSplits(model, mesh.tensor)
  /\ mesh.pipeline <= model.layers
  /\ mesh.expert > 1 => /\ model.experts > 1
                        /\ Divides(mesh.expert, model.experts)
                        /\ Divides(mesh.expert, mesh.data)

\* FontaineConfig.validate: the sequence is cut for the feed-forward layers.
SequenceSplits(mesh, length) == mesh.sequence > 1 => Divides(mesh.sequence, length)

-----------------------------------------------------------------------------
(* plan_topology.                                                          *)

ExpertChoices(model, dp) ==
  IF model.experts > 1 THEN {ep \in Divisors(dp) : Divides(ep, model.experts)} ELSE {1}

Candidates(model, world) ==
  {mesh \in [data : 1..world, tensor : 1..world, pipeline : 1..world,
             sequence : 1..world, expert : 1..world] :
     /\ WorldSize(mesh) = world
     /\ mesh.pipeline <= Min({world, model.layers})
     /\ TensorSplits(model, mesh.tensor)
     /\ mesh.expert \in ExpertChoices(model, mesh.data)
     /\ mesh.sequence = IF mesh.tensor > 1 /\ Divides(mesh.tensor, model.maxLength)
                        THEN mesh.tensor ELSE 1}

\* memory_key: into how many parts the weights are cut, then the replicas.
Parts(mesh) == mesh.tensor * mesh.pipeline * mesh.expert

\* min() over the candidates in the order the loops make them: pipeline, then
\* tensor, then expert sizes upwards.
Precedes(m, n) ==
  \/ Parts(m) > Parts(n)
  \/ Parts(m) = Parts(n) /\ m.data > n.data
  \/ /\ Parts(m) = Parts(n) /\ m.data = n.data
     /\ \/ m.pipeline < n.pipeline
        \/ m.pipeline = n.pipeline /\ m.tensor < n.tensor
        \/ m.pipeline = n.pipeline /\ m.tensor = n.tensor /\ m.expert <= n.expert

Plan(model, world) ==
  CHOOSE m \in Candidates(model, world) : \A n \in Candidates(model, world) : Precedes(m, n)

-----------------------------------------------------------------------------
(* Ranks: data, then pipeline, then tensor.                                *)

GlobalRank(mesh, data, pipeline, tensor) ==
  (data * mesh.pipeline + pipeline) * mesh.tensor + tensor

TensorRank(mesh, rank) == rank % mesh.tensor
PipelineRank(mesh, rank) == (rank \div mesh.tensor) % mesh.pipeline
DataRank(mesh, rank) == (rank \div mesh.tensor) \div mesh.pipeline
ExpertRank(mesh, rank) == DataRank(mesh, rank) % mesh.expert

IsFirstStage(mesh, rank) == PipelineRank(mesh, rank) = 0
IsLastStage(mesh, rank) == PipelineRank(mesh, rank) + 1 >= mesh.pipeline

Prev(mesh, rank) ==
  GlobalRank(mesh, DataRank(mesh, rank), PipelineRank(mesh, rank) - 1, TensorRank(mesh, rank))
Next0(mesh, rank) ==
  GlobalRank(mesh, DataRank(mesh, rank), PipelineRank(mesh, rank) + 1, TensorRank(mesh, rank))

\* layer_stage: earlier stages take the remainder.
LayersOf(mesh, model, rank) ==
  model.layers \div mesh.pipeline
    + IF PipelineRank(mesh, rank) < model.layers % mesh.pipeline THEN 1 ELSE 0

\* expert_ids_for_rank
ExpertsOf(mesh, model, rank) ==
  LET per == model.experts \div mesh.expert
  IN ExpertRank(mesh, rank) * per .. (ExpertRank(mesh, rank) + 1) * per - 1

-----------------------------------------------------------------------------
(* Groups. Every rank calls dist.new_group for every group of a kind, in    *)
(* the order of the loops, and keeps the one it is in.                     *)

Buckets(mesh) == mesh.data \div mesh.expert

\* The ranges of nested loops as a sequence of triples.
Loops(outer, middle, inner) ==
  [i \in 1..outer * middle * inner |->
     <<(i - 1) \div (middle * inner), ((i - 1) \div inner) % middle, (i - 1) % inner>>]

TensorGroups(mesh) ==
  IF mesh.tensor < 2 THEN <<>>
  ELSE [i \in DOMAIN Loops(1, mesh.data, mesh.pipeline) |->
          LET at == Loops(1, mesh.data, mesh.pipeline)[i]
          IN {GlobalRank(mesh, at[2], at[3], t) : t \in 0..mesh.tensor - 1}]

PipelineGroups(mesh) ==
  IF mesh.pipeline < 2 THEN <<>>
  ELSE [i \in DOMAIN Loops(1, mesh.data, mesh.tensor) |->
          LET at == Loops(1, mesh.data, mesh.tensor)[i]
          IN {GlobalRank(mesh, at[2], p, at[3]) : p \in 0..mesh.pipeline - 1}]

ExpertGroups(mesh) ==
  IF mesh.expert < 2 THEN <<>>
  ELSE [i \in DOMAIN Loops(Buckets(mesh), mesh.pipeline, mesh.tensor) |->
          LET at == Loops(Buckets(mesh), mesh.pipeline, mesh.tensor)[i]
          IN {GlobalRank(mesh, at[1] * mesh.expert + e, at[2], at[3]) : e \in 0..mesh.expert - 1}]

\* Mutant: the replicas of a bucket instead of the buckets of a replica.
DataGroups_WithinBucket(mesh) ==
  IF Buckets(mesh) < 2 THEN <<>>
  ELSE [i \in DOMAIN Loops(Buckets(mesh), mesh.pipeline, mesh.tensor) |->
          LET at == Loops(Buckets(mesh), mesh.pipeline, mesh.tensor)[i]
          IN {GlobalRank(mesh, at[1] * mesh.expert + e, at[2], at[3]) : e \in 0..mesh.expert - 1}]

DataGroups(mesh) ==
  IF Buckets(mesh) < 2 THEN <<>>
  ELSE [i \in DOMAIN Loops(mesh.expert, mesh.pipeline, mesh.tensor) |->
          LET at == Loops(mesh.expert, mesh.pipeline, mesh.tensor)[i]
          IN {GlobalRank(mesh, b * mesh.expert + at[1], at[2], at[3]) : b \in 0..Buckets(mesh) - 1}]

\* init_parallel_groups
AllGroups(mesh) ==
  TensorGroups(mesh) \o PipelineGroups(mesh) \o ExpertGroups(mesh) \o DataGroups(mesh)

\* The group a rank keeps of a kind.
Mine(groups, rank) == CHOOSE group \in ToSet(groups) : rank \in group
================================================================================
