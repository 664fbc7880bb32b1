------------------------------ MODULE Mesh_proofs ------------------------------
(***************************************************************************)
(* Proofs about distributed jobs, for meshes and jobs of every size.       *)
(*                                                                         *)
(* First the layout of the ranks (distributed/topology.py): ranks and      *)
(* coordinates correspond, the stages of a pipeline point at each other,   *)
(* no stage is without layers and no expert without owner, and the group   *)
(* in which a rank averages its gradients is all ranks with its slice.     *)
(*                                                                         *)
(* Then what validate() promises the other components.                     *)
(*                                                                         *)
(* Then two results about every run of a job that works, from one          *)
(* invariant of the ranks, MeshInv: what a rank has left of its handler is *)
(* an end of the calls of that handler, and the optimizer has run once for *)
(* each step that is over. Whatever the system does, a rank stays where it *)
(* is, makes its next call or goes on to its next handler (NextMoves), so  *)
(* that each part of an invariant is shown for these three.                *)
(*   MetaListsOneStepAlways, by SavesInv: the ranks exchange the hashes of *)
(*   a save together, so that no rank is a save ahead of rank 0 while it   *)
(*   publishes the list; the files that have been written are of the step, *)
(*   or their rank has died.                                               *)
(*   ReplicasAgreeAlways, by AverageInv: replicas have averaged the same   *)
(*   parameters, and a gradient is the rank's own before that and that of  *)
(*   all replicas after it; by then no batch is still to come, so that a   *)
(*   rank leaves out only parameters that the tokens reach on none.        *)
(***************************************************************************)
EXTENDS Mesh, SequenceTheorems, TLAPS

\* A mesh, and below the sizes of one.
Grid == [data : Nat \ {0}, tensor : Nat \ {0}, pipeline : Nat \ {0},
         sequence : Nat \ {0}, expert : Nat \ {0}]

-----------------------------------------------------------------------------
\* A multiple is not less than its factor.
LEMMA Multiple ==
  ASSUME NEW n \in Nat \ {0}, NEW a \in Int, a >= 1
  PROVE  n * a \in Int /\ n * a >= n
OBVIOUS

\* Quotient and remainder.
LEMMA Quotient ==
  ASSUME NEW n \in Nat \ {0}, NEW m \in Int
  PROVE  /\ m \div n \in Int /\ m % n \in 0..n - 1
         /\ n * (m \div n) + (m % n) = m
OBVIOUS

\* They are the only ones.
LEMMA QuotientUnique ==
  ASSUME NEW n \in Nat \ {0}, NEW q \in Int, NEW r \in 0..n - 1
  PROVE  (q * n + r) \div n = q /\ (q * n + r) % n = r
<1> DEFINE m == q * n + r
           q2 == m \div n
           r2 == m % n
<1>1. m \in Int /\ n * q = q * n
  OBVIOUS
<1>2. q2 \in Int /\ r2 \in 0..n - 1 /\ n * q2 + r2 = m
  BY <1>1, Quotient
<1> HIDE DEF q2, r2
<1>3. n * (q - q2) = n * q - n * q2
  BY <1>2
<1>4. n * (q - q2) = r2 - r
  BY <1>1, <1>2, <1>3
<1>5. ~(q - q2 >= 1)
  BY <1>2, <1>4, Multiple
<1>6. n * (q2 - q) = r - r2
  BY <1>1, <1>2
<1>7. ~(q2 - q >= 1)
  BY <1>2, <1>6, Multiple
<1>8. q2 = q
  BY <1>2, <1>5, <1>7
<1>9. r2 = r
  BY <1>1, <1>2, <1>8
<1> QED  BY <1>8, <1>9 DEF q2, r2

\* A number below a product, and its two digits.
LEMMA Digits ==
  ASSUME NEW n \in Nat \ {0}, NEW a \in Nat \ {0}
  PROVE  /\ \A m \in 0..a * n - 1 :
              m \div n \in 0..a - 1 /\ m % n \in 0..n - 1 /\ (m \div n) * n + (m % n) = m
         /\ \A q \in 0..a - 1, r \in 0..n - 1 : q * n + r \in 0..a * n - 1
<1>1. ASSUME NEW m \in 0..a * n - 1
      PROVE  m \div n \in 0..a - 1 /\ m % n \in 0..n - 1 /\ (m \div n) * n + (m % n) = m
  <2> DEFINE q == m \div n
             r == m % n
  <2>1. m \in Int /\ a * n \in Int /\ m >= 0 /\ m < a * n
    OBVIOUS
  <2>2. q \in Int /\ r \in 0..n - 1 /\ n * q + r = m
    BY <2>1, Quotient
  <2> HIDE DEF q, r
  <2>3. ~(q >= a)
    <3>1. n * (q - a) = n * q - a * n
      BY <2>2
    <3>2. n * (q - a) < 0
      BY <2>1, <2>2, <3>1
    <3>3. ~(q - a >= 1)
      BY <2>2, <3>2, Multiple
    <3>4. q # a
      BY <2>2, <3>2
    <3> QED  BY <2>2, <3>3, <3>4
  <2>4. ~(q < 0)
    <3>1. SUFFICES ASSUME q < 0 PROVE FALSE
      OBVIOUS
    <3>2. n * (0 - q) >= n
      BY <2>2, <3>1, Multiple
    <3>3. n * (0 - q) = 0 - n * q
      BY <2>2
    <3> QED  BY <2>1, <2>2, <3>2, <3>3
  <2>5. q * n = n * q
    BY <2>2
  <2> QED  BY <2>2, <2>3, <2>4, <2>5 DEF q, r
<1>2. ASSUME NEW q \in 0..a - 1, NEW r \in 0..n - 1
      PROVE  q * n + r \in 0..a * n - 1
  <2>1. n * (a - q) >= n /\ n * (a - q) = a * n - q * n
    BY Multiple
  <2>2. q * n >= 0 /\ q * n \in Int /\ a * n \in Int
    OBVIOUS
  <2> QED  BY <2>1, <2>2
<1> QED  BY <1>1, <1>2

-----------------------------------------------------------------------------
\* The place of a rank in the mesh, as coordinates_of of topology.py gives it.
LEMMA RankIsPlace ==
  ASSUME NEW grid \in Grid, NEW rank \in Ranks(grid)
  PROVE  /\ DataRank(grid, rank) \in 0..grid.data - 1
         /\ PipelineRank(grid, rank) \in 0..grid.pipeline - 1
         /\ TensorRank(grid, rank) \in 0..grid.tensor - 1
         /\ GlobalRank(grid, DataRank(grid, rank), PipelineRank(grid, rank), TensorRank(grid, rank))
              = rank
<1> DEFINE D == grid.data  P == grid.pipeline  T == grid.tensor
<1>1. D \in Nat \ {0} /\ P \in Nat \ {0} /\ T \in Nat \ {0}
  BY DEF Grid
<1> HIDE DEF D, P, T
<1>2. D * P \in Nat \ {0} /\ WorldSize(grid) = (D * P) * T
  <2>1. D * P >= P
    BY <1>1, Multiple
  <2>2. (D * T) * P = (D * P) * T
    BY <1>1
  <2> QED  BY <1>1, <2>1, <2>2 DEF WorldSize, D, P, T
<1>3. rank \in 0..(D * P) * T - 1
  BY <1>2 DEF Ranks
<1>4. /\ rank \div T \in 0..D * P - 1 /\ rank % T \in 0..T - 1
      /\ (rank \div T) * T + (rank % T) = rank
  BY <1>1, <1>2, <1>3, Digits
<1>5. /\ (rank \div T) \div P \in 0..D - 1 /\ (rank \div T) % P \in 0..P - 1
      /\ ((rank \div T) \div P) * P + ((rank \div T) % P) = rank \div T
  BY <1>1, <1>4, Digits
<1> QED  BY <1>4, <1>5 DEF GlobalRank, DataRank, PipelineRank, TensorRank, D, P, T

LEMMA PlaceIsRank ==
  ASSUME NEW grid \in Grid, NEW d \in 0..grid.data - 1, NEW p \in 0..grid.pipeline - 1,
         NEW t \in 0..grid.tensor - 1
  PROVE  LET rank == GlobalRank(grid, d, p, t)
         IN /\ rank \in Ranks(grid)
            /\ DataRank(grid, rank) = d /\ PipelineRank(grid, rank) = p
            /\ TensorRank(grid, rank) = t
<1> DEFINE D == grid.data  P == grid.pipeline  T == grid.tensor
           k == d * P + p
<1>1. /\ D \in Nat \ {0} /\ P \in Nat \ {0} /\ T \in Nat \ {0}
      /\ d \in 0..D - 1 /\ p \in 0..P - 1 /\ t \in 0..T - 1
  BY DEF Grid
<1> HIDE DEF D, P, T
<1>2. D * P \in Nat \ {0} /\ WorldSize(grid) = (D * P) * T
  <2>1. D * P >= P
    BY <1>1, Multiple
  <2>2. (D * T) * P = (D * P) * T
    BY <1>1
  <2> QED  BY <1>1, <2>1, <2>2 DEF WorldSize, D, P, T
<1>3. k \in 0..D * P - 1
  <2>1. \A q \in 0..D - 1, r \in 0..P - 1 : q * P + r \in 0..D * P - 1
    BY <1>1, Digits
  <2> QED  BY <1>1, <2>1, Zenon DEF k
<1>4. k \div P = d /\ k % P = p
  <2>1. d \in Int /\ P \in Nat \ {0} /\ p \in 0..P - 1
    BY <1>1
  <2> QED  BY <2>1, QuotientUnique, Zenon DEF k
<1> HIDE DEF k
<1>5. k * T + t \in 0..(D * P) * T - 1
  <2>1. \A q \in 0..D * P - 1, r \in 0..T - 1 : q * T + r \in 0..(D * P) * T - 1
    BY <1>1, <1>2, Digits
  <2> QED  BY <1>1, <1>3, <2>1, Zenon
<1>6. (k * T + t) \div T = k /\ (k * T + t) % T = t
  <2>1. k \in Int
    BY <1>2, <1>3
  <2> QED  BY <1>1, <2>1, QuotientUnique
<1>7. GlobalRank(grid, d, p, t) = k * T + t
  BY DEF GlobalRank, k, P, T
<1> QED  BY <1>2, <1>4, <1>5, <1>6, <1>7 DEF Ranks, DataRank, PipelineRank, TensorRank, P, T

-----------------------------------------------------------------------------
\* for_rank and global_rank (topology.py): every rank of a mesh has a place, no
\* two have the same, and every place has its rank.
THEOREM RanksAreThePlaces ==
  ASSUME NEW grid \in Grid
  PROVE  /\ \A r, q \in Ranks(grid) :
              /\ DataRank(grid, r) = DataRank(grid, q)
              /\ PipelineRank(grid, r) = PipelineRank(grid, q)
              /\ TensorRank(grid, r) = TensorRank(grid, q)
              => r = q
         /\ \A d \in 0..grid.data - 1, p \in 0..grid.pipeline - 1, t \in 0..grid.tensor - 1 :
              \E r \in Ranks(grid) :
                DataRank(grid, r) = d /\ PipelineRank(grid, r) = p /\ TensorRank(grid, r) = t
<1>1. ASSUME NEW r \in Ranks(grid), NEW q \in Ranks(grid),
             DataRank(grid, r) = DataRank(grid, q),
             PipelineRank(grid, r) = PipelineRank(grid, q),
             TensorRank(grid, r) = TensorRank(grid, q)
      PROVE  r = q
  <2>1. GlobalRank(grid, DataRank(grid, r), PipelineRank(grid, r), TensorRank(grid, r)) = r
    BY RankIsPlace
  <2>2. GlobalRank(grid, DataRank(grid, q), PipelineRank(grid, q), TensorRank(grid, q)) = q
    BY RankIsPlace
  <2> QED  BY <1>1, <2>1, <2>2
<1>2. ASSUME NEW d \in 0..grid.data - 1, NEW p \in 0..grid.pipeline - 1, NEW t \in 0..grid.tensor - 1
      PROVE  \E r \in Ranks(grid) :
                DataRank(grid, r) = d /\ PipelineRank(grid, r) = p /\ TensorRank(grid, r) = t
  BY PlaceIsRank
<1> QED  BY <1>1, <1>2

\* pipeline_next and pipeline_prev (topology.py): the rank a stage sends to is
\* one that receives from it, and has its other coordinates. A stage that sends
\* to a rank which waits for another would wait for ever.
THEOREM StagesFaceEachOther ==
  ASSUME NEW grid \in Grid, NEW rank \in Ranks(grid)
  PROVE  /\ ~IsLastStage(grid, rank) =>
              LET q == Next0(grid, rank)
              IN /\ q \in Ranks(grid) /\ ~IsFirstStage(grid, q) /\ Prev(grid, q) = rank
                 /\ DataRank(grid, q) = DataRank(grid, rank)
                 /\ TensorRank(grid, q) = TensorRank(grid, rank)
         /\ ~IsFirstStage(grid, rank) =>
              LET q == Prev(grid, rank)
              IN /\ q \in Ranks(grid) /\ ~IsLastStage(grid, q) /\ Next0(grid, q) = rank
                 /\ DataRank(grid, q) = DataRank(grid, rank)
                 /\ TensorRank(grid, q) = TensorRank(grid, rank)
<1> DEFINE d == DataRank(grid, rank)
           p == PipelineRank(grid, rank)
           t == TensorRank(grid, rank)
<1>1. /\ d \in 0..grid.data - 1 /\ p \in 0..grid.pipeline - 1 /\ t \in 0..grid.tensor - 1
      /\ GlobalRank(grid, d, p, t) = rank /\ grid.pipeline \in Nat \ {0}
  BY RankIsPlace DEF Grid
<1>2. ASSUME ~IsLastStage(grid, rank)
      PROVE  LET q == Next0(grid, rank)
             IN /\ q \in Ranks(grid) /\ ~IsFirstStage(grid, q) /\ Prev(grid, q) = rank
                /\ DataRank(grid, q) = d /\ TensorRank(grid, q) = t
  <2> DEFINE q == GlobalRank(grid, d, p + 1, t)
  <2>1. p + 1 \in 0..grid.pipeline - 1
    BY <1>1, <1>2 DEF IsLastStage
  <2>2. /\ q \in Ranks(grid) /\ DataRank(grid, q) = d /\ PipelineRank(grid, q) = p + 1
        /\ TensorRank(grid, q) = t
    BY <1>1, <2>1, PlaceIsRank
  <2>3. Next0(grid, rank) = q
    BY DEF Next0
  <2> HIDE DEF q
  <2>4. Prev(grid, q) = GlobalRank(grid, d, (p + 1) - 1, t)
    BY <2>2 DEF Prev
  <2>5. (p + 1) - 1 = p /\ p + 1 # 0
    BY <1>1
  <2> QED  BY <1>1, <2>2, <2>3, <2>4, <2>5 DEF IsFirstStage
<1>3. ASSUME ~IsFirstStage(grid, rank)
      PROVE  LET q == Prev(grid, rank)
             IN /\ q \in Ranks(grid) /\ ~IsLastStage(grid, q) /\ Next0(grid, q) = rank
                /\ DataRank(grid, q) = d /\ TensorRank(grid, q) = t
  <2> DEFINE q == GlobalRank(grid, d, p - 1, t)
  <2>1. p - 1 \in 0..grid.pipeline - 1
    BY <1>1, <1>3 DEF IsFirstStage
  <2>2. /\ q \in Ranks(grid) /\ DataRank(grid, q) = d /\ PipelineRank(grid, q) = p - 1
        /\ TensorRank(grid, q) = t
    BY <1>1, <2>1, PlaceIsRank
  <2>3. Prev(grid, rank) = q
    BY DEF Prev
  <2> HIDE DEF q
  <2>4. Next0(grid, q) = GlobalRank(grid, d, (p - 1) + 1, t)
    BY <2>2 DEF Next0
  <2>5. (p - 1) + 1 = p /\ p < grid.pipeline
    BY <1>1
  <2> QED  BY <1>1, <2>2, <2>3, <2>4, <2>5 DEF IsLastStage
<1> QED  BY <1>2, <1>3

-----------------------------------------------------------------------------
\* The shape of a model, as far as stages and experts are concerned.
Sized(shape) == shape.layers \in Nat /\ shape.experts \in Nat \ {0}

\* An accepted mesh: its expert groups divide the replicas and the experts.
LEMMA AcceptedSizes ==
  ASSUME NEW grid \in Grid, NEW shape, Sized(shape), Validates(grid, shape)
  PROVE  /\ grid.pipeline <= shape.layers
         /\ grid.data % grid.expert = 0 /\ shape.experts % grid.expert = 0
<1>1. grid.data \in Nat \ {0} /\ grid.expert \in Nat \ {0} /\ shape.experts \in Nat \ {0}
  BY DEF Grid, Sized
<1>2. grid.pipeline <= shape.layers
  BY DEF Validates
<1>3. CASE grid.expert > 1
  BY <1>2, <1>3 DEF Validates, Divides
<1>4. CASE grid.expert = 1
  BY <1>1, <1>2, <1>4
<1> QED  BY <1>1, <1>3, <1>4

\* A number that n divides is so many times n.
LEMMA PartsOfMultiple ==
  ASSUME NEW n \in Nat \ {0}, NEW m \in Nat \ {0}, m % n = 0
  PROVE  m \div n \in Nat \ {0} /\ m = n * (m \div n)
<1> DEFINE q == m \div n
<1>1. q \in Int /\ n * q = m
  BY Quotient
<1> HIDE DEF q
<1>2. ~(q <= 0)
  <2>1. SUFFICES ASSUME q <= 0 PROVE FALSE
    OBVIOUS
  <2>2. q # 0
    BY <1>1
  <2>3. n * (0 - q) >= n
    BY <1>1, <2>1, <2>2, Multiple
  <2>4. n * (0 - q) = 0 - n * q
    BY <1>1
  <2> QED  BY <1>1, <2>3, <2>4
<1> QED  BY <1>1, <1>2 DEF q

\* DistributedConfig.validate (config/schema.py) and layer_stage: on a mesh it
\* accepts, whatever the sizes, no stage is without layers.
THEOREM EveryStageHasLayers ==
  ASSUME NEW grid \in Grid, NEW shape, Sized(shape), Validates(grid, shape),
         NEW rank \in Ranks(grid)
  PROVE  LayersOf(grid, shape, rank) >= 1
<1> DEFINE share == shape.layers \div grid.pipeline
<1>1. /\ grid.pipeline \in Nat \ {0} /\ shape.layers \in Nat
      /\ grid.pipeline <= shape.layers
  BY AcceptedSizes DEF Grid, Sized
<1>2. /\ share \in Int /\ shape.layers % grid.pipeline \in 0..grid.pipeline - 1
      /\ grid.pipeline * share + (shape.layers % grid.pipeline) = shape.layers
  <2>1. shape.layers \in Int
    BY <1>1
  <2> QED  BY <1>1, <2>1, Quotient, Zenon
<1> HIDE DEF share
<1>3. ~(share < 1)
  <2>1. SUFFICES ASSUME share < 1 PROVE FALSE
    OBVIOUS
  <2>2. CASE share = 0
    BY <1>1, <1>2, <2>2
  <2>3. CASE share < 0
    <3>1. grid.pipeline * (0 - share) >= grid.pipeline
      BY <1>1, <1>2, <2>3, Multiple
    <3>2. grid.pipeline * (0 - share) = 0 - grid.pipeline * share
      BY <1>1, <1>2
    <3> QED  BY <1>1, <1>2, <3>1, <3>2
  <2> QED  BY <1>2, <2>1, <2>2, <2>3
<1> QED  BY <1>2, <1>3 DEF LayersOf, share

\* expert_ids_for_rank and the expert groups: on a mesh the configuration accepts,
\* each rank finds, for every expert of the model, one rank of its own stage,
\* tensor place and bucket of replicas that holds it, and only one. Tokens are
\* neither left without an expert nor given to two.
THEOREM EveryExpertHasOneOwner ==
  ASSUME NEW grid \in Grid, NEW shape, Sized(shape), Validates(grid, shape),
         NEW rank \in Ranks(grid), NEW e \in 0..shape.experts - 1
  PROVE  LET near(q) == /\ DataRank(grid, q) \div grid.expert = DataRank(grid, rank) \div grid.expert
                        /\ PipelineRank(grid, q) = PipelineRank(grid, rank)
                        /\ TensorRank(grid, q) = TensorRank(grid, rank)
         IN /\ \E q \in Ranks(grid) : near(q) /\ e \in ExpertsOf(grid, shape, q)
            /\ \A q1, q2 \in Ranks(grid) :
                 /\ near(q1) /\ e \in ExpertsOf(grid, shape, q1)
                 /\ near(q2) /\ e \in ExpertsOf(grid, shape, q2)
                 => q1 = q2
<1> DEFINE E == grid.expert
           per == shape.experts \div E
           bucket(q) == DataRank(grid, q) \div E
           near(q) == /\ bucket(q) = bucket(rank)
                      /\ PipelineRank(grid, q) = PipelineRank(grid, rank)
                      /\ TensorRank(grid, q) = TensorRank(grid, rank)
           owner == e \div per
           d == bucket(rank) * E + owner
<1>1. /\ E \in Nat \ {0} /\ grid.data \in Nat \ {0} /\ shape.experts \in Nat \ {0}
      /\ shape.experts % E = 0 /\ grid.data % E = 0
  BY AcceptedSizes DEF Grid, Sized
<1> HIDE DEF E
<1>2. per \in Nat \ {0} /\ shape.experts = E * per
  BY <1>1, PartsOfMultiple
<1>3. grid.data \div E \in Nat \ {0} /\ grid.data = (grid.data \div E) * E
  <2>1. grid.data \div E \in Nat \ {0} /\ grid.data = E * (grid.data \div E)
    BY <1>1, PartsOfMultiple
  <2> QED  BY <1>1, <2>1
<1> HIDE DEF per
\* The experts of a rank are those with its expert rank as their first digit.
<1>4. ASSUME NEW q \in Ranks(grid)
      PROVE  e \in ExpertsOf(grid, shape, q) <=> ExpertRank(grid, q) = owner
  <2> DEFINE x == ExpertRank(grid, q)
  <2>1. DataRank(grid, q) \in Int
    BY RankIsPlace
  <2>2. x \in 0..E - 1
    BY <1>1, <2>1, Quotient DEF ExpertRank, E
  <2>3. ExpertsOf(grid, shape, q) = x * per .. (x + 1) * per - 1
    BY DEF ExpertsOf, per, E
  <2> HIDE DEF x
  <2>4. (x + 1) * per = x * per + per
    BY <1>2, <2>2
  <2>5. e \in ExpertsOf(grid, shape, q) => x = owner
    <3>1. SUFFICES ASSUME e \in x * per .. (x + 1) * per - 1 PROVE x = owner
      BY <2>3
    <3>2. e - x * per \in 0..per - 1 /\ x * per + (e - x * per) = e /\ x \in Int
      BY <1>2, <2>2, <2>4, <3>1
    <3> QED  BY <1>2, <3>2, QuotientUnique
  <2>6. x = owner => e \in ExpertsOf(grid, shape, q)
    <3>1. e \in Int
      BY <1>1
    <3>2. e % per \in 0..per - 1 /\ per * owner + (e % per) = e /\ owner \in Int
      BY <1>2, <3>1, Quotient
    <3>3. per * owner = owner * per
      BY <1>2, <3>2
    <3> HIDE DEF owner
    <3> QED  BY <1>2, <2>3, <2>4, <3>1, <3>2, <3>3
  <2> QED  BY <2>5, <2>6 DEF x
<1>5. owner \in 0..E - 1
  BY <1>1, <1>2, Digits
<1>6. ASSUME NEW q \in Ranks(grid)
      PROVE  /\ DataRank(grid, q) = bucket(q) * E + ExpertRank(grid, q)
             /\ bucket(q) \in 0..(grid.data \div E) - 1 /\ ExpertRank(grid, q) \in 0..E - 1
  <2>1. DataRank(grid, q) \in 0..(grid.data \div E) * E - 1
    BY <1>3, RankIsPlace
  <2>2. \A m \in 0..(grid.data \div E) * E - 1 :
          m \div E \in 0..(grid.data \div E) - 1 /\ m % E \in 0..E - 1 /\ (m \div E) * E + (m % E) = m
    BY <1>1, <1>3, Digits
  <2> QED  BY <2>1, <2>2 DEF ExpertRank, E
<1> HIDE DEF owner, bucket
<1>7. \E q \in Ranks(grid) : near(q) /\ ExpertRank(grid, q) = owner
  <2> DEFINE q == GlobalRank(grid, d, PipelineRank(grid, rank), TensorRank(grid, rank))
  <2>1. d \in 0..grid.data - 1
    <3>1. \A a \in 0..(grid.data \div E) - 1, b \in 0..E - 1 : a * E + b \in 0..(grid.data \div E) * E - 1
      BY <1>1, <1>3, Digits
    <3> QED  BY <1>3, <1>5, <1>6, <3>1
  <2>2. d \div E = bucket(rank) /\ d % E = owner
    <3>1. bucket(rank) \in Int
      BY <1>6
    <3> QED  BY <1>1, <1>5, <3>1, QuotientUnique
  <2> HIDE DEF d
  <2>3. /\ q \in Ranks(grid) /\ DataRank(grid, q) = d
        /\ PipelineRank(grid, q) = PipelineRank(grid, rank)
        /\ TensorRank(grid, q) = TensorRank(grid, rank)
    BY <2>1, RankIsPlace, PlaceIsRank
  <2> QED  BY <2>2, <2>3 DEF bucket, ExpertRank, E
<1>8. ASSUME NEW q1 \in Ranks(grid), NEW q2 \in Ranks(grid), near(q1), near(q2),
             ExpertRank(grid, q1) = owner, ExpertRank(grid, q2) = owner
      PROVE  q1 = q2
  <2>1. DataRank(grid, q1) = DataRank(grid, q2)
    BY <1>6, <1>8
  <2> QED  BY <1>8, <2>1, RanksAreThePlaces
<1> QED  BY <1>4, <1>7, <1>8 DEF bucket, E

-----------------------------------------------------------------------------
\* plan_topology and DistributedConfig.validate: every mesh the planner weighs for
\* a model is one the configuration of that model accepts.
THEOREM ProposalsAreAccepted ==
  ASSUME NEW shape, Sized(shape), NEW count \in Nat \ {0}, NEW grid \in Candidates(shape, count)
  PROVE  grid \in Grid /\ WorldSize(grid) = count /\ Validates(grid, shape)
<1>1. /\ grid \in [data : 1..count, tensor : 1..count, pipeline : 1..count,
                   sequence : 1..count, expert : 1..count]
      /\ WorldSize(grid) = count
      /\ grid.pipeline <= Min({count, shape.layers})
      /\ TensorSplits(shape, grid.tensor)
      /\ grid.expert \in ExpertChoices(shape, grid.data)
      /\ grid.sequence \in {1, grid.tensor}
  BY DEF Candidates
<1>2. grid \in Grid
  BY <1>1 DEF Grid
<1>3. grid.pipeline <= shape.layers
  <2>1. \E m \in {count, shape.layers} : \A y \in {count, shape.layers} : m <= y
    BY (count <= shape.layers \/ shape.layers <= count) DEF Sized
  <2>2. \A y \in {count, shape.layers} : Min({count, shape.layers}) <= y
    BY <2>1 DEF Min
  <2>3. Min({count, shape.layers}) \in {count, shape.layers}
    BY <2>1 DEF Min
  <2> QED  BY <1>1, <1>2, <2>2, <2>3 DEF Sized, Grid
<1>4. grid.expert > 1 => /\ shape.experts > 1 /\ Divides(grid.expert, shape.experts)
                         /\ Divides(grid.expert, grid.data)
  BY <1>1 DEF ExpertChoices, Divisors
<1> QED  BY <1>1, <1>2, <1>3, <1>4 DEF Validates, Grid

-----------------------------------------------------------------------------
(* The configuration of a job.                                             *)

\* What loads has been validated.
LEMMA LoadedFits ==
  ASSUME NEW line, Load(line) # Refused
  PROVE  Fits(Load(line))
BY DEF Load, Validated

\* What validate() has established of a configuration, as far as jobs need it.
LEMMA AcceptedTyped ==
  ASSUME Fits(config)
  PROVE  /\ mesh \in Grid /\ Sized(model) /\ Validates(mesh, model)
         /\ MaxSteps \in Nat \ {0}
         /\ config.training.gradient_accumulation_steps \in Nat \ {0}
<1>1. /\ Validates(mesh, model)
      /\ ModelFits(config.model) /\ TrainingFits(config.training)
  BY DEF Fits, mesh, model
<1>2. {mesh.data, mesh.tensor, mesh.pipeline, mesh.sequence, mesh.expert} \subseteq Nat \ {0}
  BY <1>1 DEF Validates
<1>3. mesh \in Grid
  BY <1>2 DEF mesh, Sizes, Grid
<1>4. Sized(model)
  BY <1>1 DEF ModelFits, Sized, model, Shape
<1>5. /\ MaxSteps \in Nat \ {0}
      /\ config.training.gradient_accumulation_steps \in Nat \ {0}
  BY <1>1 DEF TrainingFits, MaxSteps
<1> QED  BY <1>1, <1>3, <1>4, <1>5

-----------------------------------------------------------------------------
(* The groups in which gradients are averaged.                             *)

\* Nested loops visit every triple of their ranges, and no other.
LEMMA LoopsVisitAll ==
  ASSUME NEW outer \in Nat \ {0}, NEW middle \in Nat \ {0}, NEW inner \in Nat \ {0}
  PROVE  /\ DOMAIN Loops(outer, middle, inner) = 1..outer * middle * inner
         /\ \A i \in 1..outer * middle * inner :
              /\ Loops(outer, middle, inner)[i][1] \in 0..outer - 1
              /\ Loops(outer, middle, inner)[i][2] \in 0..middle - 1
              /\ Loops(outer, middle, inner)[i][3] \in 0..inner - 1
         /\ \A a \in 0..outer - 1, b \in 0..middle - 1, c \in 0..inner - 1 :
              \E i \in 1..outer * middle * inner : Loops(outer, middle, inner)[i] = <<a, b, c>>
<1> DEFINE block == middle * inner
           all == outer * middle * inner
<1>1. /\ block \in Nat \ {0} /\ all = outer * block /\ all \in Nat
      /\ all = (outer * middle) * inner /\ outer * middle \in Nat \ {0}
  <2>1. block >= middle /\ outer * middle >= outer
    BY Multiple
  <2> QED  BY <2>1
<1>2. /\ DOMAIN Loops(outer, middle, inner) = 1..all
      /\ \A i \in 1..all : Loops(outer, middle, inner)[i]
           = <<(i - 1) \div block, ((i - 1) \div inner) % middle, (i - 1) % inner>>
  BY DEF Loops
<1> HIDE DEF block, all
<1>3. ASSUME NEW i \in 1..all
      PROVE  /\ (i - 1) \div block \in 0..outer - 1
             /\ ((i - 1) \div inner) % middle \in 0..middle - 1
             /\ (i - 1) % inner \in 0..inner - 1
  <2>1. i - 1 \in 0..outer * block - 1 /\ i - 1 \in Int
    BY <1>1
  <2>2. (i - 1) \div block \in 0..outer - 1
    BY <1>1, <2>1, Digits
  <2>3. (i - 1) \div inner \in Int /\ (i - 1) % inner \in 0..inner - 1
    BY <2>1, Quotient
  <2>4. ((i - 1) \div inner) % middle \in 0..middle - 1
    BY <2>3, Quotient
  <2> QED  BY <2>2, <2>3, <2>4
<1>4. ASSUME NEW a \in 0..outer - 1, NEW b \in 0..middle - 1, NEW c \in 0..inner - 1
      PROVE  \E i \in 1..all : Loops(outer, middle, inner)[i] = <<a, b, c>>
  <2> DEFINE m == b * inner + c
             x == a * block + m
             i == x + 1
  <2>1. m \in 0..block - 1
    BY Digits DEF block
  <2>2. x \in 0..all - 1
    <3> HIDE DEF m
    <3>1. \A q \in 0..outer - 1, r \in 0..block - 1 : q * block + r \in 0..outer * block - 1
      BY <1>1, Digits
    <3> QED  BY <1>1, <2>1, <3>1
  <2>3. x \div block = a
    <3> HIDE DEF m
    <3> QED  BY <1>1, <2>1, QuotientUnique
  <2>4. x = (a * middle + b) * inner + c
    <3>1. a * (middle * inner) = (a * middle) * inner
      OBVIOUS
    <3>2. (a * middle + b) * inner = (a * middle) * inner + b * inner
      OBVIOUS
    <3>3. b * inner \in Int /\ (a * middle) * inner \in Int
      OBVIOUS
    <3> QED  BY <3>1, <3>2, <3>3 DEF block
  <2> HIDE DEF x
  <2>5. x \div inner = a * middle + b /\ x % inner = c
    <3>1. a * middle + b \in Int
      OBVIOUS
    <3> QED  BY <2>4, <3>1, QuotientUnique, Zenon
  <2>6. (x \div inner) % middle = b
    <3>1. a \in Int
      OBVIOUS
    <3>2. (a * middle + b) % middle = b
      BY <3>1, QuotientUnique
    <3> QED  BY <2>5, <3>2
  <2>7. i \in 1..all /\ i - 1 = x
    BY <1>1, <2>2
  <2> HIDE DEF i
  <2> QED  BY <1>2, <2>3, <2>5, <2>6, <2>7
<1>5. ASSUME NEW i \in 1..all
      PROVE  /\ Loops(outer, middle, inner)[i][1] \in 0..outer - 1
             /\ Loops(outer, middle, inner)[i][2] \in 0..middle - 1
             /\ Loops(outer, middle, inner)[i][3] \in 0..inner - 1
  <2>1. Loops(outer, middle, inner)[i]
          = <<(i - 1) \div block, ((i - 1) \div inner) % middle, (i - 1) % inner>>
    BY <1>2
  <2> QED  BY <1>3, <2>1
<1>6. DOMAIN Loops(outer, middle, inner) = 1..all
  BY <1>2
<1> QED  BY <1>4, <1>5, <1>6 DEF all

\* They visit one at least.
Rounds(loops) == \E n \in Nat \ {0} : DOMAIN loops = 1..n

LEMMA LoopsAreSome ==
  ASSUME NEW outer \in Nat \ {0}, NEW middle \in Nat \ {0}, NEW inner \in Nat \ {0}
  PROVE  Rounds(Loops(outer, middle, inner))
<1>1. DOMAIN Loops(outer, middle, inner) = 1..outer * middle * inner
  BY LoopsVisitAll, Zenon
<1>2. outer * middle \in Nat \ {0}
  <2>1. outer * middle >= outer
    BY Multiple
  <2> QED  BY <2>1
<1>3. outer * middle * inner \in Nat \ {0}
  <2> DEFINE n == outer * middle
  <2>1. n \in Nat \ {0}
    BY <1>2
  <2> HIDE DEF n
  <2>2. n * inner >= n /\ n * inner \in Int
    BY <2>1, Multiple
  <2>3. n * inner \in Nat \ {0}
    BY <2>1, <2>2
  <2> QED  BY <2>3 DEF n
<1> QED  BY <1>1, <1>3 DEF Rounds

Visits(loops, triple) == \E i \in DOMAIN loops : loops[i] = triple

LEMMA LoopsReach ==
  ASSUME NEW outer \in Nat \ {0}, NEW middle \in Nat \ {0}, NEW inner \in Nat \ {0},
         NEW a \in 0..outer - 1, NEW b \in 0..middle - 1, NEW c \in 0..inner - 1
  PROVE  Visits(Loops(outer, middle, inner), <<a, b, c>>)
<1> DEFINE loops == Loops(outer, middle, inner)
<1>1. DOMAIN loops = 1..outer * middle * inner
  BY LoopsVisitAll, Zenon
<1>2. \A x \in 0..outer - 1, y \in 0..middle - 1, z \in 0..inner - 1 :
        \E i \in 1..outer * middle * inner : loops[i] = <<x, y, z>>
  BY LoopsVisitAll, Zenon
<1> HIDE DEF loops
<1>3. \E i \in DOMAIN loops : loops[i] = <<a, b, c>>
  BY <1>1, <1>2, Zenon
<1> QED  BY <1>3 DEF Visits, loops

\* Two ranks with the same slice of the model.
Alike(grid, r, q) ==
  /\ TensorRank(grid, r) = TensorRank(grid, q)
  /\ PipelineRank(grid, r) = PipelineRank(grid, q)
  /\ ExpertRank(grid, r) = ExpertRank(grid, q)

\* The data rank of a rank is its bucket and its place in the bucket.
LEMMA BucketAndExpert ==
  ASSUME NEW grid \in Grid, grid.data % grid.expert = 0, NEW q \in Ranks(grid)
  PROVE  /\ Buckets(grid) \in Nat \ {0}
         /\ DataRank(grid, q) \div grid.expert \in 0..Buckets(grid) - 1
         /\ ExpertRank(grid, q) \in 0..grid.expert - 1
         /\ DataRank(grid, q) = (DataRank(grid, q) \div grid.expert) * grid.expert + ExpertRank(grid, q)
<1> DEFINE E == grid.expert  D == grid.data  B == Buckets(grid)  d == DataRank(grid, q)
<1>1. E \in Nat \ {0} /\ D \in Nat \ {0} /\ D % E = 0
  BY DEF Grid
<1>2. d \in 0..D - 1
  BY RankIsPlace
<1>3. B = D \div E
  BY DEF Buckets
<1> HIDE DEF E, D, B, d
<1>4. B \in Nat \ {0} /\ D = E * B
  BY <1>1, <1>3, PartsOfMultiple
<1>5. d \in 0..B * E - 1
  BY <1>1, <1>2, <1>4
<1>6. d \div E \in 0..B - 1 /\ d % E \in 0..E - 1 /\ (d \div E) * E + (d % E) = d
  BY <1>1, <1>4, <1>5, Digits
<1> QED  BY <1>4, <1>6 DEF ExpertRank, B, d, E

\* _data_group (groups.py): the ranks of a group are all those at one expert
\* rank, stage and tensor place.
LEMMA DataGroupIs ==
  ASSUME NEW grid \in Grid, grid.data % grid.expert = 0, DataGroups(grid) # <<>>
  PROVE  \E loops :
           /\ DOMAIN DataGroups(grid) = DOMAIN loops
           /\ \A i \in DOMAIN loops : DataGroups(grid)[i]
                = {q \in Ranks(grid) : /\ ExpertRank(grid, q) = loops[i][1]
                                       /\ PipelineRank(grid, q) = loops[i][2]
                                       /\ TensorRank(grid, q) = loops[i][3]}
           /\ \A e \in 0..grid.expert - 1, p \in 0..grid.pipeline - 1, t \in 0..grid.tensor - 1 :
                \E i \in DOMAIN loops : loops[i] = <<e, p, t>>
<1> DEFINE E == grid.expert  D == grid.data  P == grid.pipeline  T == grid.tensor
           B == Buckets(grid)
           loops == Loops(E, P, T)
<1>1. /\ E \in Nat \ {0} /\ D \in Nat \ {0} /\ P \in Nat \ {0} /\ T \in Nat \ {0}
      /\ D % E = 0 /\ B = D \div E
  BY DEF Grid, Buckets
<1> HIDE DEF B
<1>2. B \in Nat \ {0} /\ D = E * B
  <2> HIDE DEF E, D
  <2> QED  BY <1>1, PartsOfMultiple
<1>3. DataGroups(grid) = [i \in DOMAIN loops |->
                            {GlobalRank(grid, b * E + loops[i][1], loops[i][2], loops[i][3])
                               : b \in 0..B - 1}]
  BY DEF DataGroups, B
<1>4. /\ \A i \in DOMAIN loops : /\ loops[i][1] \in 0..E - 1 /\ loops[i][2] \in 0..P - 1
                                 /\ loops[i][3] \in 0..T - 1
      /\ \A e \in 0..E - 1, p \in 0..P - 1, t \in 0..T - 1 :
           \E i \in DOMAIN loops : loops[i] = <<e, p, t>>
  <2> HIDE DEF E, P, T
  <2>1. DOMAIN loops = 1..E * P * T
    BY <1>1, LoopsVisitAll
  <2>2. \A i \in 1..E * P * T : /\ loops[i][1] \in 0..E - 1 /\ loops[i][2] \in 0..P - 1
                                /\ loops[i][3] \in 0..T - 1
    BY <1>1, LoopsVisitAll
  <2>3. ASSUME NEW e \in 0..E - 1, NEW p \in 0..P - 1, NEW t \in 0..T - 1
        PROVE  \E i \in DOMAIN loops : loops[i] = <<e, p, t>>
    <3>1. Visits(Loops(E, P, T), <<e, p, t>>)
      BY <1>1, LoopsReach
    <3> QED  BY <3>1 DEF Visits
  <2> QED  BY <2>1, <2>2, <2>3
<1> HIDE DEF loops
<1>5. ASSUME NEW i \in DOMAIN loops
      PROVE  {GlobalRank(grid, b * E + loops[i][1], loops[i][2], loops[i][3]) : b \in 0..B - 1}
               = {q \in Ranks(grid) : /\ ExpertRank(grid, q) = loops[i][1]
                                      /\ PipelineRank(grid, q) = loops[i][2]
                                      /\ TensorRank(grid, q) = loops[i][3]}
  <2> DEFINE e == loops[i][1]  p == loops[i][2]  t == loops[i][3]
  <2>1. e \in 0..E - 1 /\ p \in 0..P - 1 /\ t \in 0..T - 1
    BY <1>4
  <2> HIDE DEF e, p, t
  <2>2. ASSUME NEW b \in 0..B - 1
        PROVE  LET q == GlobalRank(grid, b * E + e, p, t)
               IN q \in Ranks(grid) /\ ExpertRank(grid, q) = e /\ PipelineRank(grid, q) = p
                  /\ TensorRank(grid, q) = t
    <3> DEFINE d == b * E + e
    <3>1. d \in 0..D - 1
      <4> HIDE DEF E, D
      <4>1. \A x \in 0..B - 1, y \in 0..E - 1 : x * E + y \in 0..B * E - 1
        BY <1>1, <1>2, Digits
      <4>2. B * E = D
        BY <1>1, <1>2
      <4> QED  BY <2>1, <4>1, <4>2
    <3>2. d % E = e
      <4> HIDE DEF E
      <4>1. b \in Int
        OBVIOUS
      <4> QED  BY <1>1, <2>1, <4>1, QuotientUnique
    <3> HIDE DEF d
    <3> QED  BY <2>1, <3>1, <3>2, PlaceIsRank DEF ExpertRank, d
  <2>3. ASSUME NEW q \in Ranks(grid), ExpertRank(grid, q) = e, PipelineRank(grid, q) = p,
               TensorRank(grid, q) = t
        PROVE  \E b \in 0..B - 1 : q = GlobalRank(grid, b * E + e, p, t)
    <3> DEFINE b == DataRank(grid, q) \div E
    <3>1. b \in 0..B - 1 /\ DataRank(grid, q) = b * E + e
      BY <2>3, BucketAndExpert DEF B
    <3>2. GlobalRank(grid, DataRank(grid, q), p, t) = q
      BY <2>3, RankIsPlace
    <3> QED  BY <3>1, <3>2
  <2> QED  BY <2>2, <2>3 DEF e, p, t
<1> QED  BY <1>3, <1>4, <1>5

\* The group in which a rank averages its gradients: all ranks with its slice of
\* the model, and nobody else.
LEMMA GradientGroup ==
  ASSUME NEW grid \in Grid, grid.data % grid.expert = 0, DataGroups(grid) # <<>>,
         NEW r \in Ranks(grid)
  PROVE  Mine(DataGroups(grid), r) = {q \in Ranks(grid) : Alike(grid, r, q)}
<1>1. PICK loops :
        /\ DOMAIN DataGroups(grid) = DOMAIN loops
        /\ \A i \in DOMAIN loops : DataGroups(grid)[i]
             = {q \in Ranks(grid) : /\ ExpertRank(grid, q) = loops[i][1]
                                    /\ PipelineRank(grid, q) = loops[i][2]
                                    /\ TensorRank(grid, q) = loops[i][3]}
        /\ \A e \in 0..grid.expert - 1, p \in 0..grid.pipeline - 1, t \in 0..grid.tensor - 1 :
             \E i \in DOMAIN loops : loops[i] = <<e, p, t>>
  BY DataGroupIs
<1>2. /\ ExpertRank(grid, r) \in 0..grid.expert - 1 /\ PipelineRank(grid, r) \in 0..grid.pipeline - 1
      /\ TensorRank(grid, r) \in 0..grid.tensor - 1
  BY BucketAndExpert, RankIsPlace
<1>3. PICK i \in DOMAIN loops :
        loops[i] = <<ExpertRank(grid, r), PipelineRank(grid, r), TensorRank(grid, r)>>
  BY <1>1, <1>2
<1>4. r \in DataGroups(grid)[i] /\ DataGroups(grid)[i] \in ToSet(DataGroups(grid))
  BY <1>1, <1>3 DEF ToSet
<1>5. Mine(DataGroups(grid), r) \in ToSet(DataGroups(grid)) /\ r \in Mine(DataGroups(grid), r)
  BY <1>4 DEF Mine
<1>6. PICK j \in DOMAIN loops : Mine(DataGroups(grid), r) = DataGroups(grid)[j]
  BY <1>1, <1>5 DEF ToSet
<1>7. /\ ExpertRank(grid, r) = loops[j][1] /\ PipelineRank(grid, r) = loops[j][2]
      /\ TensorRank(grid, r) = loops[j][3]
  BY <1>1, <1>5, <1>6
<1> QED  BY <1>1, <1>6, <1>7 DEF Alike

\* With one bucket of replicas, a rank has its slice for itself.
LEMMA AloneInItsGroup ==
  ASSUME NEW grid \in Grid, grid.data % grid.expert = 0, DataGroups(grid) = <<>>,
         NEW r \in Ranks(grid)
  PROVE  {q \in Ranks(grid) : Alike(grid, r, q)} = {r}
<1>1. Buckets(grid) = 1
  <2>1. Buckets(grid) \in Nat \ {0}
    BY BucketAndExpert
  <2>2. SUFFICES ASSUME Buckets(grid) >= 2 PROVE FALSE
    BY <2>1
  <2>3. DataGroups(grid) = [i \in DOMAIN Loops(grid.expert, grid.pipeline, grid.tensor) |->
          LET here == Loops(grid.expert, grid.pipeline, grid.tensor)[i]
          IN {GlobalRank(grid, b * grid.expert + here[1], here[2], here[3]) : b \in 0..Buckets(grid) - 1}]
    BY <2>1, <2>2 DEF DataGroups
  <2>4. 1 \in DOMAIN Loops(grid.expert, grid.pipeline, grid.tensor)
    <3> DEFINE E == grid.expert  P == grid.pipeline  T == grid.tensor
    <3>1. E \in Nat \ {0} /\ P \in Nat \ {0} /\ T \in Nat \ {0}
      BY DEF Grid
    <3> HIDE DEF E, P, T
    <3>2. Rounds(Loops(E, P, T))
      BY <3>1, LoopsAreSome
    <3>3. 1 \in DOMAIN Loops(E, P, T)
      BY <3>2 DEF Rounds
    <3> QED  BY <3>3 DEF E, P, T
  <2>5. DOMAIN DataGroups(grid) = {}
    OBVIOUS
  <2> QED  BY <2>3, <2>4, <2>5
<1>2. ASSUME NEW q \in Ranks(grid), Alike(grid, r, q)
      PROVE  q = r
  <2>1. DataRank(grid, q) \div grid.expert = 0 /\ DataRank(grid, r) \div grid.expert = 0
    BY <1>1, BucketAndExpert
  <2>2. DataRank(grid, q) = DataRank(grid, r)
    BY <1>2, <2>1, BucketAndExpert DEF Alike
  <2> QED  BY <1>2, <2>2, RanksAreThePlaces DEF Alike
<1> QED  BY <1>2 DEF Alike

-----------------------------------------------------------------------------
(* What validate() promises the other components.                          *)

\* A layer that looks back over a window has one, whatever pattern picks it.
LEMMA WindowsFit ==
  ASSUME NEW m, ModelFits(m), NEW layer \in 0..m.num_layers - 1
  PROVE  /\ LayerKind(m, layer) = "sliding" => m.sliding_window >= 1
         /\ LayerKind(m, layer) = "sparse" /\ m.sparse_pattern # "block" => Span(m) >= 1
<1> DEFINE pattern == m.layer_pattern  n == Len(pattern)  i == (layer % n) + 1
<1>1. /\ m.num_layers \in Nat \ {0} /\ m.sliding_window \in Nat /\ SpansFit(m)
      /\ pattern \in Seq(LayerKinds)
  BY DEF ModelFits, AttentionFits
<1>2. CASE pattern # <<>>
  <2>1. LayerKind(m, layer) = pattern[i]
    BY <1>2 DEF LayerKind
  <2>2. n \in Nat \ {0} /\ layer \in Int
    BY <1>1, <1>2, EmptySeq
  <2>3. layer % n \in 0..n - 1
    <3> HIDE DEF n
    <3> QED  BY <2>2, Quotient
  <2>4. i \in 1..n /\ DOMAIN pattern = 1..n
    <3>1. DOMAIN pattern = 1..n
      BY <1>1
    <3> DEFINE x == layer % n
    <3> HIDE DEF n, x
    <3>2. x + 1 \in 1..n
      BY <2>2, <2>3 DEF x
    <3> QED  BY <3>1, <3>2 DEF x
  <2>5. pattern[i] \in ToSet(pattern)
    BY <2>4 DEF ToSet
  <2> QED  BY <1>1, <2>1, <2>5 DEF SpansFit
<1>3. CASE pattern = <<>>
  <2>1. LayerKind(m, layer) = IF m.attention_type = "sparse" THEN "sparse"
                              ELSE IF LayerWindow(m, layer) > 0 THEN "sliding" ELSE "full"
    BY <1>3 DEF LayerKind
  <2>2. LayerKind(m, layer) = "sparse" => m.attention_type = "sparse"
    BY <2>1
  <2>3. LayerKind(m, layer) = "sliding" => LayerWindow(m, layer) > 0
    BY <2>1
  <2>4. LayerWindow(m, layer) > 0 => m.sliding_window >= 1
    BY <1>1 DEF LayerWindow
  <2> QED  BY <1>1, <2>2, <2>3, <2>4 DEF SpansFit
<1> QED  BY <1>2, <1>3

Loaded == config = Load(ask)

\* No step of a job changes its configuration.
LEMMA JobStays == Spec => []Loaded
<1>1. Init => Loaded
  BY DEF Init, Loaded
<1>2. [Next]_vars => UNCHANGED <<asked, config>>
  BY DEF Next, Rank, Start, Refuse, NextStep, Evaluate, Save, Finish, Skip, Local, Fail,
         Collective, Transfer, vars, job
<1>3. Loaded /\ [Next]_vars => Loaded'
  BY <1>2 DEF Loaded, ask
<1> QED  BY <1>1, <1>3, PTL DEF Spec

\* FontaineConfig.validate (config/schema.py): what trainer, attention, sharding
\* and the mesh take for granted holds of every configuration that loads, whatever
\* files, profiles, variables and overrides it comes from.
THEOREM AcceptedIsUsableAlways == Spec => []AcceptedIsUsable
<1>1. ASSUME Loaded PROVE AcceptedIsUsable
  <2> DEFINE m == config.model  t == config.training  d == config.data
  <2>1. SUFFICES ASSUME config # Refused
                 PROVE  /\ {t.max_steps, t.eval_interval, t.checkpoint_interval, t.log_interval,
                            t.keep_last_n_checkpoints, t.gradient_accumulation_steps} \subseteq Nat \ {0}
                        /\ t.early_stopping_patience \in Nat
                        /\ d.sequence_length \in 1..m.max_sequence_length
                        /\ d.shard_size_tokens >= d.sequence_length
                        /\ \A layer \in 0..m.num_layers - 1 :
                             /\ LayerKind(m, layer) = "sliding" => m.sliding_window >= 1
                             /\ LayerKind(m, layer) = "sparse" /\ m.sparse_pattern # "block" => Span(m) >= 1
                        /\ \A r \in Ranks(mesh) : LayersOf(mesh, model, r) >= 1
                        /\ \A r \in Ranks(mesh), e \in 0..model.experts - 1 :
                             \E q \in Ranks(mesh) :
                               /\ DataRank(mesh, q) \div mesh.expert = DataRank(mesh, r) \div mesh.expert
                               /\ PipelineRank(mesh, q) = PipelineRank(mesh, r)
                               /\ e \in ExpertsOf(mesh, model, q)
                        /\ config.inference.speculative_tokens > 0 <=> config.inference.draft_checkpoint # ""
    BY Zenon DEF AcceptedIsUsable
  <2>2. Fits(config)
    BY <1>1, <2>1, LoadedFits DEF Loaded
  <2>3. /\ ModelFits(m) /\ TrainingFits(t) /\ DataFits(d) /\ InferenceFits(config.inference)
        /\ d.sequence_length <= m.max_sequence_length
    BY <2>2 DEF Fits
  <2>4. mesh \in Grid /\ Sized(model) /\ Validates(mesh, model)
    BY <2>2, AcceptedTyped
  <2>5. /\ {t.max_steps, t.eval_interval, t.checkpoint_interval, t.log_interval,
            t.keep_last_n_checkpoints, t.gradient_accumulation_steps} \subseteq Nat \ {0}
        /\ t.early_stopping_patience \in Nat
    BY <2>3 DEF TrainingFits
  <2>6. d.sequence_length \in 1..m.max_sequence_length /\ d.shard_size_tokens >= d.sequence_length
    <3>1. /\ {d.sequence_length, d.shard_size_tokens} \subseteq Nat
          /\ d.sequence_length >= 2 /\ d.shard_size_tokens >= d.sequence_length
      BY <2>3 DEF DataFits
    <3>2. {m.hidden_size, m.num_layers, m.num_attention_heads, m.intermediate_size,
           m.num_experts, m.max_sequence_length} \subseteq Nat \ {0}
      BY <2>3 DEF ModelFits
    <3>3. d.sequence_length \in Nat /\ m.max_sequence_length \in Nat
      BY <3>1, <3>2
    <3> QED  BY <2>3, <3>1, <3>3
  <2>7. config.inference.speculative_tokens > 0 <=> config.inference.draft_checkpoint # ""
    BY <2>3 DEF InferenceFits
  <2>8. \A layer \in 0..m.num_layers - 1 :
          /\ LayerKind(m, layer) = "sliding" => m.sliding_window >= 1
          /\ LayerKind(m, layer) = "sparse" /\ m.sparse_pattern # "block" => Span(m) >= 1
    BY <2>3, WindowsFit
  <2>9. \A r \in Ranks(mesh) : LayersOf(mesh, model, r) >= 1
    BY <2>4, EveryStageHasLayers
  <2>10. ASSUME NEW r \in Ranks(mesh), NEW e \in 0..model.experts - 1
         PROVE  \E q \in Ranks(mesh) :
                  /\ DataRank(mesh, q) \div mesh.expert = DataRank(mesh, r) \div mesh.expert
                  /\ PipelineRank(mesh, q) = PipelineRank(mesh, r)
                  /\ e \in ExpertsOf(mesh, model, q)
    BY <2>4, EveryExpertHasOneOwner
  <2> HIDE DEF m, t, d
  <2> QED  BY <2>5, <2>6, <2>7, <2>8, <2>9, <2>10
<1> QED  BY <1>1, JobStays, PTL

-----------------------------------------------------------------------------
(* What a rank has left of its handler.                                    *)

\* The job is one that runs.
Works == config # Refused /\ WorldSize(mesh) = world

\* The calls of a pass, but for backward() itself.
Plain(r) ==
  [op : {"meet", "try", "send", "recv"}, kind : {"", "tensor", "expert", "new group"},
   peers : {Processes, Mine(TensorGroups(mesh), r), Mine(ExpertGroups(mesh), r),
            {Prev(mesh, r)}, {Next0(mesh, r)}},
   of : Seq(Int)]

\* Those of the passes of step s.
Passes(r, s) == Plain(r) \cup {Backpropagate(b) : b \in BatchesOf(s)}

\* The collective for the gradients of parameter p.
Averages(r, p) == Try("gradients", Mine(DataGroups(mesh), r), <<p>>)

\* How many of them end a step.
Closing(r) ==
  IF DataGroups(mesh) = <<>> THEN 0 ELSE LayersOf(mesh, model, r) * PerLayer

\* The calls of step s.
StepCalls(r, s) ==
  Passes(r, s) \cup {Do("zero_grad"), Do("optimizer")} \cup {Averages(r, p) : p \in 1..Closing(r)}

\* What may be left of step s: passes, the collectives of the gradients one after
\* another, the optimizer; only the whole step begins with zero_grad().
RestOfStep(r, s, calls) ==
  LET n == Len(calls)  m == n - Closing(r) - 1
  IN /\ calls \in Seq(StepCalls(r, s))
     /\ \A i \in 1..m : calls[i] \in Passes(r, s) \/ (i = 1 /\ calls[i] = Do("zero_grad"))
     /\ \A p \in 1..Closing(r) : m + p \in 1..n => calls[m + p] = Averages(r, p)
     /\ n > 0 => calls[n] = Do("optimizer")

\* What may be left of a save.
RestsOfSave(r) ==
  LET m == Do("model.pt")  o == Do("optim.pt")  g == Do("rng.pt")
      h == Meet("hashes", Processes)  b == Meet("barrier", Processes)  l == Do("meta")
  IN IF ~Sharded THEN {<<>>, <<Do("save")>>}
     ELSE IF r = 0
     THEN {<<>>, <<l>>, <<b, l>>, <<h, b, l>>, <<g, h, b, l>>, <<o, g, h, b, l>>, <<m, o, g, h, b, l>>}
     ELSE {<<>>, <<b>>, <<h, b>>, <<g, h, b>>, <<o, g, h, b>>, <<m, o, g, h, b>>}

\* What a rank can be in.
Handlers == {"start", "refused", "groups", "train", "eval", "save", "final", "done"}

\* For each parameter of a slice, the contributions to its gradient.
Gradients(r) == [Parameters(r) -> SUBSET (Int \X Int)]

\* Where a rank is: what it has left fits its handler, the handler its step, and
\* the optimizer has run once for each step that is over.
Placed(r) ==
  /\ at[r] \in {"start", "refused", "groups"} => step[r] = 0
  /\ at[r] \notin {"start", "refused"} => Works
  /\ at[r] \in {"train", "eval", "save", "final", "done"} => step[r] \in 1..MaxSteps
  /\ at[r] \in {"final", "done"} => step[r] = MaxSteps
  /\ at[r] = "save" => SaveDue(step[r])
  /\ at[r] \in {"start", "refused", "done"} => todo[r] = <<>>
  /\ at[r] \in {"groups", "eval"} => todo[r] \in Seq(Plain(r))
  /\ at[r] = "train" => RestOfStep(r, step[r], todo[r])
  /\ at[r] \in {"save", "final"} => todo[r] \in RestsOfSave(r)
  /\ at[r] = "train" /\ todo[r] # <<>> /\ Head(todo[r]) # Do("zero_grad") =>
       grads[r] \in Gradients(r)
  /\ weights[r] \in IF Works THEN Seq(Gradients(r)) ELSE {<<>>}
  /\ Len(weights[r]) = IF at[r] = "train" /\ todo[r] # <<>> THEN step[r] - 1 ELSE step[r]

\* What the variables range over.
MeshTypes ==
  /\ asked \in DOMAIN Asks /\ config = Load(ask) /\ world \in ask.launched
  /\ at \in [Processes -> Handlers] /\ step \in [Processes -> Nat]
  /\ DOMAIN todo = Processes
  /\ DOMAIN grads = Processes /\ DOMAIN weights = Processes
  /\ DOMAIN shards = Labels /\ DOMAIN meta = Labels

\* Each rank by itself.
MeshInv == MeshTypes /\ \A r \in Processes : Placed(r)

-----------------------------------------------------------------------------
(* Gradients.                                                              *)

\* What a rank still has to do of the step it is in.
LeftOf(r) == IF at[r] = "train" THEN Len(todo[r]) ELSE 0

\* Rank r has averaged the gradients of parameter p in step s.
Averaged(r, s, p) == s < step[r] \/ (s = step[r] /\ LeftOf(r) + p <= Closing(r) + 1)

\* The tokens have been even up to a step.
Even(r, s) == \A t \in 1..s : EvenStep(r, t)

\* Its own gradient of a parameter.
OwnGradient(r, p) == {<<p, DataRank(mesh, r)>>}

\* What a rank has applied is whole, as long as the tokens were even.
WeightsFit(r) == \A i \in DOMAIN weights[r] : Even(r, i) => weights[r][i] = Whole(r, i)

\* As long as the tokens are even, replicas have averaged the same gradients.
Matched ==
  \A r \in Processes : \A q \in Replicas(r) : \A s \in 1..MaxSteps : Even(r, s) =>
    \A p \in Reached(r, s) : Averaged(r, s, p) <=> Averaged(q, s, p)

-----------------------------------------------------------------------------
(* Saves.                                                                  *)

\* The saves of a run, in order: one for each label that is due, and the last.
Saves == {s \in 1..MaxSteps : SaveDue(s)} \cup {MaxSteps + 1}
Current(r) == IF at[r] \in {"final", "done"} THEN MaxSteps + 1 ELSE step[r]
LabelOf(s) == IF s > MaxSteps THEN MaxSteps ELSE s

\* The calls that come after the exchange of hashes.
AfterHashes(r) == IF r = 0 THEN 2 ELSE 1

\* Rank r has exchanged the hashes of save s.
Exchanged(r, s) ==
  \/ s < Current(r)
  \/ /\ s = Current(r) /\ at[r] \in {"save", "final", "done"}
     /\ Len(todo[r]) <= AfterHashes(r)

\* The ranks exchange the hashes of a save in one step.
Together == \A r, q \in Processes : \A s \in Saves : Exchanged(r, s) <=> Exchanged(q, s)

\* The files of a shard that have been written, by what is left of the save.
WrittenBefore(r) ==
  LET n == Len(todo[r]) - AfterHashes(r)
  IN (IF n < 4 THEN {"model.pt"} ELSE {}) \cup (IF n < 3 THEN {"optim.pt"} ELSE {})
     \cup (IF n < 2 THEN {"rng.pt"} ELSE {})

\* What a file holds under a label.
Content(l, file) == Holds(SubSeq(weights[file[1]], 1, l))

\* A rank has died of writing this file.
Spoiled(l, file) ==
  LET q == file[1]
  IN /\ shards[l][file] = Torn
     /\ q \in failed /\ at[q] \in {"save", "final"} /\ step[q] = l /\ ~Exchanged(q, Current(q))

\* The files under a label are of its step, or a rank has died of writing them.
ShardsFit ==
  /\ \A l \in Labels : \A file \in DOMAIN shards[l] :
       /\ file \in Processes \X ShardFiles /\ l <= Len(weights[file[1]])
       /\ shards[l][file] = Content(l, file) \/ Spoiled(l, file)
  /\ \A q \in Processes :
       /\ \A s \in Saves : Exchanged(q, s) => {q} \X ShardFiles \subseteq DOMAIN shards[LabelOf(s)]
       /\ at[q] \in {"save", "final"} => {q} \X WrittenBefore(q) \subseteq DOMAIN shards[step[q]]

\* What rank 0 lists, or is about to.
Expected(l) == [file \in Processes \X ShardFiles |-> Content(l, file)]

\* The list rank 0 has been told, and those it has published.
ListsFit ==
  /\ at[0] \in {"save", "final"} /\ todo[0] # <<>> /\ Exchanged(0, Current(0)) =>
       listed = Expected(step[0])
  /\ \A l \in Labels : meta[l] # <<>> =>
       /\ meta[l] = Expected(l)
       /\ \E s \in Saves : LabelOf(s) = l /\ Exchanged(0, s)

\* Why a meta.json is right.
SavesInv ==
  /\ ~Works => \A l \in Labels : meta[l] = <<>>
  /\ Works /\ Sharded => Together /\ ShardsFit /\ ListsFit
-----------------------------------------------------------------------------
(* What a job that works knows of its configuration.                       *)

\* A job that works has a mesh that fits its processes.
LEMMA WorksTyped ==
  ASSUME config = Load(ask), Works
  PROVE  /\ mesh \in Grid /\ Sized(model) /\ Validates(mesh, model)
         /\ mesh.data % mesh.expert = 0
         /\ MaxSteps \in Nat \ {0} /\ Accumulation \in Nat \ {0}
         /\ Processes = Ranks(mesh) /\ Labels = 1..MaxSteps
<1>1. Fits(config)
  BY LoadedFits DEF Works
<1>2. /\ mesh \in Grid /\ Sized(model) /\ Validates(mesh, model)
      /\ MaxSteps \in Nat \ {0} /\ Accumulation \in Nat \ {0}
  BY <1>1, AcceptedTyped DEF Accumulation
<1>3. mesh.data % mesh.expert = 0
  BY <1>2, AcceptedSizes
<1>4. Processes = Ranks(mesh) /\ Labels = 1..MaxSteps
  BY DEF Works, Processes, Ranks, Labels
<1> QED  BY <1>2, <1>3, <1>4

\* Layers, experts and parameters are counted by whole numbers.
LEMMA LayersTyped ==
  ASSUME config = Load(ask), Works, NEW r \in Processes
  PROVE  /\ LayersOf(mesh, model, r) \in Nat \ {0}
         /\ OwnExperts \in Nat /\ PerLayer \in Nat \ {0}
         /\ Closing(r) \in Nat
         /\ Closing(r) # 0 => Parameters(r) = 1..Closing(r)
         /\ DataGroups(mesh) # <<>> => Parameters(r) = 1..Closing(r)
         /\ \A p \in Parameters(r) : p \in Nat \ {0}
         /\ DataRank(mesh, r) \in Nat /\ ExpertRank(mesh, r) \in Nat
<1>1. /\ mesh \in Grid /\ Sized(model) /\ Validates(mesh, model) /\ r \in Ranks(mesh)
      /\ mesh.data % mesh.expert = 0
  BY WorksTyped
<1>2. LayersOf(mesh, model, r) >= 1
  BY <1>1, EveryStageHasLayers
<1>3. LayersOf(mesh, model, r) \in Int
  <2>1. mesh.pipeline \in Nat \ {0} /\ model.layers \in Int
    BY <1>1 DEF Grid, Sized
  <2>2. model.layers \div mesh.pipeline \in Int
    BY <2>1, Quotient
  <2> QED  BY <2>2 DEF LayersOf
<1>4. OwnExperts \in Nat
  <2>1. mesh.expert \in Nat \ {0} /\ model.experts \in Nat \ {0}
    BY <1>1 DEF Grid, Sized
  <2> DEFINE e == mesh.expert  n == model.experts
  <2> HIDE DEF e, n
  <2>2. n \div e \in Nat
    BY <2>1 DEF e, n
  <2> QED  BY <2>2 DEF OwnExperts, e, n
<1>5. PerLayer \in Nat \ {0}
  BY <1>4 DEF PerLayer
<1>6. LayersOf(mesh, model, r) \in Nat \ {0}
  BY <1>2, <1>3
<1>7. LayersOf(mesh, model, r) * PerLayer \in Nat
  BY <1>5, <1>6
<1>8. Closing(r) \in Nat
  BY <1>7 DEF Closing
<1>9. DataGroups(mesh) # <<>> => Parameters(r) = 1..Closing(r)
  BY DEF Closing, Parameters
<1>10. Closing(r) # 0 => Parameters(r) = 1..Closing(r)
  BY <1>9 DEF Closing
<1>11. \A p \in Parameters(r) : p \in Nat \ {0}
  BY <1>7 DEF Parameters
<1>12. DataRank(mesh, r) \in Nat
  BY <1>1, RankIsPlace DEF Grid
<1>13. ExpertRank(mesh, r) \in Nat
  <2>1. ExpertRank(mesh, r) \in 0..mesh.expert - 1
    BY <1>1, BucketAndExpert
  <2>2. mesh.expert \in Nat
    BY <1>1 DEF Grid
  <2> QED  BY <2>1, <2>2
<1> QED  BY <1>4, <1>5, <1>6, <1>8, <1>9, <1>10, <1>11, <1>12, <1>13

-----------------------------------------------------------------------------
(* Lists of calls.                                                         *)

\* Lists of one length, joined: nothing else is in there, and nothing is lost.
OneLength(lists, n, k, S) ==
  lists \in [1..n -> Seq(S)] /\ \A i \in 1..n : Len(lists[i]) = k

\* What joining such lists gives.
JoinedFits(lists, n, k, S) ==
  /\ Joined(lists) \in Seq(S) /\ Len(Joined(lists)) = n * k
  /\ \A i \in 1..n : \A j \in 1..k :
       \E m \in 1..Len(Joined(lists)) : Joined(lists)[m] = lists[i][j]

\* Joining lists of one length loses nothing.
LEMMA JoinedIs ==
  ASSUME NEW S, NEW n \in Nat, NEW k \in Nat, NEW lists, OneLength(lists, n, k, S)
  PROVE  JoinedFits(lists, n, k, S)
<1>0. lists \in [1..n -> Seq(S)] /\ \A i \in 1..n : Len(lists[i]) = k
  BY DEF OneLength
<1> DEFINE at0(i) == lists[((i - 1) \div k) + 1][((i - 1) % k) + 1]
           f == [i \in 1..n * k |-> at0(i)]
<1>1. lists \in Seq(Seq(S)) /\ Len(lists) = n
  BY <1>0, SeqDef
<1>2. Joined(lists) = IF lists = <<>> THEN <<>>
                      ELSE [i \in 1..Len(lists) * Len(lists[1]) |->
                              lists[((i - 1) \div Len(lists[1])) + 1][((i - 1) % Len(lists[1])) + 1]]
  BY Zenon DEF Joined
<1>3. n * k \in Nat
  OBVIOUS
<1>4. CASE n = 0
  <2>1. lists = <<>> /\ n * k = 0
    BY <1>1, <1>4
  <2>2. Joined(lists) = <<>>
    BY <1>2, <2>1
  <2>3. <<>> \in Seq(S) /\ Len(<<>>) = 0 /\ 1..n = {}
    BY <1>4
  <2> QED  BY <2>1, <2>2, <2>3 DEF JoinedFits
<1>5. CASE n # 0
  <2>1. lists # <<>> /\ Len(lists[1]) = k
    BY <1>0, <1>1, <1>5
  <2>2. Joined(lists) = f
    BY <1>1, <1>2, <2>1
  <2>3. ASSUME NEW i \in 1..n * k
        PROVE  at0(i) \in S
    <3>1. k # 0
      BY <2>3
    <3>2. k \in Nat \ {0} /\ i - 1 \in 0..n * k - 1
      BY <1>3, <3>1
    <3>3. (i - 1) \div k \in 0..n - 1 /\ (i - 1) % k \in 0..k - 1
      BY <1>5, <3>2, Digits
    <3>4. ((i - 1) \div k) + 1 \in 1..n /\ ((i - 1) % k) + 1 \in 1..k
      BY <3>2, <3>3
    <3> QED  BY <1>0, <3>4
  <2>4. f \in [1..n * k -> S]
    BY <2>3
  <2> HIDE DEF f
  <2>5. f \in Seq(S) /\ Len(f) = n * k
    BY <1>3, <2>4, SeqDef
  <2>6. ASSUME NEW i \in 1..n, NEW j \in 1..k
        PROVE  \E m \in 1..n * k : f[m] = lists[i][j]
    <3> DEFINE m == ((i - 1) * k + (j - 1)) + 1
    <3>1. k \in Nat \ {0} /\ i - 1 \in 0..n - 1 /\ j - 1 \in 0..k - 1 /\ n \in Nat \ {0}
      BY <1>5
    <3>2. (i - 1) * k + (j - 1) \in 0..n * k - 1
      BY <3>1, Digits
    <3>3. m \in 1..n * k /\ m - 1 = (i - 1) * k + (j - 1)
      BY <1>3, <3>2
    <3>4. ((i - 1) * k + (j - 1)) \div k = i - 1 /\ ((i - 1) * k + (j - 1)) % k = j - 1
      <4> DEFINE a == i - 1  b == j - 1
      <4>1. a \in Int /\ b \in 0..k - 1
        BY <3>1
      <4> HIDE DEF a, b
      <4>2. (a * k + b) \div k = a /\ (a * k + b) % k = b
        BY <3>1, <4>1, QuotientUnique
      <4> QED  BY <4>2 DEF a, b
    <3> HIDE DEF m
    <3>5. f[m] = at0(m)
      BY <3>3 DEF f
    <3>6. at0(m) = lists[(i - 1) + 1][(j - 1) + 1]
      BY <3>3, <3>4
    <3>7. (i - 1) + 1 = i /\ (j - 1) + 1 = j
      OBVIOUS
    <3> QED  BY <3>3, <3>5, <3>6, <3>7
  <2> QED  BY <2>2, <2>5, <2>6 DEF JoinedFits
<1> QED  BY <1>4, <1>5

\* A list of some things is a list of more.
LEMMA Wider ==
  ASSUME NEW S, NEW T, S \subseteq T, NEW s \in Seq(S)
  PROVE  s \in Seq(T)
OBVIOUS

\* A call that may be left out.
LEMMA OnlyTyped ==
  ASSUME NEW condition, NEW S, NEW calls \in Seq(S)
  PROVE  /\ Only(condition, calls) \in Seq(S)
         /\ Len(Only(condition, calls)) = IF condition THEN Len(calls) ELSE 0
BY DEF Only

\* The pieces of the passes.
LEMMA GroupCallsTyped ==
  ASSUME NEW r
  PROVE  /\ Tensor(r) \in Seq(Plain(r)) /\ Expert(r) \in Seq(Plain(r))
         /\ Sequence(r) \in Seq(Plain(r)) /\ Common(r) \in Seq(Plain(r))
<1>1. ASSUME NEW kind \in {"tensor", "expert"},
             NEW peers \in {Mine(TensorGroups(mesh), r), Mine(ExpertGroups(mesh), r)}
      PROVE  <<Meet(kind, peers)>> \in Seq(Plain(r))
  <2>0. <<>> \in Seq(Int)
    OBVIOUS
  <2>1. Meet(kind, peers) \in Plain(r)
    BY <1>1, <2>0 DEF Meet, Call, Plain
  <2> QED  BY <2>1
<1>2. /\ <<Meet("tensor", Mine(TensorGroups(mesh), r))>> \in Seq(Plain(r))
      /\ <<Meet("expert", Mine(ExpertGroups(mesh), r))>> \in Seq(Plain(r))
  BY <1>1
<1>3. Tensor(r) \in Seq(Plain(r)) /\ Expert(r) \in Seq(Plain(r)) /\ Sequence(r) \in Seq(Plain(r))
  BY <1>2, OnlyTyped DEF Tensor, Expert, Sequence
<1>4. Common(r) \in Seq(Plain(r))
  BY <1>3, OnlyTyped DEF Common
<1> QED  BY <1>3, <1>4

\* Five lists one after another.
LEMMA FiveLists ==
  ASSUME NEW S, NEW a \in Seq(S), NEW b \in Seq(S), NEW c \in Seq(S), NEW d \in Seq(S),
         NEW e \in Seq(S)
  PROVE  /\ a \o b \o c \o d \o e \in Seq(S)
         /\ Len(a \o b \o c \o d \o e) = Len(a) + Len(b) + Len(c) + Len(d) + Len(e)
<1> DEFINE w == a \o b  x == w \o c  y == x \o d  z == y \o e
<1>1. w \in Seq(S) /\ Len(w) = Len(a) + Len(b)
  BY ConcatProperties, Zenon
<1> HIDE DEF w
<1>2. x \in Seq(S) /\ Len(x) = Len(w) + Len(c)
  BY <1>1, ConcatProperties, Zenon
<1> HIDE DEF x
<1>3. y \in Seq(S) /\ Len(y) = Len(x) + Len(d)
  BY <1>2, ConcatProperties, Zenon
<1> HIDE DEF y
<1>4. z \in Seq(S) /\ Len(z) = Len(y) + Len(e)
  BY <1>3, ConcatProperties, Zenon
<1>5. z = a \o b \o c \o d \o e
  BY DEF w, x, y
<1> HIDE DEF z
<1>6. Len(z) = Len(a) + Len(b) + Len(c) + Len(d) + Len(e)
  BY <1>1, <1>2, <1>3, <1>4
<1> QED  BY <1>4, <1>5, <1>6

\* A collective that a rank may leave out is a call of a pass.
LEMMA TriesTyped ==
  ASSUME NEW r, NEW of \in Seq(Int)
  PROVE  /\ Try("tensor", Mine(TensorGroups(mesh), r), of) \in Plain(r)
         /\ Try("expert", Mine(ExpertGroups(mesh), r), of) \in Plain(r)
BY DEF Try, Call, Plain

\* The length of lists of one length, joined.
LEMMA JoinedTyped ==
  ASSUME NEW S, NEW n \in Nat, NEW k \in Nat, NEW lists, OneLength(lists, n, k, S)
  PROVE  Joined(lists) \in Seq(S) /\ Len(Joined(lists)) = n * k
BY JoinedIs DEF JoinedFits

\* How many calls the experts of a layer make.
ExpertCalls == IF model.experts > 1 /\ mesh.tensor > 1 THEN OwnExperts ELSE 0

\* The calls of the experts of a layer.
LEMMA ExpertsTyped ==
  ASSUME config = Load(ask), Works, NEW r \in Processes, NEW b \in Int, NEW i \in Int
  PROVE  Experts(r, b, i) \in Seq(Plain(r)) /\ Len(Experts(r, b, i)) = ExpertCalls
<1> DEFINE call(j) == Try("tensor", Mine(TensorGroups(mesh), r), <<b, i, OwnExpert(r, j - 1)>>)
           calls == [j \in 1..OwnExperts |-> call(j)]
<1>1. OwnExperts \in Nat /\ ExpertRank(mesh, r) \in Nat
  BY LayersTyped
<1>2. ASSUME NEW j \in 1..OwnExperts
      PROVE  call(j) \in Plain(r)
  <2>1. OwnExpert(r, j - 1) \in Int
    BY <1>1 DEF OwnExpert
  <2>2. <<b, i, OwnExpert(r, j - 1)>> \in Seq(Int)
    BY <2>1
  <2> QED  BY <2>2, TriesTyped
<1> HIDE DEF call
<1>3. calls \in [1..OwnExperts -> Plain(r)]
  BY <1>2
<1>4. calls \in Seq(Plain(r)) /\ Len(calls) = OwnExperts
  BY <1>1, <1>3, SeqDef
<1>5. Experts(r, b, i) = Only(model.experts > 1 /\ mesh.tensor > 1, calls)
  BY DEF Experts, call
<1> HIDE DEF calls
<1> QED  BY <1>4, <1>5 DEF ExpertCalls, Only

\* How many calls a layer makes, forward.
BlockSize(r) ==
  Len(Tensor(r)) + ExpertCalls + Len(Expert(r)) + Len(Common(r)) + Len(Sequence(r))

\* The calls of a layer, forward.
LEMMA BlockTyped ==
  ASSUME config = Load(ask), Works, NEW r \in Processes, NEW b \in Int, NEW i \in Int
  PROVE  Block(r, b, i) \in Seq(Plain(r)) /\ Len(Block(r, b, i)) = BlockSize(r)
<1> DEFINE S == Plain(r)
<1>1. /\ Tensor(r) \in Seq(S) /\ Expert(r) \in Seq(S) /\ Sequence(r) \in Seq(S)
      /\ Common(r) \in Seq(S)
  BY GroupCallsTyped
<1>2. Experts(r, b, i) \in Seq(S) /\ Len(Experts(r, b, i)) = ExpertCalls
  BY ExpertsTyped
<1> HIDE DEF S
<1>3. /\ Tensor(r) \o Experts(r, b, i) \o Expert(r) \o Common(r) \o Sequence(r) \in Seq(S)
      /\ Len(Tensor(r) \o Experts(r, b, i) \o Expert(r) \o Common(r) \o Sequence(r))
           = Len(Tensor(r)) + Len(Experts(r, b, i)) + Len(Expert(r)) + Len(Common(r)) + Len(Sequence(r))
  BY <1>1, <1>2, FiveLists
<1> QED  BY <1>2, <1>3 DEF Block, BlockSize, S

\* How many calls a layer makes, backward.
BackSize(r) ==
  (IF Balanced THEN Len(Sequence(r)) ELSE 0) + Len(Common(r))
  + (IF mesh.expert > 1 THEN 1 ELSE 0) + ExpertCalls + Len(Tensor(r))

\* The calls of a layer, backward.
LEMMA BlockBackwardTyped ==
  ASSUME config = Load(ask), Works, NEW r \in Processes, NEW b \in Int, NEW i \in Int
  PROVE  BlockBackward(r, b, i) \in Seq(Plain(r)) /\ Len(BlockBackward(r, b, i)) = BackSize(r)
<1> DEFINE S == Plain(r)
           x == Only(Balanced, Sequence(r))
           call == Try("expert", Mine(ExpertGroups(mesh), r), <<b, i>>)
           y == Only(mesh.expert > 1, <<call>>)
<1>1. Tensor(r) \in Seq(S) /\ Sequence(r) \in Seq(S) /\ Common(r) \in Seq(S)
  BY GroupCallsTyped
<1>2. Experts(r, b, i) \in Seq(S) /\ Len(Experts(r, b, i)) = ExpertCalls
  BY ExpertsTyped
<1>3. x \in Seq(S) /\ Len(x) = IF Balanced THEN Len(Sequence(r)) ELSE 0
  BY <1>1, OnlyTyped
<1>4. y \in Seq(S) /\ Len(y) = IF mesh.expert > 1 THEN 1 ELSE 0
  <2>1. <<b, i>> \in Seq(Int)
    OBVIOUS
  <2>2. call \in S
    BY <2>1, TriesTyped
  <2> HIDE DEF call, S
  <2>3. <<call>> \in Seq(S) /\ Len(<<call>>) = 1
    BY <2>2
  <2> QED  BY <2>3, OnlyTyped
<1>5. BlockBackward(r, b, i) = x \o Common(r) \o y \o Experts(r, b, i) \o Tensor(r)
  BY DEF BlockBackward
<1> HIDE DEF S, x, y
<1>6. /\ x \o Common(r) \o y \o Experts(r, b, i) \o Tensor(r) \in Seq(S)
      /\ Len(x \o Common(r) \o y \o Experts(r, b, i) \o Tensor(r))
           = Len(x) + Len(Common(r)) + Len(y) + Len(Experts(r, b, i)) + Len(Tensor(r))
  <2>1. x \in Seq(S) /\ y \in Seq(S)
    BY <1>3, <1>4
  <2> DEFINE p == Common(r)  e == Experts(r, b, i)  t == Tensor(r)
  <2>2. p \in Seq(S) /\ e \in Seq(S) /\ t \in Seq(S)
    BY <1>1, <1>2
  <2> HIDE DEF p, e, t
  <2>3. /\ x \o p \o y \o e \o t \in Seq(S)
        /\ Len(x \o p \o y \o e \o t) = Len(x) + Len(p) + Len(y) + Len(e) + Len(t)
    BY <2>1, <2>2, FiveLists, SMTT(30)
  <2> QED  BY <2>3 DEF p, e, t
<1> QED  BY <1>2, <1>3, <1>4, <1>5, <1>6 DEF BackSize, S

\* They are counted by whole numbers.
LEMMA SizesTyped ==
  ASSUME config = Load(ask), Works, NEW r \in Processes
  PROVE  BlockSize(r) \in Nat /\ BackSize(r) \in Nat
<1>1. Block(r, 0, 0) \in Seq(Plain(r)) /\ Len(Block(r, 0, 0)) = BlockSize(r)
  BY BlockTyped
<1>2. BlockBackward(r, 0, 0) \in Seq(Plain(r)) /\ Len(BlockBackward(r, 0, 0)) = BackSize(r)
  BY BlockBackwardTyped
<1> QED  BY <1>1, <1>2

\* Stages hand over to their neighbours.
LEMMA TransfersTyped ==
  ASSUME NEW r
  PROVE  /\ Send(Next0(mesh, r)) \in Plain(r) /\ Recv(Next0(mesh, r)) \in Plain(r)
         /\ Send(Prev(mesh, r)) \in Plain(r) /\ Recv(Prev(mesh, r)) \in Plain(r)
BY DEF Send, Recv, Call, Plain

\* How many calls a forward pass makes.
ForwardSize(r) ==
  (IF ~IsFirstStage(mesh, r) THEN 1 ELSE 0) + LayersOf(mesh, model, r) * BlockSize(r)
  + (IF ~IsLastStage(mesh, r) THEN 1 ELSE 0)

\* The calls of a forward pass.
LEMMA ForwardTyped ==
  ASSUME config = Load(ask), Works, NEW r \in Processes, NEW b \in Int
  PROVE  Forward(r, b) \in Seq(Plain(r)) /\ Len(Forward(r, b)) = ForwardSize(r)
<1> DEFINE S == Plain(r)
           n == LayersOf(mesh, model, r)
           lists == [i \in 1..n |-> Block(r, b, i)]
           x == Only(~IsFirstStage(mesh, r), <<Recv(Prev(mesh, r))>>)
           y == Only(~IsLastStage(mesh, r), <<Send(Next0(mesh, r))>>)
<1>1. n \in Nat
  BY LayersTyped
<1>2. BlockSize(r) \in Nat
  BY SizesTyped
<1>3. lists \in [1..n -> Seq(S)] /\ \A i \in 1..n : Len(lists[i]) = BlockSize(r)
  <2> HIDE DEF n
  <2>1. ASSUME NEW i \in 1..n
        PROVE  Block(r, b, i) \in Seq(S) /\ Len(Block(r, b, i)) = BlockSize(r)
    <3>1. i \in Int
      BY <1>1
    <3> QED  BY <3>1, BlockTyped
  <2> QED  BY <2>1
<1>4. Recv(Prev(mesh, r)) \in S /\ Send(Next0(mesh, r)) \in S
  BY TransfersTyped
<1>5. /\ x \in Seq(S) /\ Len(x) = IF ~IsFirstStage(mesh, r) THEN 1 ELSE 0
      /\ y \in Seq(S) /\ Len(y) = IF ~IsLastStage(mesh, r) THEN 1 ELSE 0
  BY <1>4 DEF Only
<1>6. Forward(r, b) = x \o Joined(lists) \o y
  BY DEF Forward
<1> HIDE DEF S, n, lists, x, y
<1>7. Joined(lists) \in Seq(S) /\ Len(Joined(lists)) = n * BlockSize(r)
  <2>1. OneLength(lists, n, BlockSize(r), S)
    BY <1>3 DEF OneLength
  <2> QED  BY <1>1, <1>2, <2>1, JoinedTyped, Zenon
<1> DEFINE j == Joined(lists)
<1> HIDE DEF j
<1>8. /\ x \o j \o y \in Seq(S)
      /\ Len(x \o j \o y) = Len(x) + Len(j) + Len(y)
  <2>1. j \in Seq(S)
    BY <1>7 DEF j
  <2> DEFINE w == x \o j
  <2>2. w \in Seq(S) /\ Len(w) = Len(x) + Len(j)
    BY <1>5, <2>1, ConcatProperties, Zenon
  <2> HIDE DEF w
  <2>3. w \o y \in Seq(S) /\ Len(w \o y) = Len(w) + Len(y)
    BY <1>5, <2>2, ConcatProperties, Zenon
  <2> QED  BY <2>2, <2>3 DEF w
<1> QED  BY <1>5, <1>6, <1>7, <1>8 DEF ForwardSize, S, n, j

\* How many calls a backward pass makes.
BackwardSize(r) ==
  (IF ~IsLastStage(mesh, r) THEN 1 ELSE 0) + LayersOf(mesh, model, r) * BackSize(r) + 1
  + (IF ~IsFirstStage(mesh, r) THEN 1 ELSE 0)

\* The calls of a backward pass: backward() is among them.
LEMMA BackwardTyped ==
  ASSUME config = Load(ask), Works, NEW r \in Processes, NEW b \in Int
  PROVE  /\ Backward(r, b) \in Seq(Plain(r) \cup {Backpropagate(b)})
         /\ Len(Backward(r, b)) = BackwardSize(r)
         /\ \E i \in 1..Len(Backward(r, b)) : Backward(r, b)[i] = Backpropagate(b)
<1> DEFINE P == Plain(r)
           S == P \cup {Backpropagate(b)}
           n == LayersOf(mesh, model, r)
           lists == [i \in 1..n |-> BlockBackward(r, b, n + 1 - i)]
           x == Only(~IsLastStage(mesh, r), <<Recv(Next0(mesh, r))>>)
           y == Only(~IsFirstStage(mesh, r), <<Send(Prev(mesh, r))>>)
           c == Backpropagate(b)
<1>1. n \in Nat
  BY LayersTyped
<1>2. BackSize(r) \in Nat
  BY SizesTyped
<1>3. lists \in [1..n -> Seq(P)] /\ \A i \in 1..n : Len(lists[i]) = BackSize(r)
  <2> HIDE DEF n, P
  <2>1. ASSUME NEW i \in 1..n
        PROVE  /\ BlockBackward(r, b, n + 1 - i) \in Seq(P)
               /\ Len(BlockBackward(r, b, n + 1 - i)) = BackSize(r)
    <3>1. n + 1 - i \in Int
      BY <1>1
    <3> QED  BY <3>1, BlockBackwardTyped DEF P
  <2> QED  BY <2>1
<1>4. Recv(Next0(mesh, r)) \in P /\ Send(Prev(mesh, r)) \in P
  BY TransfersTyped
<1>5. /\ x \in Seq(P) /\ Len(x) = IF ~IsLastStage(mesh, r) THEN 1 ELSE 0
      /\ y \in Seq(P) /\ Len(y) = IF ~IsFirstStage(mesh, r) THEN 1 ELSE 0
  BY <1>4 DEF Only
<1>6. Backward(r, b) = x \o Joined(lists) \o <<c>> \o y
  BY DEF Backward
<1> HIDE DEF P, n, lists, x, y
<1>7. Joined(lists) \in Seq(P) /\ Len(Joined(lists)) = n * BackSize(r)
  <2>1. OneLength(lists, n, BackSize(r), P)
    BY <1>3 DEF OneLength
  <2> QED  BY <1>1, <1>2, <2>1, JoinedTyped, Zenon
<1>8. P \subseteq S /\ c \in S
  OBVIOUS
<1> HIDE DEF S, c
<1>9. x \in Seq(S) /\ Joined(lists) \in Seq(S) /\ y \in Seq(S)
  BY <1>5, <1>7, <1>8, Wider
<1> DEFINE j == Joined(lists)
<1> HIDE DEF j
<1>10. /\ x \o j \o <<c>> \o y \in Seq(S)
       /\ Len(x \o j \o <<c>> \o y) = Len(x) + Len(j) + 1 + Len(y)
       /\ Len(x) + Len(j) + 1 \in 1..Len(x \o j \o <<c>> \o y)
       /\ (x \o j \o <<c>> \o y)[Len(x) + Len(j) + 1] = c
  BY <1>8, <1>9 DEF j
<1> QED  BY <1>5, <1>6, <1>7, <1>10 DEF BackwardSize, S, P, n, c, j

\* A call, two lists and a call.
FourParts(t, S, a, p, g, o) ==
  /\ t \in Seq(S) /\ Len(t) = Len(p) + Len(g) + 2 /\ t[1] = a /\ t[Len(t)] = o
  /\ \A i \in 1..Len(p) : t[i + 1] = p[i]
  /\ \A i \in 1..Len(g) : t[Len(p) + 1 + i] = g[i]

\* A step has a head, passes, the collectives of the gradients and an end.
LEMMA FourPartsAre ==
  ASSUME NEW S, NEW a \in S, NEW p \in Seq(S), NEW g \in Seq(S), NEW o \in S
  PROVE  FourParts(<<a>> \o p \o g \o <<o>>, S, a, p, g, o)
<1> DEFINE w == <<a>> \o p  x == w \o g  t == x \o <<o>>
<1>1. <<a>> \in Seq(S) /\ <<o>> \in Seq(S) /\ Len(<<a>>) = 1 /\ Len(<<o>>) = 1
  OBVIOUS
<1>2. /\ w \in Seq(S) /\ Len(w) = 1 + Len(p) /\ w[1] = a
      /\ \A i \in 1..Len(p) : w[i + 1] = p[i]
  OBVIOUS
<1> HIDE DEF w
<1>3. /\ x \in Seq(S) /\ Len(x) = Len(w) + Len(g)
      /\ \A i \in 1..Len(w) : x[i] = w[i]
      /\ \A i \in 1..Len(g) : x[Len(w) + i] = g[i]
  BY <1>2
<1> HIDE DEF x
<1>4. /\ t \in Seq(S) /\ Len(t) = Len(x) + 1 /\ t[Len(x) + 1] = o
      /\ \A i \in 1..Len(x) : t[i] = x[i]
  BY <1>3
<1>5. t = <<a>> \o p \o g \o <<o>>
  BY DEF w, x
<1> HIDE DEF t
<1>6. /\ Len(t) = Len(p) + Len(g) + 2 /\ t[1] = a /\ t[Len(t)] = o
      /\ \A i \in 1..Len(p) : t[i + 1] = p[i]
      /\ \A i \in 1..Len(g) : t[Len(p) + 1 + i] = g[i]
  <2>1. Len(p) \in Nat /\ Len(g) \in Nat
    OBVIOUS
  <2>2. Len(t) = Len(p) + Len(g) + 2 /\ t[1] = a /\ t[Len(t)] = o
    BY <1>2, <1>3, <1>4, <2>1
  <2>3. \A i \in 1..Len(p) : t[i + 1] = p[i]
    BY <1>2, <1>3, <1>4, <2>1
  <2>4. \A i \in 1..Len(g) : t[Len(p) + 1 + i] = g[i]
    <3> TAKE i \in 1..Len(g)
    <3>1. Len(w) + i \in 1..Len(x) /\ Len(w) + i = Len(p) + 1 + i
      BY <1>2, <1>3, <2>1
    <3> QED  BY <1>3, <1>4, <3>1
  <2> QED  BY <2>2, <2>3, <2>4
<1>7. FourParts(t, S, a, p, g, o)
  BY <1>4, <1>6 DEF FourParts
<1> QED  BY <1>5, <1>7

\* The collectives that end a step.
LEMMA SyncTyped ==
  ASSUME config = Load(ask), Works, NEW r \in Processes
  PROVE  /\ Len(SyncGradients(r)) = Closing(r)
         /\ SyncGradients(r) \in Seq({Averages(r, p) : p \in 1..Closing(r)})
         /\ \A p \in 1..Closing(r) : SyncGradients(r)[p] = Averages(r, p)
<1> DEFINE n == Closing(r)
           S == {Averages(r, p) : p \in 1..n}
           g == [p \in 1..n |-> Averages(r, p)]
<1>1. n \in Nat
  BY LayersTyped
<1>2. CASE DataGroups(mesh) = <<>>
  <2>1. SyncGradients(r) = <<>> /\ n = 0
    BY <1>2 DEF SyncGradients, Only, Closing
  <2>2. <<>> \in Seq(S) /\ Len(<<>>) = 0 /\ 1..0 = {}
    OBVIOUS
  <2> HIDE DEF n, S
  <2> QED  BY <2>1, <2>2 DEF n, S
<1>3. CASE DataGroups(mesh) # <<>>
  <2>1. Parameters(r) = 1..n
    BY <1>3, LayersTyped
  <2>2. SyncGradients(r) = g
    BY <1>3, <2>1 DEF SyncGradients, Only, Averages
  <2> HIDE DEF n
  <2>3. g \in [1..n -> S]
    OBVIOUS
  <2> HIDE DEF S
  <2>4. g \in Seq(S) /\ Len(g) = n
    BY <1>1, <2>3, SeqDef
  <2>5. \A p \in 1..n : g[p] = Averages(r, p)
    OBVIOUS
  <2> QED  BY <2>2, <2>4, <2>5 DEF S, n
<1> QED  BY <1>2, <1>3

\* One batch of a step.
LEMMA BatchTyped ==
  ASSUME config = Load(ask), Works, NEW r \in Processes, NEW s \in Int, NEW m \in 1..Accumulation
  PROVE  LET pass == Forward(r, Batch(s, m)) \o Backward(r, Batch(s, m))
         IN /\ pass \in Seq(Passes(r, s)) /\ Len(pass) = ForwardSize(r) + BackwardSize(r)
            /\ \E i \in 1..Len(pass) : pass[i] = Backpropagate(Batch(s, m))
            /\ ForwardSize(r) + BackwardSize(r) \in Nat
<1> DEFINE b == Batch(s, m)  f == Forward(r, b)  g == Backward(r, b)
           S == Passes(r, s)
<1>1. b \in Int /\ b \in BatchesOf(s)
  <2>1. Accumulation \in Nat
    BY WorksTyped
  <2> QED  BY <2>1 DEF Batch, BatchesOf
<1> HIDE DEF b
<1>2. Plain(r) \subseteq S /\ Plain(r) \cup {Backpropagate(b)} \subseteq S
  BY <1>1 DEF Passes
<1>3. f \in Seq(Plain(r)) /\ Len(f) = ForwardSize(r)
  BY <1>1, ForwardTyped
<1>4. /\ g \in Seq(Plain(r) \cup {Backpropagate(b)}) /\ Len(g) = BackwardSize(r)
      /\ \E i \in 1..Len(g) : g[i] = Backpropagate(b)
  BY <1>1, BackwardTyped
<1> HIDE DEF f, g, S
<1>5. f \in Seq(S) /\ g \in Seq(S)
  BY <1>2, <1>3, <1>4, Wider
<1>6. PICK i \in 1..Len(g) : g[i] = Backpropagate(b)
  BY <1>4
<1>7. f \o g \in Seq(S) /\ Len(f \o g) = Len(f) + Len(g) /\ Len(f) + Len(g) \in Nat
  BY <1>5
<1>8. Len(f) + i \in 1..Len(f \o g) /\ (f \o g)[Len(f) + i] = g[i]
  BY <1>5
<1> QED  BY <1>3, <1>4, <1>6, <1>7, <1>8 DEF f, g, S, b

\* Everything a step does, and where it is in it.
LEMMA TrainStepIs ==
  ASSUME config = Load(ask), Works, NEW r \in Processes, NEW s \in Int
  PROVE  /\ RestOfStep(r, s, TrainStep(r, s))
         /\ TrainStep(r, s) # <<>> /\ Head(TrainStep(r, s)) = Do("zero_grad")
         /\ Len(TrainStep(r, s)) > Closing(r) + 1
         /\ \A b \in BatchesOf(s) : \E i \in 1..Len(TrainStep(r, s)) : TrainStep(r, s)[i] = Backpropagate(b)
<1> DEFINE z == Do("zero_grad")  o == Do("optimizer")
           pass(m) == Forward(r, Batch(s, m)) \o Backward(r, Batch(s, m))
           n == Accumulation  k == ForwardSize(r) + BackwardSize(r)
           lists == [m \in 1..n |-> pass(m)]
           p == Joined(lists)
           g == SyncGradients(r)
           c == Closing(r)
           P == Passes(r, s)  S == StepCalls(r, s)
           t == TrainStep(r, s)
<1>1. n \in Nat /\ n >= 1 /\ c \in Nat
  BY WorksTyped, LayersTyped
<1>2. \A m \in 1..n : /\ pass(m) \in Seq(P) /\ Len(pass(m)) = k
                      /\ \E i \in 1..Len(pass(m)) : pass(m)[i] = Backpropagate(Batch(s, m))
  BY BatchTyped
<1>3. k \in Nat
  <2>1. 1 \in 1..Accumulation
    BY <1>1
  <2> QED  BY <2>1, BatchTyped
<1>4. t = <<z>> \o p \o g \o <<o>>
  BY DEF TrainStep
<1> HIDE DEF pass, n, k
<1>5. lists \in [1..n -> Seq(P)] /\ \A m \in 1..n : Len(lists[m]) = k
  <2> HIDE DEF P
  <2> QED  BY <1>2
<1>6. \A m \in 1..n : lists[m] = pass(m)
  OBVIOUS
<1> HIDE DEF lists, P
<1>0. OneLength(lists, n, k, P)
  BY <1>5 DEF OneLength
<1>7. p \in Seq(P) /\ Len(p) = n * k
  BY <1>1, <1>3, <1>0, JoinedTyped, Zenon
<1>8. \A i \in 1..n : \A j \in 1..k : \E m \in 1..Len(p) : p[m] = lists[i][j]
  <2>1. JoinedFits(lists, n, k, P)
    BY <1>1, <1>3, <1>0, JoinedIs, Zenon
  <2> QED  BY <2>1 DEF JoinedFits
<1>9. /\ g \in Seq({Averages(r, q) : q \in 1..c}) /\ Len(g) = c
      /\ \A q \in 1..c : g[q] = Averages(r, q)
  BY SyncTyped
<1>10. z \in S /\ o \in S /\ P \subseteq S /\ {Averages(r, q) : q \in 1..c} \subseteq S
  BY DEF StepCalls, P
<1> HIDE DEF p, g, S, z, o
<1>11. p \in Seq(S) /\ g \in Seq(S)
  BY <1>7, <1>9, <1>10, Wider
<1>12. /\ t \in Seq(S) /\ Len(t) = Len(p) + Len(g) + 2 /\ t[1] = z /\ t[Len(t)] = o
       /\ \A i \in 1..Len(p) : t[i + 1] = p[i]
       /\ \A i \in 1..Len(g) : t[Len(p) + 1 + i] = g[i]
  <2> HIDE DEF t
  <2>1. FourParts(t, S, z, p, g, o)
    BY <1>4, <1>10, <1>11, FourPartsAre, Zenon
  <2> QED  BY <2>1 DEF FourParts
<1> HIDE DEF t, c
<1>13. Len(p) \in Nat
  BY <1>7
<1>14. \A i \in 1..Len(t) - c - 1 : t[i] \in P \/ (i = 1 /\ t[i] = z)
  <2> TAKE i \in 1..Len(t) - c - 1
  <2>1. CASE i = 1
    BY <1>12, <2>1
  <2>2. CASE i # 1
    <3>1. i - 1 \in 1..Len(p) /\ (i - 1) + 1 = i
      BY <1>1, <1>9, <1>12, <1>13, <2>2
    <3>2. t[i] = p[i - 1] /\ p[i - 1] \in P
      BY <1>7, <1>12, <3>1
    <3> QED  BY <3>2
  <2> QED  BY <2>1, <2>2
<1>15. \A q \in 1..c : t[(Len(t) - c - 1) + q] = Averages(r, q)
  <2> TAKE q \in 1..c
  <2>1. Len(t) - c - 1 = Len(p) + 1
    BY <1>1, <1>9, <1>12, <1>13
  <2>2. t[Len(p) + 1 + q] = g[q]
    BY <1>9, <1>12
  <2> QED  BY <1>9, <2>1, <2>2
<1>16. RestOfStep(r, s, t)
  BY <1>12, <1>14, <1>15 DEF RestOfStep, P, S, c, z, o
<1>17. t # <<>> /\ Head(t) = z /\ Len(t) > c + 1
  <2>1. Len(t) > c + 1 /\ c + 1 >= 0
    BY <1>1, <1>9, <1>12, <1>13
  <2>2. t # <<>>
    BY <1>1, <2>1
  <2> QED  BY <1>12, <2>1, <2>2
<1>18. ASSUME NEW b \in BatchesOf(s)
       PROVE  \E i \in 1..Len(t) : t[i] = Backpropagate(b)
  <2>1. PICK m \in 1..n : b = Batch(s, m)
    BY DEF BatchesOf, n
  <2>2. PICK j \in 1..k : pass(m)[j] = Backpropagate(b)
    BY <1>2, <2>1
  <2>3. PICK i \in 1..Len(p) : p[i] = lists[m][j]
    BY <1>8
  <2>4. i + 1 \in 1..Len(t) /\ t[i + 1] = p[i]
    BY <1>1, <1>9, <1>12, <1>13
  <2> QED  BY <1>6, <2>2, <2>3, <2>4
<1> QED  BY <1>16, <1>17, <1>18 DEF t, c, z

\* The end of a sequence.
LEMMA TailIs ==
  ASSUME NEW S, NEW s \in Seq(S), s # <<>>
  PROVE  /\ Tail(s) \in Seq(S) /\ Len(Tail(s)) = Len(s) - 1 /\ Len(s) \in Nat /\ Len(s) >= 1
         /\ \A i \in 1..Len(s) - 1 : Tail(s)[i] = s[i + 1]
         /\ Head(s) = s[1] /\ Head(s) \in S
         /\ Len(s) = 1 <=> Tail(s) = <<>>
<1>1. /\ Tail(s) \in Seq(S) /\ Len(Tail(s)) = Len(s) - 1 /\ Len(s) \in Nat /\ Len(s) >= 1
      /\ \A i \in 1..Len(s) - 1 : Tail(s)[i] = s[i + 1]
      /\ Head(s) = s[1] /\ Head(s) \in S
  OBVIOUS
<1>2. Tail(s) = <<>> <=> Len(Tail(s)) = 0
  BY <1>1, EmptySeq
<1> QED  BY <1>1, <1>2

\* The calls of passes do not touch gradients, weights or files.
LEMMA PlainKinds ==
  ASSUME NEW r, NEW call \in Plain(r)
  PROVE  call.op # "do" /\ call.kind \in {"", "tensor", "expert", "new group"}
BY DEF Plain

\* What the next call of a step is says how much of the step there is left.
NextOfStep(r, s, calls) ==
  LET call == Head(calls)  n == Len(calls)  c == Closing(r)
  IN \/ call = Do("zero_grad") /\ n > c + 1
     \/ call \in Plain(r) /\ n > c + 1
     \/ (\E b \in BatchesOf(s) : call = Backpropagate(b)) /\ n > c + 1
     \/ \E p \in 1..c : call = Averages(r, p) /\ n + p = c + 2
     \/ call = Do("optimizer") /\ n = 1

\* After a call, what is left of a step still is what may be left of it.
LEMMA RestShrinks ==
  ASSUME NEW r, NEW s, NEW calls, Closing(r) \in Nat, RestOfStep(r, s, calls), calls # <<>>
  PROVE  /\ RestOfStep(r, s, Tail(calls)) /\ NextOfStep(r, s, calls)
         /\ Len(calls) \in Nat /\ Len(calls) >= 1 /\ Len(Tail(calls)) = Len(calls) - 1
         /\ Len(calls) = 1 <=> Tail(calls) = <<>>
         /\ Tail(calls) # <<>> => Head(Tail(calls)) # Do("zero_grad")
         /\ \A i \in 1..Len(calls) - 1 : Tail(calls)[i] = calls[i + 1]
         /\ Head(calls) = calls[1]
<1> DEFINE n == Len(calls)  c == Closing(r)  t == Tail(calls)  m == n - c - 1
           P == Passes(r, s)
<1>1. /\ t \in Seq(StepCalls(r, s)) /\ Len(t) = n - 1 /\ n \in Nat /\ n >= 1
      /\ \A i \in 1..n - 1 : t[i] = calls[i + 1]
      /\ Head(calls) = calls[1]
      /\ n = 1 <=> t = <<>>
  <2>1. calls \in Seq(StepCalls(r, s))
    BY DEF RestOfStep
  <2> QED  BY <2>1, TailIs
<1>2. /\ \A i \in 1..m : calls[i] \in P \/ (i = 1 /\ calls[i] = Do("zero_grad"))
      /\ \A p \in 1..c : m + p \in 1..n => calls[m + p] = Averages(r, p)
      /\ calls[n] = Do("optimizer")
  BY <1>1 DEF RestOfStep
<1>3. c \in Nat
  OBVIOUS
<1>0. P = Plain(r) \cup {Backpropagate(b) : b \in BatchesOf(s)}
  BY DEF Passes
<1> HIDE DEF n, c, t, P
<1>4. RestOfStep(r, s, t)
  <2>1. \A i \in 1..Len(t) - c - 1 : t[i] \in P
    <3> TAKE i \in 1..Len(t) - c - 1
    <3>1. i + 1 \in 1..m /\ i \in 1..n - 1 /\ i + 1 # 1
      BY <1>1, <1>3
    <3> QED  BY <1>1, <1>2, <3>1
  <2>2. \A p \in 1..c : (Len(t) - c - 1) + p \in 1..Len(t) =>
          t[(Len(t) - c - 1) + p] = Averages(r, p)
    <3> SUFFICES ASSUME NEW p \in 1..c, (Len(t) - c - 1) + p \in 1..Len(t)
                 PROVE  t[(Len(t) - c - 1) + p] = Averages(r, p)
      OBVIOUS
    <3> DEFINE i == (Len(t) - c - 1) + p
    <3>1. i \in 1..n - 1 /\ i + 1 = m + p /\ m + p \in 1..n
      BY <1>1, <1>3
    <3> HIDE DEF i
    <3>2. t[i] = calls[m + p]
      BY <1>1, <3>1
    <3> QED  BY <1>2, <3>1, <3>2 DEF i
  <2>3. Len(t) > 0 => t[Len(t)] = Do("optimizer")
    <3> SUFFICES ASSUME Len(t) > 0 PROVE t[Len(t)] = Do("optimizer")
      OBVIOUS
    <3>1. n - 1 \in 1..n - 1 /\ (n - 1) + 1 = n
      BY <1>1
    <3> QED  BY <1>1, <1>2, <3>1
  <2> QED  BY <1>1, <2>1, <2>2, <2>3 DEF RestOfStep, c, P
<1>5. NextOfStep(r, s, calls)
  <2>1. CASE n > c + 1
    <3>1. 1 \in 1..m
      BY <1>1, <1>3, <2>1
    <3>2. calls[1] \in P \/ calls[1] = Do("zero_grad")
      BY <1>2, <3>1
    <3> QED  BY <1>0, <1>1, <2>1, <3>2 DEF NextOfStep, n, c
  <2>2. CASE n <= c + 1 /\ n # 1
    <3> DEFINE p == c + 2 - n
    <3>1. p \in 1..c /\ m + p = 1 /\ 1 \in 1..n /\ n + p = c + 2
      BY <1>1, <1>3, <2>2
    <3>2. calls[1] = Averages(r, p)
      BY <1>2, <3>1
    <3> HIDE DEF p
    <3> QED  BY <1>1, <3>1, <3>2 DEF NextOfStep, n, c
  <2>3. CASE n = 1
    <3>1. calls[1] = Do("optimizer")
      BY <1>2, <2>3
    <3> QED  BY <1>1, <2>3, <3>1 DEF NextOfStep, n
  <2> QED  BY <1>1, <1>3, <2>1, <2>2, <2>3
<1>6. t # <<>> => Head(t) # Do("zero_grad")
  <2> SUFFICES ASSUME t # <<>>, Head(t) = Do("zero_grad") PROVE FALSE
    OBVIOUS
  <2>1. n - 1 >= 1 /\ 1 \in 1..n - 1 /\ 1 + 1 = 2 /\ n >= 2
    BY <1>1, <1>3
  <2>2. Head(t) = t[1] /\ t[1] = calls[2]
    BY <1>1, <2>1
  <2>3. Do("zero_grad").op = "do" /\ Do("zero_grad").kind = "zero_grad"
    BY DEF Do, Call
  <2>4. CASE 2 \in 1..m
    <3>1. calls[2] \in P
      BY <1>2, <2>4
    <3>2. \A b : Backpropagate(b).kind = "backward"
      BY DEF Backpropagate, Call
    <3>3. calls[2] \in Plain(r) \/ \E b : calls[2] = Backpropagate(b)
      BY <1>0, <3>1
    <3> QED  BY <2>2, <2>3, <3>2, <3>3, PlainKinds
  <2>5. CASE 2 \notin 1..m /\ n # 2
    <3> DEFINE p == 2 - m
    <3>1. p \in 1..c /\ m + p = 2 /\ 2 \in 1..n
      BY <1>1, <1>3, <2>1, <2>5
    <3>2. calls[2] = Averages(r, p)
      BY <1>2, <3>1
    <3>3. Averages(r, p).op = "try"
      BY DEF Averages, Try, Call
    <3> QED  BY <2>2, <2>3, <3>2, <3>3
  <2>6. CASE n = 2
    <3>1. calls[2] = Do("optimizer") /\ Do("optimizer").kind = "optimizer"
      BY <1>2, <2>6 DEF Do, Call
    <3> QED  BY <2>2, <2>3, <3>1
  <2> QED  BY <2>4, <2>5, <2>6
<1> QED  BY <1>1, <1>4, <1>5, <1>6 DEF t, n

\* The process groups are made by calls of their own.
LEMMA MakeGroupsTyped ==
  ASSUME config = Load(ask), Works, NEW r
  PROVE  MakeGroups \in Seq(Plain(r))
<1> DEFINE g == Meet("new group", Processes)
           A == TensorGroups(mesh)  B == PipelineGroups(mesh)
           C == ExpertGroups(mesh)  D == DataGroups(mesh)
<1>1. ASSUME NEW f, NEW n \in Nat, DOMAIN f = 1..n, f = [i \in DOMAIN f |-> f[i]]
      PROVE  \E S : f \in Seq(S)
  <2>1. f \in [1..n -> {f[i] : i \in 1..n}]
    BY <1>1
  <2> QED  BY <2>1, SeqDef
<1>2. mesh \in Grid /\ mesh.data % mesh.expert = 0
  BY WorksTyped
<1>4. \E S : A \in Seq(S)
  <2>1. CASE mesh.tensor < 2
    BY <2>1, EmptySeq DEF TensorGroups
  <2>2. CASE ~(mesh.tensor < 2)
    <3>1. mesh.data \in Nat \ {0} /\ mesh.pipeline \in Nat \ {0} /\ 1 \in Nat \ {0}
      BY <1>2 DEF Grid
    <3>2. /\ DOMAIN A = DOMAIN Loops(1, mesh.data, mesh.pipeline)
          /\ A = [i \in DOMAIN A |-> A[i]]
      BY <2>2 DEF TensorGroups
    <3>3. Rounds(Loops(1, mesh.data, mesh.pipeline))
      BY <3>1, LoopsAreSome
    <3> HIDE DEF A
    <3>4. PICK n \in Nat \ {0} : DOMAIN A = 1..n
      BY <3>2, <3>3 DEF Rounds
    <3> QED  BY <1>1, <3>2, <3>4
  <2> QED  BY <2>1, <2>2
<1>5. \E S : B \in Seq(S)
  <2>1. CASE mesh.pipeline < 2
    BY <2>1, EmptySeq DEF PipelineGroups
  <2>2. CASE ~(mesh.pipeline < 2)
    <3>1. mesh.data \in Nat \ {0} /\ mesh.tensor \in Nat \ {0} /\ 1 \in Nat \ {0}
      BY <1>2 DEF Grid
    <3>2. /\ DOMAIN B = DOMAIN Loops(1, mesh.data, mesh.tensor)
          /\ B = [i \in DOMAIN B |-> B[i]]
      BY <2>2 DEF PipelineGroups
    <3>3. Rounds(Loops(1, mesh.data, mesh.tensor))
      BY <3>1, LoopsAreSome
    <3> HIDE DEF B
    <3>4. PICK n \in Nat \ {0} : DOMAIN B = 1..n
      BY <3>2, <3>3 DEF Rounds
    <3> QED  BY <1>1, <3>2, <3>4
  <2> QED  BY <2>1, <2>2
<1>6. Buckets(mesh) \in Nat \ {0}
  <2>1. mesh.data \in Nat \ {0} /\ mesh.expert \in Nat \ {0} /\ mesh.data % mesh.expert = 0
    BY <1>2 DEF Grid
  <2> QED  BY <2>1, PartsOfMultiple DEF Buckets
<1>7. \E S : C \in Seq(S)
  <2>1. CASE mesh.expert < 2
    BY <2>1, EmptySeq DEF ExpertGroups
  <2>2. CASE ~(mesh.expert < 2)
    <3>1. mesh.pipeline \in Nat \ {0} /\ mesh.tensor \in Nat \ {0}
      BY <1>2 DEF Grid
    <3>2. /\ DOMAIN C = DOMAIN Loops(Buckets(mesh), mesh.pipeline, mesh.tensor)
          /\ C = [i \in DOMAIN C |-> C[i]]
      BY <2>2 DEF ExpertGroups
    <3>3. Rounds(Loops(Buckets(mesh), mesh.pipeline, mesh.tensor))
      BY <1>6, <3>1, LoopsAreSome
    <3> HIDE DEF C
    <3>4. PICK n \in Nat \ {0} : DOMAIN C = 1..n
      BY <3>2, <3>3 DEF Rounds
    <3> QED  BY <1>1, <3>2, <3>4
  <2> QED  BY <2>1, <2>2
<1>8. \E S : D \in Seq(S)
  <2>1. CASE Buckets(mesh) < 2
    BY <2>1, EmptySeq DEF DataGroups
  <2>2. CASE ~(Buckets(mesh) < 2)
    <3>1. mesh.expert \in Nat \ {0} /\ mesh.pipeline \in Nat \ {0} /\ mesh.tensor \in Nat \ {0}
      BY <1>2 DEF Grid
    <3>2. /\ DOMAIN D = DOMAIN Loops(mesh.expert, mesh.pipeline, mesh.tensor)
          /\ D = [i \in DOMAIN D |-> D[i]]
      BY <2>2 DEF DataGroups
    <3>3. Rounds(Loops(mesh.expert, mesh.pipeline, mesh.tensor))
      BY <3>1, LoopsAreSome
    <3> HIDE DEF D
    <3>4. PICK n \in Nat \ {0} : DOMAIN D = 1..n
      BY <3>2, <3>3 DEF Rounds
    <3> QED  BY <1>1, <3>2, <3>4
  <2> QED  BY <2>1, <2>2
<1> HIDE DEF A, B, C, D
<1>9. PICK S1, S2, S3, S4 : A \in Seq(S1) /\ B \in Seq(S2) /\ C \in Seq(S3) /\ D \in Seq(S4)
  BY <1>4, <1>5, <1>7, <1>8
<1>10. ASSUME NEW S, NEW T, S \subseteq T, NEW s \in Seq(S)
       PROVE  s \in Seq(T)
  BY <1>10
<1> DEFINE U == S1 \cup S2 \cup S3 \cup S4
<1>11. A \in Seq(U) /\ B \in Seq(U) /\ C \in Seq(U) /\ D \in Seq(U)
  <2>1. S1 \subseteq U /\ S2 \subseteq U /\ S3 \subseteq U /\ S4 \subseteq U
    OBVIOUS
  <2> HIDE DEF U
  <2> QED  BY <1>9, <1>10, <2>1
<1> HIDE DEF U
<1>12. A \o B \o C \o D \in Seq(U)
  BY <1>11
<1>13. AllGroups(mesh) \in Seq(U)
  BY <1>12 DEF AllGroups, A, B, C, D
<1> DEFINE n == Len(AllGroups(mesh))
<1>14. n \in Nat /\ DOMAIN AllGroups(mesh) = 1..n
  BY <1>13
<1>15. MakeGroups = [i \in 1..n |-> g]
  BY <1>14 DEF MakeGroups
<1>16. g \in Plain(r)
  <2>1. <<>> \in Seq(Int)
    OBVIOUS
  <2> QED  BY <2>1 DEF Meet, Call, Plain
<1> HIDE DEF n, g
<1>17. [i \in 1..n |-> g] \in [1..n -> Plain(r)]
  BY <1>16
<1> QED  BY <1>14, <1>15, <1>17, SeqDef

-----------------------------------------------------------------------------
(* The calls of a save.                                                    *)

\* A save begins with all of its calls.
LEMMA SaveCallsAre ==
  ASSUME NEW r
  PROVE  /\ SaveCalls(r) \in RestsOfSave(r) /\ SaveCalls(r) # <<>>
         /\ Sharded => Len(SaveCalls(r)) = AfterHashes(r) + 4
<1> DEFINE m == Do("model.pt")  o == Do("optim.pt")  g == Do("rng.pt")
           h == Meet("hashes", Processes)  b == Meet("barrier", Processes)  l == Do("meta")
           v == Do("save")
<1>0. /\ SaveCalls(r) = IF ~Sharded THEN <<v>>
                        ELSE <<m, o, g>> \o <<h, b>> \o (IF r = 0 THEN <<l>> ELSE <<>>)
      /\ AfterHashes(r) = IF r = 0 THEN 2 ELSE 1
  BY DEF SaveCalls, WriteShard, Only, AfterHashes
<1>9. RestsOfSave(r) =
       IF ~Sharded THEN {<<>>, <<v>>}
       ELSE IF r = 0
       THEN {<<>>, <<l>>, <<b, l>>, <<h, b, l>>, <<g, h, b, l>>, <<o, g, h, b, l>>, <<m, o, g, h, b, l>>}
       ELSE {<<>>, <<b>>, <<h, b>>, <<g, h, b>>, <<o, g, h, b>>, <<m, o, g, h, b>>}
  BY DEF RestsOfSave
<1> HIDE DEF m, o, g, h, b, l, v
<1>1. CASE ~Sharded
  <2>1. SaveCalls(r) = <<v>> /\ <<v>> # <<>>
    BY <1>0, <1>1
  <2> QED  BY <1>1, <1>9, <2>1
<1>2. <<m, o, g>> \o <<h, b>> = <<m, o, g, h, b>>
  <2> DEFINE S == {m, o, g, h, b}  x == <<m, o, g>>  y == <<h, b>>  z == <<m, o, g, h, b>>
  <2>1. x \in Seq(S) /\ y \in Seq(S) /\ z \in Seq(S) /\ Len(x) = 3 /\ Len(y) = 2 /\ Len(z) = 5
    OBVIOUS
  <2>2. /\ x[1] = z[1] /\ x[2] = z[2] /\ x[3] = z[3] /\ y[1] = z[4] /\ y[2] = z[5]
    OBVIOUS
  <2> HIDE DEF S, x, y, z
  <2>0. /\ x \o y \in Seq(S) /\ Len(x \o y) = Len(x) + Len(y)
        /\ \A i \in 1..Len(x) + Len(y) : (x \o y)[i] = IF i <= Len(x) THEN x[i] ELSE y[i - Len(x)]
    BY <2>1, ConcatProperties, Zenon
  <2>3. /\ x \o y \in Seq(S) /\ Len(x \o y) = 5
        /\ \A i \in 1..5 : (x \o y)[i] = IF i <= 3 THEN x[i] ELSE y[i - 3]
    BY <2>0, <2>1
  <2>4. \A i \in 1..5 : (x \o y)[i] = z[i]
    <3> TAKE i \in 1..5
    <3>1. i = 1 \/ i = 2 \/ i = 3 \/ i = 4 \/ i = 5
      OBVIOUS
    <3> QED  BY <2>2, <2>3, <3>1
  <2>5. x \o y = z
    BY <2>1, <2>3, <2>4, SeqEqual
  <2> QED  BY <2>5 DEF x, y, z
<1>3. <<m, o, g, h, b>> \o <<l>> = <<m, o, g, h, b, l>>
  <2> DEFINE S == {m, o, g, h, b, l}  x == <<m, o, g, h, b>>  y == <<l>>  z == <<m, o, g, h, b, l>>
  <2>1. x \in Seq(S) /\ y \in Seq(S) /\ z \in Seq(S) /\ Len(x) = 5 /\ Len(y) = 1 /\ Len(z) = 6
    OBVIOUS
  <2>2. /\ x[1] = z[1] /\ x[2] = z[2] /\ x[3] = z[3] /\ x[4] = z[4] /\ x[5] = z[5] /\ y[1] = z[6]
    OBVIOUS
  <2> HIDE DEF S, x, y, z
  <2>0. /\ x \o y \in Seq(S) /\ Len(x \o y) = Len(x) + Len(y)
        /\ \A i \in 1..Len(x) + Len(y) : (x \o y)[i] = IF i <= Len(x) THEN x[i] ELSE y[i - Len(x)]
    BY <2>1, ConcatProperties, Zenon
  <2>3. /\ x \o y \in Seq(S) /\ Len(x \o y) = 6
        /\ \A i \in 1..6 : (x \o y)[i] = IF i <= 5 THEN x[i] ELSE y[i - 5]
    BY <2>0, <2>1
  <2>4. \A i \in 1..6 : (x \o y)[i] = z[i]
    <3> TAKE i \in 1..6
    <3>1. i = 1 \/ i = 2 \/ i = 3 \/ i = 4 \/ i = 5 \/ i = 6
      OBVIOUS
    <3> QED  BY <2>2, <2>3, <3>1
  <2>5. x \o y = z
    BY <2>1, <2>3, <2>4, SeqEqual
  <2> QED  BY <2>5 DEF x, y, z
<1>4. CASE Sharded /\ r = 0
  <2>1. SaveCalls(r) = <<m, o, g, h, b, l>>
    BY <1>0, <1>2, <1>3, <1>4
  <2>2. Len(<<m, o, g, h, b, l>>) = 6 /\ <<m, o, g, h, b, l>> # <<>>
    OBVIOUS
  <2>3. SaveCalls(r) \in RestsOfSave(r)
    BY <1>4, <1>9, <2>1
  <2>4. AfterHashes(r) + 4 = 6
    BY <1>0, <1>4
  <2> QED  BY <2>1, <2>2, <2>3, <2>4
<1>5. CASE Sharded /\ r # 0
  <2>1. <<m, o, g, h, b>> \o <<>> = <<m, o, g, h, b>>
    <3>1. <<m, o, g, h, b>> \in Seq({m, o, g, h, b})
      OBVIOUS
    <3> QED  BY <3>1, ConcatEmptySeq
  <2>2. SaveCalls(r) = <<m, o, g, h, b>>
    BY <1>0, <1>2, <1>5, <2>1
  <2>3. Len(<<m, o, g, h, b>>) = 5 /\ <<m, o, g, h, b>> # <<>>
    OBVIOUS
  <2>4. SaveCalls(r) \in RestsOfSave(r)
    BY <1>5, <1>9, <2>2
  <2>5. AfterHashes(r) + 4 = 5
    BY <1>0, <1>5
  <2> QED  BY <2>2, <2>3, <2>4, <2>5
<1> QED  BY <1>1, <1>4, <1>5

\* What the next call of a save is says how much of the save there is left.
NextOfSave(r, calls) ==
  LET call == Head(calls)  n == Len(calls) - AfterHashes(r)
  IN \/ ~Sharded /\ call = Do("save")
     \/ /\ Sharded
        /\ \/ call = Do("model.pt") /\ n = 4
           \/ call = Do("optim.pt") /\ n = 3
           \/ call = Do("rng.pt") /\ n = 2
           \/ call = Meet("hashes", Processes) /\ n = 1
           \/ call = Meet("barrier", Processes) /\ n = 0
           \/ call = Do("meta") /\ n = -1 /\ r = 0

\* After a call, what is left of a save still is what may be left of it.
LEMMA SaveShrinks ==
  ASSUME NEW r, NEW calls \in RestsOfSave(r), calls # <<>>
  PROVE  /\ Tail(calls) \in RestsOfSave(r) /\ NextOfSave(r, calls)
         /\ Len(calls) \in Nat /\ Len(calls) >= 1 /\ Len(Tail(calls)) = Len(calls) - 1
<1> DEFINE m == Do("model.pt")  o == Do("optim.pt")  g == Do("rng.pt")
           h == Meet("hashes", Processes)  b == Meet("barrier", Processes)  l == Do("meta")
           v == Do("save")
<1>1. RestsOfSave(r) =
       IF ~Sharded THEN {<<>>, <<v>>}
       ELSE IF r = 0
       THEN {<<>>, <<l>>, <<b, l>>, <<h, b, l>>, <<g, h, b, l>>, <<o, g, h, b, l>>, <<m, o, g, h, b, l>>}
       ELSE {<<>>, <<b>>, <<h, b>>, <<g, h, b>>, <<o, g, h, b>>, <<m, o, g, h, b>>}
  BY DEF RestsOfSave
<1>2. AfterHashes(r) = IF r = 0 THEN 2 ELSE 1
  BY DEF AfterHashes
<1>3. NextOfSave(r, calls) <=>
        \/ ~Sharded /\ Head(calls) = v
        \/ /\ Sharded
           /\ \/ Head(calls) = m /\ Len(calls) - AfterHashes(r) = 4
              \/ Head(calls) = o /\ Len(calls) - AfterHashes(r) = 3
              \/ Head(calls) = g /\ Len(calls) - AfterHashes(r) = 2
              \/ Head(calls) = h /\ Len(calls) - AfterHashes(r) = 1
              \/ Head(calls) = b /\ Len(calls) - AfterHashes(r) = 0
              \/ Head(calls) = l /\ Len(calls) - AfterHashes(r) = -1 /\ r = 0
  BY DEF NextOfSave
<1> HIDE DEF m, o, g, h, b, l, v
<1>4. CASE ~Sharded
  <2>1. calls = <<v>>
    BY <1>1, <1>4
  <2>2. Tail(calls) = <<>> /\ Head(calls) = v /\ Len(calls) = 1 /\ Len(Tail(calls)) = 0
    BY <2>1
  <2> QED  BY <1>1, <1>3, <1>4, <2>2
<1>5. ASSUME Sharded, r = 0
      PROVE  /\ Tail(calls) \in RestsOfSave(r) /\ NextOfSave(r, calls)
             /\ Len(calls) \in Nat /\ Len(calls) >= 1 /\ Len(Tail(calls)) = Len(calls) - 1
  <2>1. CASE calls = <<l>>
    <3>1. Tail(calls) = <<>> /\ Head(calls) = l /\ Len(calls) = 1 /\ Len(Tail(calls)) = 0
      BY <2>1
    <3> QED  BY <1>1, <1>2, <1>3, <1>5, <3>1
  <2>2. CASE calls = <<b, l>>
    <3>1. Tail(calls) = <<l>> /\ Head(calls) = b /\ Len(calls) = 2 /\ Len(Tail(calls)) = 1
      BY <2>2
    <3> QED  BY <1>1, <1>2, <1>3, <1>5, <3>1
  <2>3. CASE calls = <<h, b, l>>
    <3>1. Tail(calls) = <<b, l>> /\ Head(calls) = h /\ Len(calls) = 3 /\ Len(Tail(calls)) = 2
      BY <2>3
    <3> QED  BY <1>1, <1>2, <1>3, <1>5, <3>1
  <2>4. CASE calls = <<g, h, b, l>>
    <3>1. Tail(calls) = <<h, b, l>> /\ Head(calls) = g /\ Len(calls) = 4 /\ Len(Tail(calls)) = 3
      BY <2>4
    <3> QED  BY <1>1, <1>2, <1>3, <1>5, <3>1
  <2>5. CASE calls = <<o, g, h, b, l>>
    <3>1. Tail(calls) = <<g, h, b, l>> /\ Head(calls) = o /\ Len(calls) = 5 /\ Len(Tail(calls)) = 4
      BY <2>5
    <3> QED  BY <1>1, <1>2, <1>3, <1>5, <3>1
  <2>6. CASE calls = <<m, o, g, h, b, l>>
    <3>1. Tail(calls) = <<o, g, h, b, l>> /\ Head(calls) = m /\ Len(calls) = 6 /\ Len(Tail(calls)) = 5
      BY <2>6
    <3> QED  BY <1>1, <1>2, <1>3, <1>5, <3>1
  <2> QED  BY <1>1, <1>5, <2>1, <2>2, <2>3, <2>4, <2>5, <2>6
<1>6. ASSUME Sharded, r # 0
      PROVE  /\ Tail(calls) \in RestsOfSave(r) /\ NextOfSave(r, calls)
             /\ Len(calls) \in Nat /\ Len(calls) >= 1 /\ Len(Tail(calls)) = Len(calls) - 1
  <2>1. CASE calls = <<b>>
    <3>1. Tail(calls) = <<>> /\ Head(calls) = b /\ Len(calls) = 1 /\ Len(Tail(calls)) = 0
      BY <2>1
    <3> QED  BY <1>1, <1>2, <1>3, <1>6, <3>1
  <2>2. CASE calls = <<h, b>>
    <3>1. Tail(calls) = <<b>> /\ Head(calls) = h /\ Len(calls) = 2 /\ Len(Tail(calls)) = 1
      BY <2>2
    <3> QED  BY <1>1, <1>2, <1>3, <1>6, <3>1
  <2>3. CASE calls = <<g, h, b>>
    <3>1. Tail(calls) = <<h, b>> /\ Head(calls) = g /\ Len(calls) = 3 /\ Len(Tail(calls)) = 2
      BY <2>3
    <3> QED  BY <1>1, <1>2, <1>3, <1>6, <3>1
  <2>4. CASE calls = <<o, g, h, b>>
    <3>1. Tail(calls) = <<g, h, b>> /\ Head(calls) = o /\ Len(calls) = 4 /\ Len(Tail(calls)) = 3
      BY <2>4
    <3> QED  BY <1>1, <1>2, <1>3, <1>6, <3>1
  <2>5. CASE calls = <<m, o, g, h, b>>
    <3>1. Tail(calls) = <<o, g, h, b>> /\ Head(calls) = m /\ Len(calls) = 5 /\ Len(Tail(calls)) = 4
      BY <2>5
    <3> QED  BY <1>1, <1>2, <1>3, <1>6, <3>1
  <2> QED  BY <1>1, <1>6, <2>1, <2>2, <2>3, <2>4, <2>5
<1> QED  BY <1>4, <1>5, <1>6

-----------------------------------------------------------------------------
(* The next call of a rank.                                                *)

\* Calls of different kinds differ.
LEMMA CallKinds ==
  /\ \A what : Do(what).op = "do" /\ Do(what).kind = what
  /\ \A kind, ranks : /\ Meet(kind, ranks).op = "meet" /\ Meet(kind, ranks).kind = kind
                      /\ Meet(kind, ranks).peers = ranks
  /\ \A b : /\ Backpropagate(b).op = "do" /\ Backpropagate(b).kind = "backward"
            /\ Backpropagate(b).of = <<b>> /\ Backpropagate(b).of[1] = b
  /\ \A r, p : /\ Averages(r, p).op = "try" /\ Averages(r, p).kind = "gradients"
               /\ Averages(r, p).peers = Mine(DataGroups(mesh), r) /\ Averages(r, p).of[1] = p
  /\ \A q : /\ Send(q).op = "send" /\ Send(q).kind = ""
            /\ Recv(q).op = "recv" /\ Recv(q).kind = ""
BY DEF Do, Meet, Backpropagate, Averages, Try, Send, Recv, Call

\* Which call it is says where the rank is.
LEMMA NextCall ==
  ASSUME MeshInv, NEW r \in Processes, todo[r] # <<>>
  PROVE  /\ Works /\ config = Load(ask) /\ Closing(r) \in Nat
         /\ Len(todo[r]) \in Nat /\ Len(todo[r]) >= 1 /\ Len(Tail(todo[r])) = Len(todo[r]) - 1
         /\ \/ at[r] \in {"groups", "eval"} /\ Head(todo[r]) \in Plain(r)
            \/ at[r] = "train" /\ NextOfStep(r, step[r], todo[r])
            \/ at[r] \in {"save", "final"} /\ NextOfSave(r, todo[r])
<1>1. Placed(r) /\ config = Load(ask) /\ at[r] \in Handlers
  BY DEF MeshInv, MeshTypes
<1>2. at[r] \in {"groups", "train", "eval", "save", "final"} /\ Works
  BY <1>1 DEF Placed, Handlers
<1>3. Closing(r) \in Nat
  BY <1>1, <1>2, LayersTyped
<1>4. CASE at[r] \in {"groups", "eval"}
  <2>1. todo[r] \in Seq(Plain(r))
    BY <1>1, <1>4 DEF Placed
  <2> QED  BY <1>1, <1>2, <1>3, <1>4, <2>1, TailIs
<1>5. CASE at[r] = "train"
  <2>1. RestOfStep(r, step[r], todo[r])
    BY <1>1, <1>5 DEF Placed
  <2> QED  BY <1>1, <1>2, <1>3, <1>5, <2>1, RestShrinks
<1>6. CASE at[r] \in {"save", "final"}
  <2>1. todo[r] \in RestsOfSave(r)
    BY <1>1, <1>6 DEF Placed
  <2> QED  BY <1>1, <1>2, <1>3, <1>6, <2>1, SaveShrinks
<1> QED  BY <1>2, <1>4, <1>5, <1>6

\* A call whose kind is of interest.
LEMMA CallsOfKind ==
  ASSUME MeshInv, NEW r \in Processes, todo[r] # <<>>
  PROVE  LET call == Head(todo[r])  n == Len(todo[r])
         IN /\ call.kind = "gradients" =>
                 /\ at[r] = "train"
                 /\ \E p \in 1..Closing(r) : call = Averages(r, p) /\ n + p = Closing(r) + 2
            /\ call.kind = "zero_grad" => at[r] = "train" /\ call = Do("zero_grad") /\ n > Closing(r) + 1
            /\ call.kind = "backward" =>
                 at[r] = "train" /\ n > Closing(r) + 1 /\ \E b \in BatchesOf(step[r]) : call = Backpropagate(b)
            /\ call.kind = "optimizer" => at[r] = "train" /\ call = Do("optimizer") /\ n = 1
            /\ call.kind \in {"hashes", "barrier", "meta"} \cup ShardFiles =>
                 at[r] \in {"save", "final"} /\ Sharded /\ NextOfSave(r, todo[r])
            /\ call.kind = "hashes" => n = AfterHashes(r) + 1 /\ call = Meet("hashes", Processes)
            /\ call.kind = "save" => at[r] \in {"save", "final"} /\ ~Sharded
            /\ call \in Plain(r) => at[r] \in {"groups", "eval", "train"}
            /\ at[r] = "train" /\ n <= Closing(r) + 1 => call.kind \in {"gradients", "optimizer"}
            /\ at[r] \in {"save", "final"} /\ Sharded => NextOfSave(r, todo[r])
<1> DEFINE call == Head(todo[r])  n == Len(todo[r])  c == Closing(r)
<1>1. n \in Nat /\ n >= 1 /\ c \in Nat
  BY NextCall
<1>2. CASE call \in Plain(r) /\ at[r] \in {"groups", "eval"}
  <2>1. call.kind \in {"", "tensor", "expert", "new group"}
    BY <1>2, PlainKinds
  <2> QED  BY <1>2, <2>1 DEF ShardFiles
<1>3. CASE at[r] = "train" /\ NextOfStep(r, step[r], todo[r])
  <2>1. CASE call = Do("zero_grad") /\ n > c + 1
    <3>1. call.kind = "zero_grad" /\ call.op = "do"
      BY <2>1 DEF Do, Call
    <3>2. call \notin Plain(r)
      BY <3>1, PlainKinds
    <3> QED  BY <1>1, <1>3, <2>1, <3>1, <3>2 DEF ShardFiles
  <2>2. CASE call \in Plain(r) /\ n > c + 1
    <3>1. call.kind \in {"", "tensor", "expert", "new group"}
      BY <2>2, PlainKinds
    <3>2. call.kind \notin {"gradients", "zero_grad", "backward", "optimizer", "hashes", "barrier",
                            "meta", "save", "model.pt", "optim.pt", "rng.pt"}
      BY <3>1
    <3> QED  BY <1>1, <1>3, <2>2, <3>2 DEF ShardFiles
  <2>3. CASE (\E b \in BatchesOf(step[r]) : call = Backpropagate(b)) /\ n > c + 1
    <3>1. call.kind = "backward" /\ call.op = "do"
      BY <2>3 DEF Backpropagate, Call
    <3>2. call \notin Plain(r)
      BY <3>1, PlainKinds
    <3> QED  BY <1>1, <1>3, <2>3, <3>1, <3>2 DEF ShardFiles
  <2>4. CASE \E p \in 1..c : call = Averages(r, p) /\ n + p = c + 2
    <3>1. call.kind = "gradients"
      BY <2>4 DEF Averages, Try, Call
    <3>2. call \notin Plain(r)
      BY <3>1, PlainKinds
    <3> QED  BY <1>1, <1>3, <2>4, <3>1, <3>2 DEF ShardFiles
  <2>5. CASE call = Do("optimizer") /\ n = 1
    <3>1. call.kind = "optimizer" /\ call.op = "do"
      BY <2>5 DEF Do, Call
    <3>2. call \notin Plain(r)
      BY <3>1, PlainKinds
    <3> QED  BY <1>1, <1>3, <2>5, <3>1, <3>2 DEF ShardFiles
  <2> QED  BY <1>3, <2>1, <2>2, <2>3, <2>4, <2>5 DEF NextOfStep
<1>4. CASE at[r] \in {"save", "final"} /\ NextOfSave(r, todo[r])
  <2>0. AfterHashes(r) \in {1, 2}
    BY DEF AfterHashes
  <2>1. CASE ~Sharded /\ call = Do("save")
    <3>1. call.kind = "save" /\ call.op = "do"
      BY <2>1 DEF Do, Call
    <3>2. call \notin Plain(r)
      BY <3>1, PlainKinds
    <3> QED  BY <1>4, <2>1, <3>1, <3>2 DEF ShardFiles
  <2>2. CASE Sharded /\ call \in {Do("model.pt"), Do("optim.pt"), Do("rng.pt"), Do("meta")}
    <3>1. call.kind \in {"model.pt", "optim.pt", "rng.pt", "meta"} /\ call.op = "do"
      BY <2>2 DEF Do, Call
    <3>2. call \notin Plain(r)
      BY <3>1, PlainKinds
    <3> QED  BY <1>4, <2>2, <3>1, <3>2 DEF ShardFiles
  <2>3. CASE Sharded /\ call = Meet("hashes", Processes) /\ n - AfterHashes(r) = 1
    <3>1. call.kind = "hashes"
      BY <2>3 DEF Meet, Call
    <3>2. call \notin Plain(r)
      BY <3>1, PlainKinds
    <3>3. n = AfterHashes(r) + 1
      BY <1>1, <2>0, <2>3
    <3> QED  BY <1>4, <2>3, <3>1, <3>2, <3>3 DEF ShardFiles
  <2>4. CASE Sharded /\ call = Meet("barrier", Processes)
    <3>1. call.kind = "barrier"
      BY <2>4 DEF Meet, Call
    <3>2. call \notin Plain(r)
      BY <3>1, PlainKinds
    <3> QED  BY <1>4, <2>4, <3>1, <3>2 DEF ShardFiles
  <2> QED  BY <1>4, <2>1, <2>2, <2>3, <2>4 DEF NextOfSave
<1> QED  BY <1>2, <1>3, <1>4, NextCall

-----------------------------------------------------------------------------
(* What no step changes.                                                   *)

\* The configuration and everything that follows from it stay.
LEMMA SameJob ==
  ASSUME UNCHANGED job
  PROVE  /\ Processes' = Processes /\ mesh' = mesh /\ model' = model /\ MaxSteps' = MaxSteps
         /\ Labels' = Labels /\ Sharded' = Sharded /\ Works' = Works /\ Saves' = Saves
         /\ \A s : SaveDue(s)' = SaveDue(s) /\ LabelOf(s)' = LabelOf(s) /\ BatchesOf(s)' = BatchesOf(s)
         /\ \A r : /\ Plain(r)' = Plain(r) /\ RestsOfSave(r)' = RestsOfSave(r)
                   /\ Closing(r)' = Closing(r) /\ Parameters(r)' = Parameters(r)
                   /\ Gradients(r)' = Gradients(r) /\ Replicas(r)' = Replicas(r)
         /\ \A r, s, calls : RestOfStep(r, s, calls)' = RestOfStep(r, s, calls)
<1>1. config' = config /\ world' = world /\ asked' = asked /\ router' = router
  BY DEF job
<1>2. /\ Processes' = Processes /\ mesh' = mesh /\ model' = model /\ MaxSteps' = MaxSteps
      /\ Labels' = Labels /\ Sharded' = Sharded /\ Works' = Works
      /\ Accumulation' = Accumulation
  BY <1>1 DEF Processes, mesh, model, MaxSteps, Labels, Sharded, Works, Accumulation
<1>3. \A s : SaveDue(s)' = SaveDue(s) /\ LabelOf(s)' = LabelOf(s)
  BY <1>1, <1>2 DEF SaveDue, LabelOf
<1>4. Saves' = Saves
  BY <1>2, <1>3 DEF Saves
<1>5. \A s, m : Batch(s, m)' = Batch(s, m)
  BY <1>2 DEF Batch
<1>6. \A s : BatchesOf(s)' = BatchesOf(s)
  BY <1>2, <1>5 DEF BatchesOf
<1>7. OwnExperts' = OwnExperts
  BY <1>2 DEF OwnExperts
<1>8. PerLayer' = PerLayer
  BY <1>2, <1>7 DEF PerLayer
<1>9. ASSUME NEW r
      PROVE  /\ Plain(r)' = Plain(r) /\ RestsOfSave(r)' = RestsOfSave(r)
             /\ Closing(r)' = Closing(r) /\ Parameters(r)' = Parameters(r)
             /\ Gradients(r)' = Gradients(r) /\ Replicas(r)' = Replicas(r)
  <2>1. Plain(r)' = Plain(r)
    BY <1>2 DEF Plain
  <2>2. RestsOfSave(r)' = RestsOfSave(r)
    BY <1>2 DEF RestsOfSave
  <2>3. Closing(r)' = Closing(r) /\ Parameters(r)' = Parameters(r)
    BY <1>2, <1>8 DEF Closing, Parameters
  <2>4. Gradients(r)' = Gradients(r)
    BY <2>3 DEF Gradients
  <2>5. Replicas(r)' = Replicas(r)
    BY <1>2 DEF Replicas, SameShard
  <2> QED  BY <2>1, <2>2, <2>3, <2>4, <2>5
<1>10. ASSUME NEW r, NEW s, NEW calls
       PROVE  RestOfStep(r, s, calls)' = RestOfStep(r, s, calls)
  <2>1. Passes(r, s)' = Passes(r, s)
    BY <1>6, <1>9 DEF Passes
  <2>2. \A p : Averages(r, p)' = Averages(r, p)
    BY <1>2 DEF Averages
  <2>3. StepCalls(r, s)' = StepCalls(r, s)
    BY <1>9, <2>1, <2>2 DEF StepCalls
  <2> QED  BY <1>9, <2>1, <2>2, <2>3 DEF RestOfStep
<1> QED  BY <1>2, <1>3, <1>4, <1>6, <1>9, <1>10

-----------------------------------------------------------------------------
(* What a step of the system is for each rank.                             *)

\* Nothing happens to rank r.
Stays(r) ==
  /\ at'[r] = at[r] /\ step'[r] = step[r] /\ todo'[r] = todo[r] /\ grads'[r] = grads[r]
  /\ weights'[r] = weights[r]

\* Rank r makes its next call.
Makes(r) ==
  LET call == Head(todo[r])
  IN /\ Due(r) /\ at'[r] = at[r] /\ step'[r] = step[r] /\ todo'[r] = Tail(todo[r])
     /\ weights'[r] = IF call.kind = "optimizer" THEN Append(weights[r], grads[r]) ELSE weights[r]
     /\ call.kind = "zero_grad" => grads'[r] = NoGradients(r)
     /\ call.kind = "backward" => grads'[r] = Added(r, call.of[1])
     /\ call.kind \notin {"zero_grad", "backward"} /\ grads[r] \in Gradients(r) =>
          grads'[r] \in Gradients(r)

\* It goes on with the loop after a save, or where none is due.
GoesOn(r) == at[r] \in {"groups", "save"} \/ (at[r] \in {"eval", "train"} /\ ~SaveDue(step[r]))

\* Rank r enters its next handler.
Enters(r) ==
  /\ Returned(r) /\ weights'[r] = weights[r]
  /\ \/ /\ at[r] = "start" /\ Works
        /\ at'[r] = "groups" /\ todo'[r] = MakeGroups /\ step'[r] = step[r]
     \/ /\ at[r] \in {"start", "groups"}
        /\ at'[r] = "refused" /\ todo'[r] = <<>> /\ step'[r] = step[r]
     \/ /\ GoesOn(r) /\ step[r] < MaxSteps
        /\ at'[r] = "train" /\ todo'[r] = TrainStep(r, step[r] + 1) /\ step'[r] = step[r] + 1
     \/ /\ GoesOn(r) /\ ~(step[r] < MaxSteps)
        /\ at'[r] = "final" /\ todo'[r] = SaveCalls(r) /\ step'[r] = step[r]
     \/ /\ at[r] = "train"
        /\ at'[r] = "eval" /\ todo'[r] = Forward(r, 0) /\ step'[r] = step[r]
     \/ /\ at[r] \in {"eval", "train"} /\ SaveDue(step[r])
        /\ at'[r] = "save" /\ todo'[r] = SaveCalls(r) /\ step'[r] = step[r]
     \/ /\ at[r] = "final"
        /\ at'[r] = "done" /\ todo'[r] = <<>> /\ step'[r] = step[r]

\* What the variables range over after a step.
Frame ==
  /\ at' \in [Processes -> Handlers] /\ step' \in [Processes -> Nat]
  /\ DOMAIN todo' = Processes /\ DOMAIN grads' = Processes /\ DOMAIN weights' = Processes
  /\ DOMAIN shards' = Labels /\ DOMAIN meta' = Labels

\* A handler of rank r returns, the next begins.
Handler(r) == Start(r) \/ Refuse(r) \/ NextStep(r) \/ Evaluate(r) \/ Save(r) \/ Finish(r)

\* A rank that goes on to its next handler leaves the others where they are.
LEMMA HandlerMoves ==
  ASSUME MeshInv, NEW r \in Processes, Handler(r)
  PROVE  /\ UNCHANGED <<job, grads, weights, disk, failed>>
         /\ Frame /\ Enters(r) /\ \A q \in Processes \ {r} : Stays(q)
<1>1. /\ at \in [Processes -> Handlers] /\ step \in [Processes -> Nat]
      /\ DOMAIN todo = Processes /\ DOMAIN grads = Processes /\ DOMAIN weights = Processes
      /\ DOMAIN shards = Labels /\ DOMAIN meta = Labels
  BY DEF MeshInv, MeshTypes
<1>2. UNCHANGED <<job, grads, weights, disk, failed>>
  BY DEF Handler, Start, Refuse, NextStep, Evaluate, Save, Finish
<1>3. grads' = grads /\ weights' = weights /\ shards' = shards /\ meta' = meta
  BY <1>2 DEF disk
<1> DEFINE Same == \A q \in Processes \ {r} : Stays(q)
<1>4. ASSUME NEW handler \in Handlers, NEW calls, Enter(r, handler, calls),
             step' = step \/ step' = [step EXCEPT ![r] = @ + 1]
      PROVE  Frame /\ Same /\ at'[r] = handler /\ todo'[r] = calls
  <2>1. at' = [at EXCEPT ![r] = handler] /\ todo' = [todo EXCEPT ![r] = calls]
    BY <1>4 DEF Enter
  <2>2. step' \in [Processes -> Nat] /\ \A q \in Processes \ {r} : step'[q] = step[q]
    BY <1>1, <1>4
  <2>3. at' \in [Processes -> Handlers] /\ DOMAIN todo' = Processes
    BY <1>1, <2>1
  <2>4. Frame
    BY <1>1, <1>3, <2>2, <2>3 DEF Frame
  <2>5. Same
    BY <1>1, <1>3, <2>1, <2>2 DEF Stays
  <2> QED  BY <1>1, <2>1, <2>4, <2>5
<1>5. step[r] \in Nat /\ step[r] + 1 \in Nat
  BY <1>1
<1> HIDE DEF Same
<1>6. CASE Start(r)
  <2>1. CASE config = Refused \/ WorldSize(mesh) # world
    <3>1. Enter(r, "refused", <<>>) /\ step' = step /\ Returned(r) /\ at[r] = "start"
      BY <1>6, <2>1 DEF Start
    <3>2. Frame /\ Same /\ at'[r] = "refused" /\ todo'[r] = <<>>
      BY <1>4, <3>1 DEF Handlers
    <3> QED  BY <1>2, <1>3, <3>1, <3>2 DEF Enters, Same
  <2>2. CASE ~(config = Refused \/ WorldSize(mesh) # world)
    <3>1. Enter(r, "groups", MakeGroups) /\ step' = step /\ Returned(r) /\ at[r] = "start"
      BY <1>6, <2>2 DEF Start
    <3>2. Frame /\ Same /\ at'[r] = "groups" /\ todo'[r] = MakeGroups
      BY <1>4, <3>1 DEF Handlers
    <3>3. Works
      BY <2>2 DEF Works
    <3> QED  BY <1>2, <1>3, <3>1, <3>2, <3>3 DEF Enters, Same
  <2> QED  BY <2>1, <2>2
<1>7. CASE Refuse(r)
  <2>1. Enter(r, "refused", <<>>) /\ step' = step /\ Returned(r) /\ at[r] = "groups"
    BY <1>7 DEF Refuse
  <2>2. Frame /\ Same /\ at'[r] = "refused" /\ todo'[r] = <<>>
    BY <1>4, <2>1 DEF Handlers
  <2> QED  BY <1>2, <1>3, <2>1, <2>2 DEF Enters, Same
<1>8. CASE NextStep(r)
  <2>0. Returned(r) /\ GoesOn(r)
    BY <1>8 DEF NextStep, GoesOn
  <2>1. CASE step[r] < MaxSteps
    <3>1. /\ Enter(r, "train", TrainStep(r, step[r] + 1))
          /\ step' = [step EXCEPT ![r] = @ + 1]
      BY <1>8, <2>1 DEF NextStep
    <3>2. Frame /\ Same /\ at'[r] = "train" /\ todo'[r] = TrainStep(r, step[r] + 1)
      BY <1>4, <3>1 DEF Handlers
    <3>3. step'[r] = step[r] + 1
      BY <1>1, <3>1
    <3> QED  BY <1>2, <1>3, <2>0, <2>1, <3>2, <3>3 DEF Enters, Same
  <2>2. CASE ~(step[r] < MaxSteps)
    <3>1. Enter(r, "final", SaveCalls(r)) /\ step' = step
      BY <1>8, <2>2 DEF NextStep
    <3>2. Frame /\ Same /\ at'[r] = "final" /\ todo'[r] = SaveCalls(r)
      BY <1>4, <3>1 DEF Handlers
    <3> QED  BY <1>2, <1>3, <2>0, <2>2, <3>1, <3>2 DEF Enters, Same
  <2> QED  BY <2>1, <2>2
<1>9. CASE Evaluate(r)
  <2>1. Enter(r, "eval", Forward(r, 0)) /\ step' = step /\ Returned(r) /\ at[r] = "train"
    BY <1>9 DEF Evaluate
  <2>2. Frame /\ Same /\ at'[r] = "eval" /\ todo'[r] = Forward(r, 0)
    BY <1>4, <2>1 DEF Handlers
  <2> QED  BY <1>2, <1>3, <2>1, <2>2 DEF Enters, Same
<1>10. CASE Save(r)
  <2>1. /\ Enter(r, "save", SaveCalls(r)) /\ step' = step /\ Returned(r)
        /\ at[r] \in {"eval", "train"} /\ SaveDue(step[r])
    BY <1>10 DEF Save
  <2>2. Frame /\ Same /\ at'[r] = "save" /\ todo'[r] = SaveCalls(r)
    BY <1>4, <2>1 DEF Handlers
  <2> QED  BY <1>2, <1>3, <2>1, <2>2 DEF Enters, Same
<1>11. CASE Finish(r)
  <2>1. Enter(r, "done", <<>>) /\ step' = step /\ Returned(r) /\ at[r] = "final"
    BY <1>11 DEF Finish
  <2>2. Frame /\ Same /\ at'[r] = "done" /\ todo'[r] = <<>>
    BY <1>4, <2>1 DEF Handlers
  <2> QED  BY <1>2, <1>3, <2>1, <2>2 DEF Enters, Same
<1> QED  BY <1>6, <1>7, <1>8, <1>9, <1>10, <1>11 DEF Handler

\* Calls have been made by some ranks.
LEMMA DoneIs ==
  ASSUME MeshInv, NEW ranks, todo' = Done(ranks)
  PROVE  /\ DOMAIN todo' = Processes
         /\ \A q \in Processes : todo'[q] = IF q \in ranks THEN Tail(todo[q]) ELSE todo[q]
BY DEF MeshInv, MeshTypes, Done

\* A call that others join, or that is left out, is none of those a rank makes alone.
LEMMA MeetingKinds ==
  ASSUME MeshInv, NEW r \in Processes, todo[r] # <<>>, Head(todo[r]).op # "do"
  PROVE  Head(todo[r]).kind \notin {"optimizer", "zero_grad", "backward"}
<1> DEFINE call == Head(todo[r])
<1>1. ASSUME call.kind = "optimizer" PROVE FALSE
  <2>1. call = Do("optimizer")
    BY <1>1, CallsOfKind
  <2> QED  BY <2>1 DEF Do, Call
<1>2. ASSUME call.kind = "zero_grad" PROVE FALSE
  <2>1. call = Do("zero_grad")
    BY <1>2, CallsOfKind
  <2> QED  BY <2>1 DEF Do, Call
<1>3. ASSUME call.kind = "backward" PROVE FALSE
  <2>1. \E b : call = Backpropagate(b)
    BY <1>3, CallsOfKind
  <2> QED  BY <2>1 DEF Backpropagate, Call
<1> QED  BY <1>1, <1>2, <1>3

\* A step in which some ranks meet, or one leaves a call out.
LEMMA MeetingMoves ==
  ASSUME MeshInv, NEW ranks, UNCHANGED <<job, at, step, weights, shards, meta>>, todo' = Done(ranks),
         \A q \in ranks \cap Processes : Due(q) /\ Head(todo[q]).op # "do",
         DOMAIN grads' = DOMAIN grads,
         \A q \in Processes \ ranks : grads'[q] = grads[q],
         \A q \in ranks \cap Processes : grads[q] \in Gradients(q) => grads'[q] \in Gradients(q)
  PROVE  /\ Frame /\ \A q \in Processes \cap ranks : Makes(q)
         /\ \A q \in Processes \ ranks : Stays(q)
<1>1. /\ at \in [Processes -> Handlers] /\ step \in [Processes -> Nat]
      /\ DOMAIN grads = Processes /\ DOMAIN weights = Processes
      /\ DOMAIN shards = Labels /\ DOMAIN meta = Labels
  BY DEF MeshInv, MeshTypes
<1>2. /\ DOMAIN todo' = Processes
      /\ \A q \in Processes : todo'[q] = IF q \in ranks THEN Tail(todo[q]) ELSE todo[q]
  BY DoneIs
<1>3. Frame
  BY <1>1, <1>2 DEF Frame
<1>4. ASSUME NEW q \in Processes \cap ranks PROVE Makes(q)
  <2>1. Due(q) /\ Head(todo[q]).op # "do" /\ todo[q] # <<>>
    BY DEF Due
  <2>2. Head(todo[q]).kind \notin {"optimizer", "zero_grad", "backward"}
    BY <2>1, MeetingKinds
  <2> QED  BY <1>2, <2>1, <2>2 DEF Makes
<1>5. ASSUME NEW q \in Processes \ ranks PROVE Stays(q)
  BY <1>2 DEF Stays
<1> QED  BY <1>3, <1>4, <1>5

\* A rank that leaves out a call makes it alone.
LEMMA SkipMoves ==
  ASSUME MeshInv, NEW r \in Processes, Skip(r)
  PROVE  Frame /\ Makes(r) /\ \A q \in Processes \ {r} : Stays(q)
<1>1. /\ UNCHANGED <<job, at, step, grads, weights, shards, meta>> /\ todo' = Done({r})
      /\ Due(r) /\ Head(todo[r]).op # "do"
  BY DEF Skip, LeavesOut, disk
<1>2. /\ UNCHANGED <<job, at, step, weights, shards, meta>> /\ DOMAIN grads' = DOMAIN grads
      /\ \A q \in Processes : grads'[q] = grads[q]
      /\ \A q \in {r} \cap Processes : Due(q) /\ Head(todo[q]).op # "do"
  BY <1>1
<1>3. /\ Frame /\ \A q \in Processes \cap {r} : Makes(q)
      /\ \A q \in Processes \ {r} : Stays(q)
  BY <1>1, <1>2, MeetingMoves
<1> QED  BY <1>3

\* Two stages hand over, and nothing else changes.
LEMMA TransferMoves ==
  ASSUME MeshInv, Transfer
  PROVE  /\ UNCHANGED <<job, at, step, grads, weights, disk, failed>>
         /\ Frame /\ \A q \in Processes : Stays(q) \/ (Makes(q) /\ Head(todo[q]).kind = "")
<1>1. PICK r, q \in Processes : /\ Due(r) /\ Head(todo[r]) = Send(q)
                                /\ Due(q) /\ Head(todo[q]) = Recv(r)
                                /\ todo' = Done({r, q})
  BY DEF Transfer
<1>2. UNCHANGED <<job, at, step, grads, weights, disk, failed>>
  BY DEF Transfer
<1>3. /\ Head(todo[r]).op # "do" /\ Head(todo[r]).kind = ""
      /\ Head(todo[q]).op # "do" /\ Head(todo[q]).kind = ""
  <2>1. \A p : Send(p).op = "send" /\ Send(p).kind = "" /\ Recv(p).op = "recv" /\ Recv(p).kind = ""
    BY CallKinds DEF Send, Recv, Call
  <2> QED  BY <1>1, <2>1
<1>4. /\ UNCHANGED <<job, at, step, weights, shards, meta>> /\ DOMAIN grads' = DOMAIN grads
      /\ \A p \in Processes : grads'[p] = grads[p]
      /\ \A p \in {r, q} \cap Processes : Due(p) /\ Head(todo[p]).op # "do" /\ Head(todo[p]).kind = ""
  BY <1>1, <1>2, <1>3 DEF disk
<1>5. /\ Frame /\ \A p \in Processes \cap {r, q} : Makes(p)
      /\ \A p \in Processes \ {r, q} : Stays(p)
  BY <1>1, <1>4, MeetingMoves
<1> QED  BY <1>2, <1>4, <1>5

\* Gradients are averaged by the replicas of a slice.
LEMMA PeersAre ==
  ASSUME MeshInv, NEW r \in Processes, todo[r] # <<>>, Head(todo[r]).kind = "gradients"
  PROVE  /\ Head(todo[r]).peers = Replicas(r) /\ Replicas(r) \subseteq Processes /\ r \in Replicas(r)
         /\ DataGroups(mesh) # <<>>
<1>1. PICK p \in 1..Closing(r) : Head(todo[r]) = Averages(r, p)
  BY CallsOfKind
<1>2. Closing(r) \in Nat /\ Works /\ config = Load(ask)
  BY NextCall
<1>3. Closing(r) # 0
  BY <1>1, <1>2
<1>4. DataGroups(mesh) # <<>>
  BY <1>3 DEF Closing
<1>5. mesh \in Grid /\ mesh.data % mesh.expert = 0 /\ Processes = Ranks(mesh)
  BY <1>2, WorksTyped
<1>6. Mine(DataGroups(mesh), r) = {q \in Ranks(mesh) : Alike(mesh, r, q)}
  BY <1>4, <1>5, GradientGroup
<1>7. Mine(DataGroups(mesh), r) = Replicas(r)
  BY <1>5, <1>6 DEF Alike, Replicas, SameShard
<1>8. Head(todo[r]).peers = Mine(DataGroups(mesh), r)
  BY <1>1 DEF Averages, Try, Call
<1> QED  BY <1>4, <1>7, <1>8 DEF Replicas, SameShard

\* The parameter it averages.
Given(r) == Head(todo[r]).of[1]

\* It is one of its own, and the calls that are left count it.
LEMMA GivenIs ==
  ASSUME MeshInv, NEW r \in Processes, todo[r] # <<>>, Head(todo[r]).kind = "gradients"
  PROVE  /\ at[r] = "train" /\ Given(r) \in 1..Closing(r) /\ Given(r) \in Parameters(r)
         /\ Len(todo[r]) + Given(r) = Closing(r) + 2
         /\ grads[r] \in Gradients(r) /\ Head(todo[r]) # Do("zero_grad")
<1>1. PICK p \in 1..Closing(r) : Head(todo[r]) = Averages(r, p) /\ Len(todo[r]) + p = Closing(r) + 2
  BY CallsOfKind
<1>2. Given(r) = p
  BY <1>1 DEF Given, Averages, Try, Call
<1>3. at[r] = "train"
  BY CallsOfKind
<1>4. Head(todo[r]) # Do("zero_grad")
  BY DEF Do, Call
<1>5. Placed(r)
  BY DEF MeshInv
<1>6. grads[r] \in Gradients(r)
  BY <1>3, <1>4, <1>5 DEF Placed
<1>7. config = Load(ask) /\ Works /\ DataGroups(mesh) # <<>>
  BY NextCall, PeersAre
<1>8. Parameters(r) = 1..Closing(r)
  BY <1>7, LayersTyped
<1> QED  BY <1>1, <1>2, <1>3, <1>4, <1>6, <1>8

\* The ranks of the group that r has come to meet, do.
Meets(r) ==
  LET call == Head(todo[r])
  IN /\ Joins(r)
     /\ \A q \in call.peers :
          Joins(q) /\ Head(todo[q]).kind = call.kind /\ Head(todo[q]).peers = call.peers
     /\ todo' = Done(call.peers)
     /\ grads' = IF call.kind = "gradients" THEN Summed(call.peers) ELSE grads
     /\ listed' = IF call.kind = "hashes"
                  THEN [file \in Processes \X ShardFiles |-> shards[Label(file[1])][file]]
                  ELSE listed

\* A collective completes where the ranks of a group meet.
LEMMA CollectiveIs ==
  Collective <=> /\ \E r \in Processes : Meets(r)
                 /\ UNCHANGED <<job, at, step, weights, shards, meta, failed>>
BY DEF Collective, Meets

\* The ranks of the group make the call, the others stay where they are.
LEMMA MeetsMoves ==
  ASSUME MeshInv, NEW r \in Processes, Meets(r),
         UNCHANGED <<job, at, step, weights, shards, meta, failed>>
  PROVE  LET peers == Head(todo[r]).peers
         IN /\ Frame /\ \A q \in Processes \cap peers : Makes(q) /\ todo[q] # <<>>
            /\ \A q \in Processes \ peers : Stays(q)
<1> DEFINE peers == Head(todo[r]).peers  kind == Head(todo[r]).kind
<1>1. todo' = Done(peers) /\ grads' = IF kind = "gradients" THEN Summed(peers) ELSE grads
  BY DEF Meets
<1>2. \A q \in peers : Due(q) /\ Head(todo[q]).op # "do" /\ todo[q] # <<>> /\ Head(todo[q]).kind = kind
  BY DEF Meets, Joins, Due
<1>3. r \in Processes /\ todo[r] # <<>>
  BY DEF Meets, Joins, Due
<1>4. DOMAIN grads = Processes
  BY DEF MeshInv, MeshTypes
<1>5. /\ DOMAIN grads' = DOMAIN grads
      /\ \A q \in Processes \ peers : grads'[q] = grads[q]
      /\ \A q \in peers \cap Processes : grads[q] \in Gradients(q) => grads'[q] \in Gradients(q)
  <2>1. CASE kind # "gradients"
    BY <1>1, <2>1
  <2>2. CASE kind = "gradients"
    <3> DEFINE X == UNION {grads[p][Given(p)] : p \in peers}
    <3>1. peers \subseteq Processes
      BY <1>3, <2>2, PeersAre
    <3>2. \A q \in peers : /\ grads[q] \in Gradients(q) /\ Given(q) \in Parameters(q)
      BY <1>2, <2>2, <3>1, GivenIs
    <3>3. X \in SUBSET (Int \X Int)
      <4>1. \A q \in peers : grads[q][Given(q)] \in SUBSET (Int \X Int)
        BY <3>2 DEF Gradients
      <4> QED  BY <4>1
    <3>4. Summed(peers) = [q \in DOMAIN grads |-> IF q \in peers THEN [grads[q] EXCEPT ![Given(q)] = X]
                                                 ELSE grads[q]]
      BY DEF Summed, Given
    <3> HIDE DEF X
    <3>5. grads' = [q \in DOMAIN grads |-> IF q \in peers THEN [grads[q] EXCEPT ![Given(q)] = X]
                                          ELSE grads[q]]
      BY <1>1, <2>2, <3>4
    <3>6. ASSUME NEW q \in peers PROVE grads'[q] \in Gradients(q)
      <4>1. grads'[q] = [grads[q] EXCEPT ![Given(q)] = X]
        BY <1>4, <3>1, <3>5
      <4> QED  BY <3>2, <3>3, <4>1 DEF Gradients
    <3> QED  BY <1>4, <3>5, <3>6
  <2> QED  BY <2>1, <2>2
<1>6. \A q \in peers \cap Processes : Due(q) /\ Head(todo[q]).op # "do"
  BY <1>2
<1> HIDE DEF peers
<1>7. /\ Frame /\ \A q \in Processes \cap peers : Makes(q)
      /\ \A q \in Processes \ peers : Stays(q)
  BY <1>1, <1>5, <1>6, MeetingMoves
<1> QED  BY <1>2, <1>7 DEF peers

\* What a rank does alone leaves the others where they are.
LEMMA LocalMoves ==
  ASSUME MeshInv, NEW r \in Processes, Local(r)
  PROVE  /\ UNCHANGED <<job, at, step, listed, failed>>
         /\ Frame /\ Makes(r) /\ \A q \in Processes \ {r} : Stays(q)
<1> DEFINE call == Head(todo[r])  what == call.kind
<1>1. /\ at \in [Processes -> Handlers] /\ step \in [Processes -> Nat]
      /\ DOMAIN todo = Processes /\ DOMAIN grads = Processes /\ DOMAIN weights = Processes
      /\ DOMAIN shards = Labels /\ DOMAIN meta = Labels
  BY DEF MeshInv, MeshTypes
<1>2. Due(r) /\ todo' = Done({r}) /\ UNCHANGED <<job, at, step, listed, failed>>
  BY DEF Local
<1>3. /\ DOMAIN todo' = Processes /\ todo'[r] = Tail(todo[r])
      /\ \A q \in Processes \ {r} : todo'[q] = todo[q]
  BY <1>2, DoneIs
<1>4. grads' = IF what = "zero_grad" THEN [grads EXCEPT ![r] = NoGradients(r)]
               ELSE IF what = "backward" THEN [grads EXCEPT ![r] = Added(r, call.of[1])]
               ELSE grads
  BY DEF Local
<1>5. weights' = IF what = "optimizer"
                 THEN [weights EXCEPT ![r] = Append(@, grads[r])] ELSE weights
  BY DEF Local
<1>6. DOMAIN shards' = Labels /\ DOMAIN meta' = Labels
  BY <1>1 DEF Local
<1>7. /\ DOMAIN grads' = Processes /\ \A q \in Processes \ {r} : grads'[q] = grads[q]
      /\ what = "zero_grad" => grads'[r] = NoGradients(r)
      /\ what = "backward" => grads'[r] = Added(r, call.of[1])
      /\ what \notin {"zero_grad", "backward"} => grads'[r] = grads[r]
  BY <1>1, <1>4
<1>8. /\ DOMAIN weights' = Processes /\ \A q \in Processes \ {r} : weights'[q] = weights[q]
      /\ weights'[r] = IF what = "optimizer" THEN Append(weights[r], grads[r]) ELSE weights[r]
  BY <1>1, <1>5
<1>9. Frame
  BY <1>1, <1>2, <1>3, <1>6, <1>7, <1>8 DEF Frame
<1>10. Makes(r)
  BY <1>2, <1>3, <1>7, <1>8 DEF Makes
<1>11. \A q \in Processes \ {r} : Stays(q)
  BY <1>2, <1>3, <1>7, <1>8 DEF Stays
<1> QED  BY <1>2, <1>9, <1>10, <1>11

\* A rank that fails goes nowhere.
LEMMA FailMoves ==
  ASSUME MeshInv, NEW r \in Processes, Fail(r)
  PROVE  /\ UNCHANGED <<job, at, step, todo, grads, weights, listed, meta>>
         /\ Frame /\ \A q \in Processes : Stays(q)
<1>1. /\ at \in [Processes -> Handlers] /\ step \in [Processes -> Nat]
      /\ DOMAIN todo = Processes /\ DOMAIN grads = Processes /\ DOMAIN weights = Processes
      /\ DOMAIN shards = Labels /\ DOMAIN meta = Labels
  BY DEF MeshInv, MeshTypes
<1>2. UNCHANGED <<job, at, step, todo, grads, weights, listed, meta>>
  BY DEF Fail
<1>3. DOMAIN shards' = Labels
  BY <1>1 DEF Fail
<1> QED  BY <1>1, <1>2, <1>3 DEF Frame, Stays

\* Whatever happens, a rank stays where it is, makes its next call or goes on to
\* its next handler.
Moves(r) == Stays(r) \/ Makes(r) \/ Enters(r)

\* That is all a step can be.
LEMMA NextMoves ==
  ASSUME MeshInv, [Next]_vars
  PROVE  UNCHANGED job /\ Frame /\ \A r \in Processes : Moves(r)
<1>1. CASE UNCHANGED vars
  <2>1. /\ UNCHANGED job /\ at' = at /\ step' = step /\ todo' = todo /\ grads' = grads
        /\ weights' = weights /\ shards' = shards /\ meta' = meta
    BY <1>1 DEF vars, disk
  <2>2. /\ at \in [Processes -> Handlers] /\ step \in [Processes -> Nat]
        /\ DOMAIN todo = Processes /\ DOMAIN grads = Processes /\ DOMAIN weights = Processes
        /\ DOMAIN shards = Labels /\ DOMAIN meta = Labels
    BY DEF MeshInv, MeshTypes
  <2> QED  BY <2>1, <2>2 DEF Frame, Moves, Stays
<1>2. CASE Collective
  <2>1. PICK r \in Processes : Meets(r)
    BY <1>2, CollectiveIs
  <2>2. UNCHANGED <<job, at, step, weights, shards, meta, failed>>
    BY <1>2, CollectiveIs
  <2>3. /\ Frame /\ \A q \in Processes \cap Head(todo[r]).peers : Makes(q)
        /\ \A q \in Processes \ Head(todo[r]).peers : Stays(q)
    BY <2>1, <2>2, MeetsMoves
  <2> QED  BY <2>2, <2>3 DEF Moves
<1>3. CASE Transfer
  BY <1>3, TransferMoves DEF Moves
<1>4. ASSUME NEW r \in Processes, Rank(r)
      PROVE  UNCHANGED job /\ Frame /\ \A q \in Processes : Moves(q)
  <2>1. CASE Handler(r)
    BY <2>1, HandlerMoves DEF Moves
  <2>2. CASE Skip(r)
    <3>1. UNCHANGED job
      BY <2>2 DEF Skip
    <3> QED  BY <2>2, <3>1, SkipMoves DEF Moves
  <2>3. CASE Local(r)
    BY <2>3, LocalMoves DEF Moves
  <2>4. CASE Fail(r)
    BY <2>4, FailMoves DEF Moves
  <2> QED  BY <1>4, <2>1, <2>2, <2>3, <2>4 DEF Rank, Handler
<1> QED  BY <1>1, <1>2, <1>3, <1>4 DEF Next

-----------------------------------------------------------------------------
(* Each rank by itself.                                                    *)

\* Gradients are sets of contributions.
LEMMA GradientsTyped ==
  ASSUME config = Load(ask), Works, NEW r \in Processes
  PROVE  /\ NoGradients(r) \in Gradients(r)
         /\ \A b : grads[r] \in Gradients(r) => Added(r, b) \in Gradients(r)
<1>1. NoGradients(r) \in Gradients(r)
  BY DEF NoGradients, Gradients
<1>2. DataRank(mesh, r) \in Int /\ \A p \in Parameters(r) : p \in Int
  BY LayersTyped
<1>3. ASSUME NEW b, grads[r] \in Gradients(r)
      PROVE  Added(r, b) \in Gradients(r)
  <2>1. \A p \in Parameters(r) :
          /\ grads[r][p] \in SUBSET (Int \X Int)
          /\ {<<p, DataRank(mesh, r)>>} \in SUBSET (Int \X Int)
    BY <1>2, <1>3 DEF Gradients
  <2> QED  BY <2>1 DEF Added, Gradients
<1> QED  BY <1>1, <1>3

\* A rank that has made its next call is where it should be.
LEMMA PlacedMakes ==
  ASSUME MeshInv, UNCHANGED job, NEW r \in Processes, Makes(r)
  PROVE  Placed(r)'
<1> DEFINE call == Head(todo[r])  n == Len(todo[r])  t == Tail(todo[r])
<1>1. Placed(r) /\ todo[r] # <<>> /\ config = Load(ask) /\ Works
  BY NextCall DEF MeshInv, Makes, Due
<1>2. /\ MaxSteps' = MaxSteps /\ Works' = Works /\ SaveDue(step[r])' = SaveDue(step'[r])
      /\ Plain(r)' = Plain(r) /\ RestsOfSave(r)' = RestsOfSave(r) /\ Gradients(r)' = Gradients(r)
      /\ \A s, calls : RestOfStep(r, s, calls)' = RestOfStep(r, s, calls)
  BY SameJob DEF SaveDue
<1>3. /\ at'[r] = at[r] /\ step'[r] = step[r] /\ todo'[r] = t
  BY DEF Makes
<1>4. CASE at[r] \in {"groups", "eval"}
  <2>1. todo[r] \in Seq(Plain(r))
    BY <1>1, <1>4 DEF Placed
  <2>2. t \in Seq(Plain(r)) /\ call \in Plain(r)
    BY <1>1, <2>1, TailIs
  <2>3. call.kind # "optimizer"
    BY <2>2, PlainKinds
  <2>4. weights'[r] = weights[r]
    BY <2>3 DEF Makes
  <2> QED  BY <1>1, <1>2, <1>3, <1>4, <2>2, <2>4 DEF Placed
<1>5. CASE at[r] \in {"save", "final"}
  <2>1. todo[r] \in RestsOfSave(r)
    BY <1>1, <1>5 DEF Placed
  <2>2. t \in RestsOfSave(r)
    BY <1>1, <2>1, SaveShrinks
  <2>3. call.kind # "optimizer"
    BY <1>1, <1>5, CallsOfKind
  <2>4. weights'[r] = weights[r]
    BY <2>3 DEF Makes
  <2>5. SaveDue(step[r])' = SaveDue(step[r])
    BY <1>3, SameJob
  <2> QED  BY <1>1, <1>2, <1>3, <1>5, <2>2, <2>4, <2>5 DEF Placed
<1>6. CASE at[r] = "train"
  <2>1. RestOfStep(r, step[r], todo[r]) /\ Closing(r) \in Nat
    BY <1>1, <1>6, NextCall DEF Placed
  <2>2. /\ RestOfStep(r, step[r], t) /\ NextOfStep(r, step[r], todo[r])
        /\ n \in Nat /\ n >= 1 /\ n = 1 <=> t = <<>>
        /\ t # <<>> => Head(t) # Do("zero_grad")
    BY <1>1, <2>1, RestShrinks
  <2>3. n = 1 <=> call.kind = "optimizer"
    <3>1. n = 1 => call = Do("optimizer")
      BY <2>1, <2>2 DEF NextOfStep
    <3>2. call.kind = "optimizer" => n = 1
      BY <1>1, CallsOfKind
    <3>3. call = Do("optimizer") => call.kind = "optimizer"
      BY DEF Do, Call
    <3> QED  BY <3>1, <3>2, <3>3
  <2>4. call # Do("zero_grad") => grads[r] \in Gradients(r)
    BY <1>1, <1>6 DEF Placed
  <2>5. grads'[r] \in Gradients(r)
    <3>1. CASE call.kind = "zero_grad"
      BY <1>1, <3>1, GradientsTyped DEF Makes
    <3>2. CASE call.kind # "zero_grad"
      <4>1. call # Do("zero_grad")
        BY <3>2 DEF Do, Call
      <4> QED  BY <1>1, <2>4, <3>2, <4>1, GradientsTyped DEF Makes
    <3> QED  BY <3>1, <3>2
  <2>6. weights[r] \in Seq(Gradients(r)) /\ Len(weights[r]) = step[r] - 1 /\ step[r] \in 1..MaxSteps
    BY <1>1, <1>6 DEF Placed
  <2>7. MaxSteps \in Nat
    BY <1>1, WorksTyped
  <2>8. CASE n = 1
    <3>1. weights'[r] = Append(weights[r], grads[r])
      BY <2>3, <2>8 DEF Makes
    <3>2. call # Do("zero_grad")
      BY <2>3, <2>8 DEF Do, Call
    <3>3. weights'[r] \in Seq(Gradients(r)) /\ Len(weights'[r]) = step[r]
      BY <2>4, <2>6, <2>7, <3>1, <3>2
    <3> QED  BY <1>1, <1>2, <1>3, <1>6, <2>2, <2>5, <2>6, <2>8, <3>3 DEF Placed
  <2>9. CASE n # 1
    <3>1. weights'[r] = weights[r]
      BY <2>3, <2>9 DEF Makes
    <3> QED  BY <1>1, <1>2, <1>3, <1>6, <2>2, <2>5, <2>6, <2>9, <3>1 DEF Placed
  <2> QED  BY <2>8, <2>9
<1>7. at[r] \in {"groups", "eval", "train", "save", "final"}
  BY <1>1, NextCall
<1> QED  BY <1>4, <1>5, <1>6, <1>7

\* A rank that stays is where it should be.
LEMMA PlacedStays ==
  ASSUME MeshInv, UNCHANGED job, NEW r \in Processes, Stays(r)
  PROVE  Placed(r)'
<1>1. Placed(r)
  BY DEF MeshInv
<1>2. /\ MaxSteps' = MaxSteps /\ Works' = Works /\ \A s : SaveDue(s)' = SaveDue(s)
      /\ Plain(r)' = Plain(r) /\ RestsOfSave(r)' = RestsOfSave(r) /\ Gradients(r)' = Gradients(r)
      /\ \A s, calls : RestOfStep(r, s, calls)' = RestOfStep(r, s, calls)
  BY SameJob
<1>3. /\ at'[r] = at[r] /\ step'[r] = step[r] /\ todo'[r] = todo[r] /\ grads'[r] = grads[r]
      /\ weights'[r] = weights[r]
  BY DEF Stays
<1>4. SaveDue(step[r])' = SaveDue(step[r])
  BY <1>2, <1>3 DEF SaveDue
<1>5. RestOfStep(r, step[r], todo[r])' = RestOfStep(r, step[r], todo[r])
  <2>1. RestOfStep(r, step[r], todo[r])' = RestOfStep(r, step'[r], todo'[r])
    BY <1>2
  <2> QED  BY <1>3, <2>1
<1> QED  BY <1>1, <1>2, <1>3, <1>4, <1>5 DEF Placed

\* A rank that has entered its next handler is where it should be.
LEMMA PlacedEnters ==
  ASSUME MeshInv, UNCHANGED job, NEW r \in Processes, Enters(r), Frame
  PROVE  Placed(r)'
<1>1. Placed(r) /\ todo[r] = <<>> /\ config = Load(ask) /\ weights'[r] = weights[r]
      /\ at[r] \in Handlers /\ step[r] \in Nat
  BY DEF MeshInv, MeshTypes, Enters, Returned
<1>2. /\ MaxSteps' = MaxSteps /\ Works' = Works
      /\ Plain(r)' = Plain(r) /\ RestsOfSave(r)' = RestsOfSave(r) /\ Gradients(r)' = Gradients(r)
      /\ RestOfStep(r, step[r], todo[r])' = RestOfStep(r, step'[r], todo'[r])
  <2>1. \A s, calls : RestOfStep(r, s, calls)' = RestOfStep(r, s, calls)
    BY SameJob
  <2> QED  BY <2>1, SameJob
<1>3. /\ weights[r] \in IF Works THEN Seq(Gradients(r)) ELSE {<<>>}
      /\ Len(weights[r]) = step[r]
  BY <1>1 DEF Placed
<1>4. Works => MaxSteps \in Nat \ {0}
  BY <1>1, WorksTyped
<1>5. CASE at[r] = "start" /\ Works /\ at'[r] = "groups" /\ todo'[r] = MakeGroups /\ step'[r] = step[r]
  <2>1. MakeGroups \in Seq(Plain(r))
    BY <1>1, <1>5, MakeGroupsTyped
  <2>2. step[r] = 0
    BY <1>1, <1>5 DEF Placed
  <2> QED  BY <1>1, <1>2, <1>3, <1>5, <2>1, <2>2 DEF Placed
<1>6. CASE at[r] \in {"start", "groups"} /\ at'[r] = "refused" /\ todo'[r] = <<>> /\ step'[r] = step[r]
  <2>1. step[r] = 0
    BY <1>1, <1>6 DEF Placed
  <2> QED  BY <1>1, <1>2, <1>3, <1>6, <2>1 DEF Placed
<1>7. CASE /\ GoesOn(r) /\ step[r] < MaxSteps
           /\ at'[r] = "train" /\ todo'[r] = TrainStep(r, step[r] + 1) /\ step'[r] = step[r] + 1
  <2>1. Works
    BY <1>1, <1>7 DEF Placed, GoesOn
  <2>2. step[r] + 1 \in Int /\ step[r] + 1 \in 1..MaxSteps
    BY <1>1, <1>4, <1>7, <2>1
  <2>3. /\ RestOfStep(r, step[r] + 1, TrainStep(r, step[r] + 1))
        /\ TrainStep(r, step[r] + 1) # <<>>
        /\ Head(TrainStep(r, step[r] + 1)) = Do("zero_grad")
    BY <1>1, <2>1, <2>2, TrainStepIs
  <2>4. RestOfStep(r, step[r], todo[r])'
    BY <1>2, <1>7, <2>3
  <2>5. Len(weights'[r]) = step'[r] - 1
    BY <1>1, <1>3, <1>7
  <2>6. Do("zero_grad")' = Do("zero_grad")
    BY DEF Do, Call
  <2> QED  BY <1>1, <1>2, <1>3, <1>7, <2>1, <2>2, <2>3, <2>4, <2>5, <2>6 DEF Placed
<1>8. CASE /\ GoesOn(r) /\ ~(step[r] < MaxSteps)
           /\ at'[r] = "final" /\ todo'[r] = SaveCalls(r) /\ step'[r] = step[r]
  <2>1. Works
    BY <1>1, <1>8 DEF Placed, GoesOn
  <2>2. step[r] = MaxSteps /\ step[r] \in 1..MaxSteps
    <3>1. at[r] = "groups" => step[r] = 0
      BY <1>1 DEF Placed
    <3>2. at[r] \in {"eval", "train", "save"} => step[r] \in 1..MaxSteps
      BY <1>1 DEF Placed
    <3> QED  BY <1>1, <1>4, <1>8, <2>1, <3>1, <3>2 DEF GoesOn
  <2>3. SaveCalls(r) \in RestsOfSave(r)
    BY SaveCallsAre
  <2> QED  BY <1>1, <1>2, <1>3, <1>8, <2>1, <2>2, <2>3 DEF Placed
<1>9. CASE /\ at[r] = "train"
           /\ at'[r] = "eval" /\ todo'[r] = Forward(r, 0) /\ step'[r] = step[r]
  <2>1. Works /\ step[r] \in 1..MaxSteps
    BY <1>1, <1>9 DEF Placed
  <2>2. Forward(r, 0) \in Seq(Plain(r))
    BY <1>1, <2>1, ForwardTyped
  <2> QED  BY <1>1, <1>2, <1>3, <1>9, <2>1, <2>2 DEF Placed
<1>10. CASE /\ at[r] \in {"eval", "train"} /\ SaveDue(step[r])
            /\ at'[r] = "save" /\ todo'[r] = SaveCalls(r) /\ step'[r] = step[r]
  <2>1. Works /\ step[r] \in 1..MaxSteps
    BY <1>1, <1>10 DEF Placed
  <2>2. SaveCalls(r) \in RestsOfSave(r)
    BY SaveCallsAre
  <2>3. SaveDue(step[r])'
    <3>1. config' = config
      BY DEF job
    <3> QED  BY <1>10, <3>1 DEF SaveDue
  <2> QED  BY <1>1, <1>2, <1>3, <1>10, <2>1, <2>2, <2>3 DEF Placed
<1>11. CASE at[r] = "final" /\ at'[r] = "done" /\ todo'[r] = <<>> /\ step'[r] = step[r]
  <2>1. Works /\ step[r] \in 1..MaxSteps /\ step[r] = MaxSteps
    BY <1>1, <1>11 DEF Placed
  <2> QED  BY <1>1, <1>2, <1>3, <1>11, <2>1 DEF Placed
<1> QED  BY <1>5, <1>6, <1>7, <1>8, <1>9, <1>10, <1>11 DEF Enters

\* At the start no rank has done anything.
LEMMA InitPlaced == Init => MeshInv
<1>1. SUFFICES ASSUME Init PROVE MeshTypes /\ \A r \in Processes : Placed(r)
  BY DEF MeshInv
<1>2. MeshTypes
  BY <1>1 DEF Init, MeshTypes, Handlers
<1>3. ASSUME NEW r \in Processes PROVE Placed(r)
  <2>1. /\ at[r] = "start" /\ step[r] = 0 /\ todo[r] = <<>> /\ weights[r] = <<>>
    BY <1>1 DEF Init
  <2>2. <<>> \in Seq(Gradients(r)) /\ Len(<<>>) = 0
    OBVIOUS
  <2> QED  BY <2>1, <2>2 DEF Placed
<1> QED  BY <1>2, <1>3

\* No step takes a rank from where it should be.
LEMMA NextPlaced ==
  ASSUME MeshInv, [Next]_vars
  PROVE  MeshInv'
<1>1. UNCHANGED job /\ Frame /\ \A r \in Processes : Moves(r)
  BY NextMoves
<1>2. Processes' = Processes /\ Labels' = Labels
  BY <1>1, SameJob
<1>3. MeshTypes'
  <2>1. asked' = asked /\ config' = config /\ world' = world
    BY <1>1 DEF job
  <2> QED  BY <1>1, <1>2, <2>1 DEF MeshTypes, MeshInv, Frame, ask
<1>4. ASSUME NEW r \in Processes PROVE Placed(r)'
  BY <1>1, PlacedStays, PlacedMakes, PlacedEnters DEF Moves
<1> QED  BY <1>2, <1>3, <1>4 DEF MeshInv

-----------------------------------------------------------------------------
(* The saves a rank has exchanged the hashes of.                           *)

\* Saves are counted by whole numbers, and each has a label.
LEMMA SavesTyped ==
  ASSUME config = Load(ask), Works
  PROVE  /\ MaxSteps \in Nat \ {0} /\ Saves \subseteq 1..MaxSteps + 1
         /\ \A s \in Saves : LabelOf(s) \in Labels /\ s \in Int /\ (s <= MaxSteps => SaveDue(s))
         /\ MaxSteps + 1 \in Saves
<1>1. MaxSteps \in Nat \ {0} /\ Labels = 1..MaxSteps
  BY WorksTyped
<1> QED  BY <1>1 DEF Saves, LabelOf

\* The save a rank is in is one that is due.
LEMMA CurrentTyped ==
  ASSUME MeshInv, NEW r \in Processes
  PROVE  /\ Current(r) \in Nat /\ step[r] \in Nat
         /\ at[r] \in {"save", "final"} =>
              /\ Current(r) \in Saves /\ LabelOf(Current(r)) = step[r] /\ step[r] \in Labels
              /\ Len(weights[r]) = step[r] /\ weights[r] \in Seq(Gradients(r))
              /\ Works /\ config = Load(ask)
<1>1. Placed(r) /\ config = Load(ask) /\ step[r] \in Nat /\ at[r] \in Handlers
  BY DEF MeshInv, MeshTypes
<1>2. CASE at[r] \in {"save", "final", "done"}
  <2>1. Works /\ step[r] \in 1..MaxSteps /\ (at[r] \in {"final", "done"} => step[r] = MaxSteps)
        /\ (at[r] = "save" => SaveDue(step[r]))
    BY <1>1, <1>2 DEF Placed
  <2>2. MaxSteps \in Nat \ {0} /\ Labels = 1..MaxSteps
    BY <1>1, <2>1, WorksTyped
  <2>3. Len(weights[r]) = step[r] /\ weights[r] \in Seq(Gradients(r))
    BY <1>1, <1>2, <2>1 DEF Placed
  <2>4. Current(r) = IF at[r] = "save" THEN step[r] ELSE MaxSteps + 1
    BY <1>2 DEF Current
  <2>5. Current(r) \in Nat /\ Current(r) \in Saves /\ LabelOf(Current(r)) = step[r]
    BY <2>1, <2>2, <2>4, <1>2 DEF Saves, LabelOf
  <2> QED  BY <1>1, <2>1, <2>2, <2>3, <2>5
<1>3. CASE at[r] \notin {"save", "final", "done"}
  BY <1>1, <1>3 DEF Current
<1> QED  BY <1>2, <1>3

\* A rank that stays has exchanged what it had.
LEMMA ExchangedStays ==
  ASSUME UNCHANGED job, NEW r, Stays(r), NEW s
  PROVE  Exchanged(r, s)' <=> Exchanged(r, s)
<1>1. Current(r)' = Current(r)
  BY SameJob DEF Stays, Current
<1> QED  BY <1>1 DEF Stays, Exchanged

\* A call is an exchange only where it is the call for hashes.
LEMMA ExchangedMakes ==
  ASSUME MeshInv, UNCHANGED job, Sharded, NEW r \in Processes, Makes(r), NEW s
  PROVE  /\ Head(todo[r]).kind # "hashes" => (Exchanged(r, s)' <=> Exchanged(r, s))
         /\ Head(todo[r]).kind = "hashes" =>
              /\ Exchanged(r, s)' <=> Exchanged(r, s) \/ s = Current(r)
              /\ ~Exchanged(r, Current(r)) /\ at[r] \in {"save", "final"}
         /\ Current(r)' = Current(r)
<1> DEFINE n == Len(todo[r])  k == AfterHashes(r)
<1>1. /\ at'[r] = at[r] /\ step'[r] = step[r] /\ todo'[r] = Tail(todo[r]) /\ todo[r] # <<>>
  BY DEF Makes, Due
<1>2. Current(r)' = Current(r) /\ Current(r) \in Nat
  BY <1>1, SameJob, CurrentTyped DEF Current
<1>3. n \in Nat /\ n >= 1 /\ Len(todo'[r]) = n - 1 /\ k \in Nat
  BY <1>1, NextCall DEF AfterHashes
<1>4. at[r] # "done"
  BY <1>1 DEF MeshInv, Placed
<1>5. at[r] \in {"save", "final"} => (Head(todo[r]).kind = "hashes" <=> n = k + 1)
  <2>1. SUFFICES ASSUME at[r] \in {"save", "final"} PROVE Head(todo[r]).kind = "hashes" <=> n = k + 1
    OBVIOUS
  <2>2. NextOfSave(r, todo[r]) /\ (Head(todo[r]).kind = "hashes" => n = k + 1)
    BY <1>1, <2>1, CallsOfKind
  <2>3. n = k + 1 => Head(todo[r]) = Meet("hashes", Processes)
    <3>1. SUFFICES ASSUME n = k + 1 PROVE Head(todo[r]) = Meet("hashes", Processes)
      OBVIOUS
    <3>2. n - k = 1
      BY <1>3, <3>1
    <3> HIDE DEF n, k
    <3>3. n - k \notin {4, 3, 2, 0, -1}
      BY <3>2
    <3> QED  BY <2>2, <3>3 DEF NextOfSave, n, k
  <2>4. Meet("hashes", Processes).kind = "hashes"
    BY DEF Meet, Call
  <2> QED  BY <2>2, <2>3, <2>4
<1>6. Head(todo[r]).kind = "hashes" => at[r] \in {"save", "final"}
  BY <1>1, CallsOfKind
<1>7. Exchanged(r, s)' <=> \/ s < Current(r)
                           \/ s = Current(r) /\ at[r] \in {"save", "final", "done"} /\ n - 1 <= k
  BY <1>1, <1>2, <1>3 DEF Exchanged
<1>8. \A z : Exchanged(r, z) <=> \/ z < Current(r)
                                 \/ z = Current(r) /\ at[r] \in {"save", "final", "done"} /\ n <= k
  BY DEF Exchanged
<1>9. ~(Current(r) < Current(r))
  BY <1>2
<1>10. (n - 1 <= k <=> n <= k \/ n = k + 1)
  BY <1>3
<1>11. n = k + 1 => ~(n <= k)
  BY <1>3
<1> QED  BY <1>2, <1>4, <1>5, <1>6, <1>7, <1>8, <1>9, <1>10, <1>11

\* The next save begins where the one before has ended.
LEMMA ExchangedEnters ==
  ASSUME MeshInv, UNCHANGED job, Works, Sharded, NEW r \in Processes, Enters(r), NEW s \in Saves
  PROVE  Exchanged(r, s)' <=> Exchanged(r, s)
<1>1. /\ Placed(r) /\ todo[r] = <<>> /\ config = Load(ask) /\ step[r] \in Nat
  BY DEF MeshInv, MeshTypes, Enters, Returned
<1>2. /\ MaxSteps \in Nat \ {0} /\ s \in 1..MaxSteps + 1 /\ s \in Int /\ (s <= MaxSteps => SaveDue(s))
      /\ MaxSteps' = MaxSteps
  BY <1>1, SavesTyped, SameJob
<1>3. /\ at[r] \in {"start", "groups"} => step[r] = 0
      /\ at[r] \in {"train", "eval", "save", "final", "done"} => step[r] \in 1..MaxSteps
      /\ at[r] \in {"final", "done"} => step[r] = MaxSteps
  BY <1>1 DEF Placed
<1>4. Len(todo[r]) = 0 /\ AfterHashes(r) \in {1, 2}
  BY <1>1 DEF AfterHashes
<1>5. Current(r) = IF at[r] \in {"final", "done"} THEN MaxSteps + 1 ELSE step[r]
  BY DEF Current
<1>6. Current(r)' = IF at'[r] \in {"final", "done"} THEN MaxSteps + 1 ELSE step'[r]
  BY <1>2 DEF Current
<1>7. Exchanged(r, s) <=> \/ s < Current(r)
                          \/ s = Current(r) /\ at[r] \in {"save", "final", "done"}
  BY <1>4 DEF Exchanged
<1>8. Exchanged(r, s)' <=> \/ s < Current(r)'
                           \/ s = Current(r)' /\ at'[r] \in {"save", "final", "done"}
                              /\ Len(todo'[r]) <= AfterHashes(r)
  BY DEF Exchanged
<1>9. CASE at[r] = "start" /\ at'[r] = "groups" /\ step'[r] = step[r]
  BY <1>2, <1>3, <1>5, <1>6, <1>7, <1>8, <1>9
<1>10. CASE at[r] \in {"start", "groups"} /\ at'[r] = "refused" /\ step'[r] = step[r]
  BY <1>2, <1>3, <1>5, <1>6, <1>7, <1>8, <1>10
<1>11. CASE GoesOn(r) /\ step[r] < MaxSteps /\ at'[r] = "train" /\ step'[r] = step[r] + 1
  <2>1. s = step[r] => at[r] = "save"
    BY <1>2, <1>3, <1>11 DEF GoesOn
  <2>2. at[r] \notin {"final", "done"}
    BY <1>11 DEF GoesOn
  <2>3. Current(r) = step[r] /\ Current(r)' = step[r] + 1 /\ at'[r] \notin {"save", "final", "done"}
    BY <1>5, <1>6, <1>11, <2>2
  <2>4. s < step[r] + 1 <=> s < step[r] \/ s = step[r]
    BY <1>1, <1>2
  <2> QED  BY <1>7, <1>8, <2>1, <2>2, <2>3, <2>4
<1>12. CASE /\ GoesOn(r) /\ ~(step[r] < MaxSteps) /\ at'[r] = "final" /\ todo'[r] = SaveCalls(r)
            /\ step'[r] = step[r]
  <2>1. step[r] = MaxSteps
    BY <1>1, <1>2, <1>3, <1>12 DEF GoesOn
  <2>2. s = step[r] => at[r] = "save"
    BY <1>2, <1>3, <1>12, <2>1 DEF GoesOn
  <2>3. Len(todo'[r]) > AfterHashes(r)
    BY <1>4, <1>12, SaveCallsAre
  <2>4. at[r] \notin {"final", "done"}
    BY <1>12 DEF GoesOn
  <2>5. Current(r) = step[r] /\ Current(r)' = step[r] + 1
    BY <1>5, <1>6, <1>12, <2>1, <2>4
  <2>6. s < step[r] + 1 <=> s < step[r] \/ s = step[r]
    BY <1>1, <1>2
  <2>7. ~(Len(todo'[r]) <= AfterHashes(r))
    BY <1>4, <1>12, SaveCallsAre
  <2> QED  BY <1>7, <1>8, <2>2, <2>4, <2>5, <2>6, <2>7
<1>13. CASE at[r] = "train" /\ at'[r] = "eval" /\ step'[r] = step[r]
  BY <1>5, <1>6, <1>7, <1>8, <1>13
<1>14. CASE /\ at[r] \in {"eval", "train"} /\ at'[r] = "save" /\ todo'[r] = SaveCalls(r)
            /\ step'[r] = step[r]
  <2>1. ~(Len(todo'[r]) <= AfterHashes(r))
    BY <1>4, <1>14, SaveCallsAre
  <2> QED  BY <1>5, <1>6, <1>7, <1>8, <1>14, <2>1
<1>15. CASE at[r] = "final" /\ at'[r] = "done" /\ todo'[r] = <<>> /\ step'[r] = step[r]
  <2>1. Len(todo'[r]) <= AfterHashes(r)
    BY <1>4, <1>15
  <2> QED  BY <1>5, <1>6, <1>7, <1>8, <1>15, <2>1
<1> QED  BY <1>9, <1>10, <1>11, <1>12, <1>13, <1>14, <1>15 DEF Enters

\* A step in which the ranks do not tell each other their hashes.
Quiet(r) == Stays(r) \/ (Makes(r) /\ Head(todo[r]).kind # "hashes") \/ Enters(r)

\* Without that call, a rank has exchanged what it had.
LEMMA ExchangedQuiet ==
  ASSUME MeshInv, UNCHANGED job, Works, Sharded, NEW r \in Processes, Quiet(r), NEW s \in Saves
  PROVE  Exchanged(r, s)' <=> Exchanged(r, s)
BY ExchangedStays, ExchangedMakes, ExchangedEnters DEF Quiet

\* All the ranks have come to the exchange of one save.
LEMMA SaveOfAll ==
  ASSUME MeshInv, Sharded, Together, NEW r \in Processes, NEW q \in Processes,
         todo[r] # <<>>, todo[q] # <<>>,
         Head(todo[r]).kind = "hashes", Head(todo[q]).kind = "hashes"
  PROVE  Current(r) = Current(q) /\ step[r] = step[q]
<1>1. ASSUME NEW p \in Processes, todo[p] # <<>>, Head(todo[p]).kind = "hashes"
      PROVE  ~Exchanged(p, Current(p)) /\ at[p] \in {"save", "final"}
  <2>1. at[p] \in {"save", "final"} /\ Len(todo[p]) = AfterHashes(p) + 1
    BY <1>1, CallsOfKind
  <2>2. AfterHashes(p) \in Nat /\ Current(p) \in Nat
    BY CurrentTyped DEF AfterHashes
  <2>3. ~(Len(todo[p]) <= AfterHashes(p)) /\ ~(Current(p) < Current(p))
    BY <2>1, <2>2
  <2> QED  BY <2>1, <2>3 DEF Exchanged
<1>2. /\ ~Exchanged(r, Current(r)) /\ ~Exchanged(q, Current(q))
      /\ Current(r) \in Saves /\ Current(q) \in Saves /\ Current(r) \in Nat /\ Current(q) \in Nat
      /\ LabelOf(Current(r)) = step[r] /\ LabelOf(Current(q)) = step[q]
  BY <1>1, CurrentTyped
<1>3. ~Exchanged(q, Current(r)) /\ ~Exchanged(r, Current(q))
  BY <1>2 DEF Together
<1>4. ~(Current(r) < Current(q)) /\ ~(Current(q) < Current(r))
  BY <1>3 DEF Exchanged
<1>5. Current(r) = Current(q)
  BY <1>2, <1>4
<1> QED  BY <1>2, <1>5

\* The hashes are only exchanged by all ranks together.
LEMMA HashesMeet ==
  ASSUME MeshInv, NEW r \in Processes, todo[r] # <<>>, Head(todo[r]).kind = "hashes"
  PROVE  Head(todo[r]).op = "meet" /\ Head(todo[r]).peers = Processes
<1>1. Head(todo[r]) = Meet("hashes", Processes)
  BY CallsOfKind
<1> QED  BY <1>1 DEF Meet, Call

-----------------------------------------------------------------------------
(* What a step is for a save.                                              *)

\* The files of a shard are written by a rank on its own.
LEMMA FilesAlone ==
  ASSUME MeshInv, NEW r \in Processes, todo[r] # <<>>, Head(todo[r]).kind \in ShardFiles
  PROVE  Head(todo[r]).op = "do"
<1> DEFINE call == Head(todo[r])
<1>1. Sharded /\ NextOfSave(r, todo[r])
  BY CallsOfKind
<1>2. call # Meet("hashes", Processes) /\ call # Meet("barrier", Processes)
  BY DEF Meet, Call, ShardFiles
<1>3. \E what : call = Do(what)
  BY <1>1, <1>2 DEF NextOfSave
<1> QED  BY <1>3 DEF Do, Call

\* It writes no file, and hears of none.
Gentle(q) ==
  Stays(q) \/ Enters(q) \/ (Makes(q) /\ Head(todo[q]).kind \notin ShardFiles \cup {"hashes"})

\* All ranks tell each other their hashes.
Exchange ==
  /\ UNCHANGED <<job, at, step, weights, shards, meta, failed>>
  /\ \A q \in Processes : Makes(q) /\ todo[q] # <<>> /\ Head(todo[q]).kind = "hashes"
  /\ listed' = [file \in Processes \X ShardFiles |-> shards[step[file[1]]][file]]

\* A collective is an exchange of hashes, or has nothing to do with files.
LEMMA MeetsIs ==
  ASSUME MeshInv, NEW r \in Processes, Meets(r),
         UNCHANGED <<job, at, step, weights, shards, meta, failed>>
  PROVE  Exchange \/ (UNCHANGED listed /\ \A q \in Processes : Gentle(q))
<1> DEFINE peers == Head(todo[r]).peers  kind == Head(todo[r]).kind
<1>1. /\ \A q \in Processes \cap peers : Makes(q) /\ todo[q] # <<>>
      /\ \A q \in Processes \ peers : Stays(q)
  BY MeetsMoves
<1>2. \A q \in peers : Head(todo[q]).op # "do" /\ Head(todo[q]).kind = kind
  BY DEF Meets, Joins
<1>3. todo[r] # <<>>
  BY DEF Meets, Joins, Due
<1>4. CASE kind = "hashes"
  <2>1. peers = Processes
    BY <1>3, <1>4, HashesMeet
  <2>2. listed' = [file \in Processes \X ShardFiles |-> shards[step[file[1]]][file]]
    BY <1>4 DEF Meets, Label
  <2> QED  BY <1>1, <1>2, <1>4, <2>1, <2>2 DEF Exchange
<1>5. CASE kind # "hashes"
  <2>1. UNCHANGED listed
    BY <1>5 DEF Meets
  <2>2. ASSUME NEW q \in Processes \cap peers PROVE Head(todo[q]).kind \notin ShardFiles
    BY <1>1, <1>2, <2>2, FilesAlone
  <2> QED  BY <1>1, <1>2, <1>5, <2>1, <2>2 DEF Gentle
<1> QED  BY <1>4, <1>5

\* Each step is one of four kinds.
LEMMA StepIs ==
  ASSUME MeshInv, [Next]_vars
  PROVE  \/ Exchange
         \/ UNCHANGED <<listed, shards, meta>> /\ failed \subseteq failed' /\ \A q \in Processes : Gentle(q)
         \/ \E r \in Processes : Local(r)
         \/ \E r \in Processes : Fail(r)
<1>1. CASE UNCHANGED vars
  <2>1. /\ UNCHANGED job /\ at' = at /\ step' = step /\ todo' = todo /\ grads' = grads
        /\ weights' = weights /\ shards' = shards /\ meta' = meta /\ listed' = listed /\ failed' = failed
    BY <1>1 DEF vars, disk
  <2> QED  BY <2>1 DEF Gentle, Stays
<1>2. CASE Collective
  <2>1. PICK r \in Processes : Meets(r)
    BY <1>2, CollectiveIs
  <2>2. UNCHANGED <<job, at, step, weights, shards, meta, failed>>
    BY <1>2, CollectiveIs
  <2> QED  BY <2>1, <2>2, MeetsIs
<1>3. CASE Transfer
  <2>1. UNCHANGED <<disk, failed>> /\ \A q \in Processes : Stays(q) \/ (Makes(q) /\ Head(todo[q]).kind = "")
    BY <1>3, TransferMoves
  <2>2. "" \notin ShardFiles \cup {"hashes"}
    BY DEF ShardFiles
  <2> QED  BY <2>1, <2>2 DEF Gentle, disk
<1>4. ASSUME NEW r \in Processes, Handler(r)
      PROVE  UNCHANGED <<listed, shards, meta>> /\ failed \subseteq failed' /\ \A q \in Processes : Gentle(q)
  BY <1>4, HandlerMoves DEF Gentle, disk
<1>5. ASSUME NEW r \in Processes, Skip(r)
      PROVE  UNCHANGED <<listed, shards, meta>> /\ failed \subseteq failed' /\ \A q \in Processes : Gentle(q)
  <2>1. UNCHANGED <<disk, failed>> /\ todo[r] # <<>> /\ Head(todo[r]).op = "try"
    BY <1>5 DEF Skip, LeavesOut, Due
  <2>2. Makes(r) /\ \A q \in Processes \ {r} : Stays(q)
    BY <1>5, SkipMoves
  <2>3. Head(todo[r]).kind \notin ShardFiles \cup {"hashes"}
    BY <2>1, FilesAlone, HashesMeet
  <2> QED  BY <2>1, <2>2, <2>3 DEF Gentle, disk
<1> QED  BY <1>1, <1>2, <1>3, <1>4, <1>5 DEF Next, Rank, Handler

\* A rank that has failed stays where it is.
LEMMA FailedStay ==
  ASSUME NEW q, Moves(q), q \in failed
  PROVE  Stays(q)
BY DEF Moves, Makes, Enters, Due, Returned

-----------------------------------------------------------------------------
(* What is in the files.                                                   *)

\* What has been applied stays.
LEMMA ContentStays ==
  ASSUME MeshInv, [Next]_vars, NEW q \in Processes, NEW l \in Nat, l <= Len(weights[q])
  PROVE  l <= Len(weights'[q]) /\ SubSeq(weights'[q], 1, l) = SubSeq(weights[q], 1, l)
<1>1. Moves(q) /\ UNCHANGED job
  BY NextMoves
<1>2. CASE weights'[q] = weights[q]
  BY <1>2
<1>3. CASE Makes(q) /\ weights'[q] # weights[q]
  <2>1. Works /\ Placed(q) /\ todo[q] # <<>>
    BY <1>3, NextCall DEF Makes, Due, MeshInv
  <2>2. Placed(q)' /\ Works' = Works /\ Gradients(q)' = Gradients(q)
    BY <1>1, <1>3, SameJob, PlacedMakes
  <2>3. weights[q] \in Seq(Gradients(q)) /\ weights'[q] \in Seq(Gradients(q))
    BY <2>1, <2>2 DEF Placed
  <2>4. weights'[q] = Append(weights[q], grads[q])
    BY <1>3 DEF Makes
  <2>5. Len(weights'[q]) = Len(weights[q]) + 1 /\ Len(weights[q]) \in Nat
        /\ \A i \in 1..Len(weights[q]) : weights'[q][i] = weights[q][i]
    <3> DEFINE S == Gradients(q) \cup {grads[q]}  w == weights[q]
    <3>1. w \in Seq(S) /\ grads[q] \in S
      BY <2>3
    <3> HIDE DEF S, w
    <3>2. /\ Len(Append(w, grads[q])) = Len(w) + 1 /\ Len(w) \in Nat
          /\ \A i \in 1..Len(w) : Append(w, grads[q])[i] = w[i]
      BY <3>1
    <3> QED  BY <2>4, <3>2 DEF w
  <2>6. l <= Len(weights'[q])
    BY <2>5
  <2> DEFINE a == SubSeq(weights[q], 1, l)  b == SubSeq(weights'[q], 1, l)
  <2>7. 1 \in 1..Len(weights[q]) + 1 /\ l \in 0..Len(weights[q])
        /\ 1 \in 1..Len(weights'[q]) + 1 /\ l \in 0..Len(weights'[q]) /\ 1 - 1 = 0 /\ l - 1 + 1 = l
    BY <2>5, <2>6
  <2>8. a \in Seq(Gradients(q)) /\ Len(a) = l /\ \A i \in 1..l : a[i] = weights[q][i]
    BY <2>3, <2>7, SubSeqProperties
  <2>9. b \in Seq(Gradients(q)) /\ Len(b) = l /\ \A i \in 1..l : b[i] = weights'[q][i]
    BY <2>3, <2>7, SubSeqProperties
  <2>10. \A i \in 1..l : a[i] = b[i]
    BY <2>5, <2>8, <2>9
  <2> HIDE DEF a, b
  <2>11. a = b
    BY <2>8, <2>9, <2>10, SeqEqual
  <2> QED  BY <2>6, <2>11 DEF a, b
<1> QED  BY <1>1, <1>2, <1>3 DEF Moves, Stays, Enters

\* One file of a directory.
FileFits(l, file) ==
  /\ file \in Processes \X ShardFiles /\ l <= Len(weights[file[1]])
  /\ shards[l][file] = Content(l, file) \/ Spoiled(l, file)

\* All files of all directories.
FilesFit == \A l \in Labels : \A file \in DOMAIN shards[l] : FileFits(l, file)

\* What rank q has put there.
Covers(q) ==
  /\ \A s \in Saves : Exchanged(q, s) => {q} \X ShardFiles \subseteq DOMAIN shards[LabelOf(s)]
  /\ at[q] \in {"save", "final"} => {q} \X WrittenBefore(q) \subseteq DOMAIN shards[step[q]]

\* Files one by one, ranks one by one.
LEMMA ShardsFitIs == ShardsFit <=> FilesFit /\ \A q \in Processes : Covers(q)
BY DEF ShardsFit, FilesFit, FileFits, Covers

\* A file nobody touches stays as it is.
LEMMA FileStays ==
  ASSUME MeshInv, [Next]_vars, Works, Sharded, failed \subseteq failed',
         NEW l \in Labels, NEW file, FileFits(l, file), shards'[l][file] = shards[l][file]
  PROVE  FileFits(l, file)'
<1> DEFINE q == file[1]
<1>1. q \in Processes /\ file \in Processes \X ShardFiles
  BY DEF FileFits
<1>2. UNCHANGED job /\ Moves(q) /\ Processes' = Processes /\ Sharded' = Sharded
  BY <1>1, NextMoves, SameJob
<1>3. config = Load(ask)
  BY DEF MeshInv, MeshTypes
<1>4. l \in Nat
  BY <1>3, WorksTyped
<1>5. l <= Len(weights'[q]) /\ SubSeq(weights'[q], 1, l) = SubSeq(weights[q], 1, l)
  BY <1>1, <1>4, ContentStays DEF FileFits
<1>6. CASE shards[l][file] = Content(l, file)
  <2>1. Content(l, file)' = Content(l, file)
    BY <1>5 DEF Content, Holds
  <2> QED  BY <1>1, <1>2, <1>5, <1>6, <2>1 DEF FileFits
<1>7. CASE Spoiled(l, file)
  <2>1. q \in failed
    BY <1>7 DEF Spoiled
  <2>2. Stays(q)
    BY <1>2, <2>1, FailedStay
  <2>3. Current(q)' = Current(q)
    BY <1>2, <2>2, SameJob DEF Stays, Current
  <2>4. Exchanged(q, Current(q))' <=> Exchanged(q, Current(q))
    <3>1. Exchanged(q, Current(q)) <=> \/ Current(q) < Current(q)
                                       \/ at[q] \in {"save", "final", "done"} /\ Len(todo[q]) <= AfterHashes(q)
      BY DEF Exchanged
    <3>2. Exchanged(q, Current(q))' <=> \/ Current(q)' < Current(q)'
                                        \/ at'[q] \in {"save", "final", "done"} /\ Len(todo'[q]) <= AfterHashes(q)
      BY DEF Exchanged
    <3> QED  BY <2>2, <2>3, <3>1, <3>2 DEF Stays
  <2>5. Spoiled(l, file)'
    BY <1>7, <2>2, <2>4 DEF Spoiled, Stays, Torn
  <2> QED  BY <1>1, <1>2, <1>5, <2>5 DEF FileFits
<1> QED  BY <1>6, <1>7 DEF FileFits

\* A rank has in the directories what it should, whatever call it makes.
LEMMA CoversStays ==
  ASSUME MeshInv, [Next]_vars, Works, Sharded, NEW q \in Processes, Covers(q),
         \A l \in Labels : DOMAIN shards[l] \subseteq DOMAIN shards'[l],
         Makes(q) /\ Head(todo[q]).kind \in ShardFiles =>
           <<q, Head(todo[q]).kind>> \in DOMAIN shards'[step[q]]
  PROVE  Covers(q)'
<1> DEFINE n == Len(todo[q]) - AfterHashes(q)
<1>1. UNCHANGED job /\ Moves(q) /\ Frame /\ config = Load(ask)
  BY NextMoves DEF MeshInv, MeshTypes
<1>2. Saves' = Saves /\ \A s : LabelOf(s)' = LabelOf(s)
  BY <1>1, SameJob
<1>3. \A s \in Saves : LabelOf(s) \in Labels
  BY <1>1, SavesTyped
<1>4. at[q] \in {"save", "final"} => step[q] \in Labels /\ LabelOf(Current(q)) = step[q]
  BY CurrentTyped
<1>5. WrittenBefore(q) = (IF n < 4 THEN {"model.pt"} ELSE {}) \cup (IF n < 3 THEN {"optim.pt"} ELSE {})
                         \cup (IF n < 2 THEN {"rng.pt"} ELSE {})
  BY DEF WrittenBefore
<1>6. (\A s \in Saves : Exchanged(q, s) => {q} \X ShardFiles \subseteq DOMAIN shards'[LabelOf(s)])
  BY <1>3 DEF Covers
<1>7. at[q] \in {"save", "final"} => {q} \X WrittenBefore(q) \subseteq DOMAIN shards'[step[q]]
  BY <1>4 DEF Covers
<1>8. CASE Stays(q)
  <2>1. \A s \in Saves : Exchanged(q, s)' <=> Exchanged(q, s)
    BY <1>1, <1>8, ExchangedStays
  <2>2. WrittenBefore(q)' = WrittenBefore(q) /\ at'[q] = at[q] /\ step'[q] = step[q]
    BY <1>8 DEF Stays, WrittenBefore
  <2> QED  BY <1>2, <1>6, <1>7, <2>1, <2>2 DEF Covers
<1>9. CASE Enters(q)
  <2>1. \A s \in Saves : Exchanged(q, s)' <=> Exchanged(q, s)
    BY <1>1, <1>9, ExchangedEnters
  <2>2. at'[q] \in {"save", "final"} => WrittenBefore(q)' = {}
    <3>1. SUFFICES ASSUME at'[q] \in {"save", "final"} PROVE WrittenBefore(q)' = {}
      OBVIOUS
    <3>2. todo'[q] = SaveCalls(q)
      BY <1>9, <3>1 DEF Enters
    <3>3. Len(todo'[q]) = AfterHashes(q) + 4 /\ AfterHashes(q) \in Nat
      BY <3>2, SaveCallsAre DEF AfterHashes
    <3>4. Len(todo'[q]) - AfterHashes(q) = 4
      BY <3>3
    <3>5. AfterHashes(q)' = AfterHashes(q)
      BY DEF AfterHashes
    <3>6. Len(todo[q])' - AfterHashes(q)' = 4
      BY <3>4, <3>5
    <3> QED  BY <3>6 DEF WrittenBefore
  <2> QED  BY <1>2, <1>6, <2>1, <2>2 DEF Covers
<1>10. CASE Makes(q)
  <2> DEFINE kind == Head(todo[q]).kind
  <2>1. /\ at'[q] = at[q] /\ step'[q] = step[q] /\ todo'[q] = Tail(todo[q]) /\ todo[q] # <<>>
    BY <1>10 DEF Makes, Due
  <2>2. Len(todo[q]) \in Nat /\ Len(todo'[q]) = Len(todo[q]) - 1 /\ AfterHashes(q) \in Nat
    BY <2>1, NextCall DEF AfterHashes
  <2>3. n \in Int /\ Len(todo'[q]) - AfterHashes(q) = n - 1
    BY <2>2
  <2>4. WrittenBefore(q)' = (IF n - 1 < 4 THEN {"model.pt"} ELSE {})
                            \cup (IF n - 1 < 3 THEN {"optim.pt"} ELSE {})
                            \cup (IF n - 1 < 2 THEN {"rng.pt"} ELSE {})
    BY <2>3 DEF WrittenBefore, AfterHashes
  <2> HIDE DEF n
  <2>5. ASSUME at[q] \in {"save", "final"}
        PROVE  /\ WrittenBefore(q)' = WrittenBefore(q) \cup ({kind} \cap ShardFiles)
               /\ kind = "hashes" => WrittenBefore(q) = ShardFiles
    <3>1. NextOfSave(q, todo[q])
      BY <2>1, <2>5, CallsOfKind
    <3>2. \/ kind = "model.pt" /\ n = 4
          \/ kind = "optim.pt" /\ n = 3
          \/ kind = "rng.pt" /\ n = 2
          \/ kind = "hashes" /\ n = 1
          \/ kind = "barrier" /\ n = 0
          \/ kind = "meta" /\ n = -1
      <4>2. LET call == Head(todo[q])
            IN \/ call = Do("model.pt") /\ n = 4
               \/ call = Do("optim.pt") /\ n = 3
               \/ call = Do("rng.pt") /\ n = 2
               \/ call = Meet("hashes", Processes) /\ n = 1
               \/ call = Meet("barrier", Processes) /\ n = 0
               \/ call = Do("meta") /\ n = -1
        BY <3>1, Zenon DEF NextOfSave, n
      <4>3. /\ Do("model.pt").kind = "model.pt" /\ Do("optim.pt").kind = "optim.pt"
            /\ Do("rng.pt").kind = "rng.pt" /\ Do("meta").kind = "meta"
            /\ Meet("hashes", Processes).kind = "hashes" /\ Meet("barrier", Processes).kind = "barrier"
        BY DEF Do, Meet, Call
      <4> QED  BY <4>2, <4>3, Zenon
    <3>3. CASE kind = "model.pt" /\ n = 4
      <4>1. WrittenBefore(q) = {} \cup {} \cup {} /\ WrittenBefore(q)' = {"model.pt"} \cup {} \cup {}
        BY <1>5, <2>4, <3>3
      <4> QED  BY <3>3, <4>1 DEF ShardFiles
    <3>4. CASE kind = "optim.pt" /\ n = 3
      <4>1. /\ WrittenBefore(q) = {"model.pt"} \cup {} \cup {}
            /\ WrittenBefore(q)' = {"model.pt"} \cup {"optim.pt"} \cup {}
        BY <1>5, <2>4, <3>4
      <4> QED  BY <3>4, <4>1 DEF ShardFiles
    <3>5. CASE kind = "rng.pt" /\ n = 2
      <4>1. /\ WrittenBefore(q) = {"model.pt"} \cup {"optim.pt"} \cup {}
            /\ WrittenBefore(q)' = {"model.pt"} \cup {"optim.pt"} \cup {"rng.pt"}
        BY <1>5, <2>4, <3>5
      <4> QED  BY <3>5, <4>1 DEF ShardFiles
    <3>6. CASE kind \in {"hashes", "barrier", "meta"} /\ n \in {1, 0, -1}
      <4>1. /\ WrittenBefore(q) = {"model.pt"} \cup {"optim.pt"} \cup {"rng.pt"}
            /\ WrittenBefore(q)' = {"model.pt"} \cup {"optim.pt"} \cup {"rng.pt"}
        BY <1>5, <2>4, <3>6
      <4>2. {kind} \cap ShardFiles = {}
        BY <3>6 DEF ShardFiles
      <4> QED  BY <4>1, <4>2 DEF ShardFiles
    <3> QED  BY <3>2, <3>3, <3>4, <3>5, <3>6
  <2>6. at'[q] \in {"save", "final"} => {q} \X WrittenBefore(q)' \subseteq DOMAIN shards'[step'[q]]
    BY <1>7, <1>10, <2>1, <2>5
  <2>7. ASSUME NEW s \in Saves, Exchanged(q, s)'
        PROVE  {q} \X ShardFiles \subseteq DOMAIN shards'[LabelOf(s)]
    <3>1. CASE Exchanged(q, s)
      BY <1>6, <3>1
    <3>2. CASE ~Exchanged(q, s)
      <4>1. kind = "hashes" /\ s = Current(q) /\ at[q] \in {"save", "final"}
        BY <1>1, <1>10, <2>7, <3>2, ExchangedMakes
      <4> QED  BY <1>4, <1>7, <2>5, <4>1
    <3> QED  BY <3>1, <3>2
  <2> QED  BY <1>2, <2>6, <2>7 DEF Covers
<1> QED  BY <1>1, <1>8, <1>9, <1>10 DEF Moves

\* A file is written under a label.
Writes(l, file, content) == shards' = [shards EXCEPT ![l] = Written(@, {file}, content)]

\* Only a call of its own changes what a rank has in the directories.
LEMMA LocalWrites ==
  ASSUME MeshInv, Works, Sharded, NEW r \in Processes, Local(r)
  PROVE  LET what == Head(todo[r]).kind
         IN /\ todo[r] # <<>> /\ what # "hashes"
            /\ what \notin ShardFiles => UNCHANGED shards
            /\ what \in ShardFiles =>
                 /\ Writes(step[r], <<r, what>>, Holds(weights[r]))
                 /\ at[r] \in {"save", "final"}
            /\ what # "meta" => UNCHANGED meta
            /\ what = "meta" =>
                 /\ meta' = [meta EXCEPT ![step[r]] = listed]
                 /\ at[r] \in {"save", "final"} /\ r = 0 /\ Len(todo[r]) <= AfterHashes(r)
<1> DEFINE call == Head(todo[r])  what == call.kind
<1>1. todo[r] # <<>> /\ call.op = "do"
  BY DEF Local, Due
<1>2. what # "hashes" /\ what # "save"
  BY <1>1, CallsOfKind, HashesMeet
<1>3. what \in ShardFiles \cup {"meta"} => at[r] \in {"save", "final"} /\ NextOfSave(r, todo[r])
  BY <1>1, CallsOfKind
<1>4. shards' = IF what \in ShardFiles
                THEN [shards EXCEPT ![step[r]] = Written(@, {<<r, what>>}, Holds(weights[r]))]
                ELSE shards
  BY <1>2 DEF Local, Label
<1>5. meta' = IF what = "meta" THEN [meta EXCEPT ![step[r]] = listed] ELSE meta
  BY <1>2 DEF Local, Label
<1>6. what = "meta" => r = 0 /\ Len(todo[r]) <= AfterHashes(r)
  <2>1. SUFFICES ASSUME what = "meta" PROVE r = 0 /\ Len(todo[r]) <= AfterHashes(r)
    OBVIOUS
  <2>2. /\ Do("model.pt").kind = "model.pt" /\ Do("optim.pt").kind = "optim.pt"
        /\ Do("rng.pt").kind = "rng.pt" /\ Do("save").kind = "save"
        /\ Meet("hashes", Processes).kind = "hashes" /\ Meet("barrier", Processes).kind = "barrier"
    BY DEF Do, Meet, Call
  <2>3. Len(todo[r]) - AfterHashes(r) = -1 /\ r = 0
    BY <1>3, <2>1, <2>2 DEF NextOfSave
  <2>4. Len(todo[r]) \in Nat /\ AfterHashes(r) \in Nat
    BY <1>1, NextCall DEF AfterHashes
  <2> QED  BY <2>3, <2>4
<1> QED  BY <1>1, <1>2, <1>3, <1>4, <1>5, <1>6 DEF Writes

\* A directory after a file has been written in it.
LEMMA WrittenIs ==
  ASSUME NEW l \in Labels, DOMAIN shards = Labels, NEW file0, NEW content,
         Writes(l, file0, content)
  PROVE  /\ DOMAIN shards'[l] = DOMAIN shards[l] \cup {file0} /\ shards'[l][file0] = content
         /\ \A file \in DOMAIN shards[l] : file # file0 => shards'[l][file] = shards[l][file]
         /\ \A k \in Labels : k # l => shards'[k] = shards[k]
         /\ \A k \in Labels : DOMAIN shards[k] \subseteq DOMAIN shards'[k]
<1>1. shards'[l] = Written(shards[l], {file0}, content) /\ \A k \in Labels : k # l => shards'[k] = shards[k]
  BY DEF Writes
<1>2. /\ DOMAIN shards'[l] = DOMAIN shards[l] \cup {file0} /\ shards'[l][file0] = content
      /\ \A file \in DOMAIN shards[l] : file # file0 => shards'[l][file] = shards[l][file]
  BY <1>1 DEF Written
<1> QED  BY <1>1, <1>2

\* A rank that makes a call does not stay, nor enter another handler.
LEMMA NeverBoth ==
  ASSUME MeshInv, NEW q \in Processes, Makes(q)
  PROVE  ~Stays(q) /\ ~Enters(q)
<1>1. todo[q] # <<>> /\ todo'[q] = Tail(todo[q])
  BY DEF Makes, Due
<1>2. Len(todo[q]) \in Nat /\ Len(Tail(todo[q])) = Len(todo[q]) - 1
  BY <1>1, NextCall
<1>3. Tail(todo[q]) # todo[q]
  <2>1. Len(Tail(todo[q])) # Len(todo[q])
    BY <1>2
  <2> QED  BY <2>1
<1> QED  BY <1>1, <1>3 DEF Stays, Enters, Returned

\* A list up to its length is the list.
LEMMA WholeSeq ==
  ASSUME NEW S, NEW w \in Seq(S), NEW l, Len(w) = l
  PROVE  SubSeq(w, 1, l) = w
<1>1. l \in Nat /\ 1 - 1 = 0 /\ l - 1 + 1 = l
  OBVIOUS
<1> DEFINE a == SubSeq(w, 1, l)
<1>2. a \in Seq(S) /\ Len(a) = l /\ \A i \in 1..l : a[i] = w[i]
  BY <1>1, SubSeqProperties
<1> HIDE DEF a
<1>3. a = w
  BY <1>2, SeqEqual
<1> QED  BY <1>3 DEF a

\* A file is written: the others stay.
LEMMA WriteKeeps ==
  ASSUME MeshInv, [Next]_vars, Works, Sharded, FilesFit, failed \subseteq failed',
         NEW r \in Processes, NEW what \in ShardFiles, NEW content,
         Writes(step[r], <<r, what>>, content),
         at[r] \in {"save", "final"},
         \A l \in Labels : l = step[r] => FileFits(l, <<r, what>>)'
  PROVE  /\ FilesFit' /\ <<r, what>> \in DOMAIN shards'[step[r]]
         /\ \A k \in Labels : DOMAIN shards[k] \subseteq DOMAIN shards'[k]
<1>1. DOMAIN shards = Labels /\ step[r] \in Labels
  BY CurrentTyped DEF MeshInv, MeshTypes
<1>2. /\ DOMAIN shards'[step[r]] = DOMAIN shards[step[r]] \cup {<<r, what>>}
      /\ \A file \in DOMAIN shards[step[r]] : file # <<r, what>> =>
           shards'[step[r]][file] = shards[step[r]][file]
      /\ \A k \in Labels : k # step[r] => shards'[k] = shards[k]
      /\ \A k \in Labels : DOMAIN shards[k] \subseteq DOMAIN shards'[k]
  BY <1>1, WrittenIs
<1>3. Labels' = Labels
  BY NextMoves, SameJob
<1>4. ASSUME NEW l \in Labels, NEW file \in DOMAIN shards'[l]
      PROVE  FileFits(l, file)'
  <2>1. CASE l = step[r] /\ file = <<r, what>>
    BY <2>1
  <2>2. CASE ~(l = step[r] /\ file = <<r, what>>)
    <3>1. file \in DOMAIN shards[l] /\ shards'[l][file] = shards[l][file]
      BY <1>2, <1>4, <2>2
    <3>2. FileFits(l, file)
      BY <3>1 DEF FilesFit
    <3> QED  BY <3>1, <3>2, FileStays
  <2> QED  BY <2>1, <2>2
<1> QED  BY <1>2, <1>3, <1>4 DEF FilesFit

\* No step spoils a file, unless the rank that writes it dies.
LEMMA ShardsStay ==
  ASSUME MeshInv, [Next]_vars, Works, Sharded, ShardsFit
  PROVE  ShardsFit'
<1>1. UNCHANGED job /\ \A r \in Processes : Moves(r)
  BY NextMoves
<1>2. /\ Processes' = Processes /\ Labels' = Labels /\ Works' = Works /\ Sharded' = Sharded
  BY <1>1, SameJob
<1>3. FilesFit /\ \A q \in Processes : Covers(q)
  BY ShardsFitIs
<1>4. DOMAIN shards = Labels
  BY DEF MeshInv, MeshTypes
<1>5. ASSUME FilesFit', \A q \in Processes : Covers(q)'
      PROVE  ShardsFit'
  BY <1>2, <1>5 DEF ShardsFit, FilesFit, FileFits, Covers
<1>6. CASE UNCHANGED shards /\ failed \subseteq failed'
           /\ \A q \in Processes : ~(Makes(q) /\ Head(todo[q]).kind \in ShardFiles)
  <2>1. ASSUME NEW q \in Processes PROVE Covers(q)'
    BY <1>3, <1>6, CoversStays
  <2>2. ASSUME NEW l \in Labels, NEW file \in DOMAIN shards[l] PROVE FileFits(l, file)'
    BY <1>3, <1>6, FileStays DEF FilesFit
  <2>3. FilesFit'
    BY <1>2, <1>6, <2>2 DEF FilesFit
  <2> QED  BY <1>5, <2>1, <2>3
<1>7. CASE \E r \in Processes : Local(r)
  <2>1. PICK r \in Processes : Local(r)
    BY <1>7
  <2>2. Makes(r) /\ failed' = failed /\ step'[r] = step[r] /\ \A q \in Processes \ {r} : Stays(q)
    BY <2>1, LocalMoves DEF Makes
  <2>3. \A q \in Processes \ {r} : ~Makes(q)
    BY <2>2, NeverBoth
  <2>4. PICK what : what = Head(todo[r]).kind
    OBVIOUS
  <2>5. CASE what \notin ShardFiles
    <3>1. UNCHANGED shards
      BY <2>1, <2>4, <2>5, LocalWrites
    <3> QED  BY <1>6, <2>2, <2>3, <2>4, <2>5, <3>1
  <2>6. CASE what \in ShardFiles
    <3>1. Writes(step[r], <<r, what>>, Holds(weights[r])) /\ at[r] \in {"save", "final"}
      BY <2>1, <2>4, <2>6, LocalWrites
    <3>2. ASSUME NEW l \in Labels, l = step[r]
          PROVE  FileFits(l, <<r, what>>)'
      <4>1. weights'[r] = weights[r]
        <5>1. what # "optimizer"
          BY <2>6 DEF ShardFiles
        <5> QED  BY <2>2, <2>4, <5>1 DEF Makes
      <4>2. l \in Nat /\ Len(weights[r]) = l /\ weights[r] \in Seq(Gradients(r))
        BY <3>1, <3>2, CurrentTyped
      <4>3. SubSeq(weights[r], 1, l) = weights[r]
        BY <4>2, WholeSeq
      <4>4. Content(l, <<r, what>>)' = Holds(weights[r])
        <5>1. Content(l, <<r, what>>)' = Holds(SubSeq(weights'[r], 1, l))
          BY DEF Content, Holds
        <5> QED  BY <4>1, <4>3, <5>1
      <4>5. shards'[l][<<r, what>>] = Holds(weights[r])
        BY <1>4, <3>1, <3>2, WrittenIs
      <4>6. <<r, what>> \in Processes \X ShardFiles /\ <<r, what>>[1] = r
        BY <2>6
      <4> QED  BY <1>2, <4>1, <4>2, <4>4, <4>5, <4>6 DEF FileFits
    <3>3. /\ FilesFit' /\ <<r, what>> \in DOMAIN shards'[step[r]]
          /\ \A k \in Labels : DOMAIN shards[k] \subseteq DOMAIN shards'[k]
      BY <1>3, <2>2, <2>6, <3>1, <3>2, WriteKeeps
    <3>4. ASSUME NEW q \in Processes PROVE Covers(q)'
      BY <1>3, <2>3, <2>4, <3>3, CoversStays
    <3> QED  BY <1>5, <3>3, <3>4
  <2> QED  BY <2>5, <2>6
<1>8. CASE \E r \in Processes : Fail(r)
  <2>1. PICK r \in Processes : Fail(r)
    BY <1>8
  <2>2. \A q \in Processes : Stays(q)
    BY <2>1, FailMoves
  <2>3. \A q \in Processes : ~Makes(q)
    BY <2>2, NeverBoth
  <2>4. failed \subseteq failed' /\ r \in failed' /\ todo[r] # <<>>
    BY <2>1 DEF Fail, Due
  <2>5. PICK what : what = Head(todo[r]).kind
    OBVIOUS
  <2>6. CASE UNCHANGED shards
    BY <1>6, <2>3, <2>4, <2>6
  <2>7. CASE what \in ShardFiles /\ Writes(step[r], <<r, what>>, Torn)
    <3>1. at[r] \in {"save", "final"} /\ NextOfSave(r, todo[r])
      BY <2>4, <2>5, <2>7, CallsOfKind
    <3>2. ~Exchanged(r, Current(r))
      <4>1. Len(todo[r]) - AfterHashes(r) \in {4, 3, 2}
        <5>1. Do("meta").kind \notin ShardFiles /\ Meet("hashes", Processes).kind \notin ShardFiles
              /\ Meet("barrier", Processes).kind \notin ShardFiles
          BY DEF Do, Meet, Call, ShardFiles
        <5> QED  BY <2>5, <2>7, <3>1, <5>1 DEF NextOfSave
      <4>2. AfterHashes(r) \in Nat /\ Len(todo[r]) \in Nat /\ Current(r) \in Nat
        BY <2>4, NextCall, CurrentTyped DEF AfterHashes
      <4>3. ~(Len(todo[r]) <= AfterHashes(r)) /\ ~(Current(r) < Current(r))
        BY <4>1, <4>2
      <4> QED  BY <4>3 DEF Exchanged
    <3>3. ASSUME NEW l \in Labels, l = step[r]
          PROVE  FileFits(l, <<r, what>>)'
      <4>1. Len(weights[r]) = l /\ l \in Nat /\ weights'[r] = weights[r] /\ Stays(r)
        BY <2>2, <3>1, <3>3, CurrentTyped DEF Stays
      <4>2. shards'[l][<<r, what>>] = Torn
        BY <1>4, <2>7, <3>3, WrittenIs
      <4>3. Current(r)' = Current(r)
        BY <1>1, <4>1, SameJob DEF Stays, Current
      <4>4. ~Exchanged(r, Current(r))'
        <5>1. Exchanged(r, Current(r)) <=> \/ Current(r) < Current(r)
                                           \/ at[r] \in {"save", "final", "done"} /\ Len(todo[r]) <= AfterHashes(r)
          BY DEF Exchanged
        <5>2. Exchanged(r, Current(r))' <=> \/ Current(r)' < Current(r)'
                                            \/ at'[r] \in {"save", "final", "done"} /\ Len(todo'[r]) <= AfterHashes(r)
          BY DEF Exchanged
        <5> QED  BY <3>2, <4>1, <4>3, <5>1, <5>2 DEF Stays
      <4>5. <<r, what>> \in Processes \X ShardFiles /\ <<r, what>>[1] = r
        BY <2>7
      <4>6. Spoiled(l, <<r, what>>)'
        BY <2>4, <3>1, <3>3, <4>1, <4>2, <4>4, <4>5 DEF Spoiled, Stays, Torn
      <4>7. l <= Len(weights'[r])
        BY <4>1
      <4> QED  BY <1>2, <4>5, <4>6, <4>7 DEF FileFits
    <3>4. /\ FilesFit' /\ \A k \in Labels : DOMAIN shards[k] \subseteq DOMAIN shards'[k]
      BY <1>3, <2>4, <2>7, <3>1, <3>3, WriteKeeps
    <3>5. ASSUME NEW q \in Processes PROVE Covers(q)'
      BY <1>3, <2>3, <3>4, CoversStays
    <3> QED  BY <1>5, <3>4, <3>5
  <2> QED  BY <2>1, <2>5, <2>6, <2>7 DEF Fail, Label, Writes
<1>9. CASE UNCHANGED shards /\ failed \subseteq failed' /\ \A q \in Processes : Gentle(q)
  <2>1. ASSUME NEW q \in Processes PROVE ~(Makes(q) /\ Head(todo[q]).kind \in ShardFiles)
    BY <1>9, NeverBoth DEF Gentle
  <2> QED  BY <1>6, <1>9, <2>1
<1>10. CASE Exchange
  <2>1. ASSUME NEW q \in Processes PROVE Head(todo[q]).kind \notin ShardFiles
    BY <1>10 DEF Exchange, ShardFiles
  <2> QED  BY <1>6, <1>10, <2>1 DEF Exchange
<1> QED  BY <1>7, <1>8, <1>9, <1>10, StepIs

-----------------------------------------------------------------------------
(* The ranks go from save to save together.                                *)

\* A rank that hears of no file exchanges nothing.
LEMMA GentleIsQuiet ==
  ASSUME NEW q, Gentle(q)
  PROVE  Quiet(q)
BY DEF Gentle, Quiet

\* Without an exchange, nobody has exchanged more than before.
LEMMA NoExchange ==
  ASSUME MeshInv, [Next]_vars, Works, Sharded, ~Exchange, NEW r \in Processes
  PROVE  Quiet(r) /\ listed' = listed /\ \A s \in Saves : Exchanged(r, s)' <=> Exchanged(r, s)
<1>1. UNCHANGED job
  BY NextMoves
<1>2. Quiet(r) /\ listed' = listed
  <2>1. CASE UNCHANGED <<listed, shards, meta>> /\ \A q \in Processes : Gentle(q)
    BY <2>1, GentleIsQuiet
  <2>2. ASSUME NEW q \in Processes, Local(q) PROVE Quiet(r) /\ listed' = listed
    <3>1. Makes(q) /\ listed' = listed /\ \A p \in Processes \ {q} : Stays(p)
      BY <2>2, LocalMoves
    <3>2. Head(todo[q]).kind # "hashes"
      BY <2>2, LocalWrites
    <3> QED  BY <3>1, <3>2 DEF Quiet
  <2>3. ASSUME NEW q \in Processes, Fail(q) PROVE Quiet(r) /\ listed' = listed
    BY <2>3, FailMoves DEF Quiet
  <2> QED  BY <2>1, <2>2, <2>3, StepIs
<1> QED  BY <1>1, <1>2, ExchangedQuiet

\* Every step keeps the ranks in the same save.
LEMMA TogetherStays ==
  ASSUME MeshInv, [Next]_vars, Works, Sharded, Together
  PROVE  Together'
<1>1. Processes' = Processes /\ Saves' = Saves /\ UNCHANGED job
  BY NextMoves, SameJob
<1>2. CASE ~Exchange
  <2>1. \A r \in Processes : \A s \in Saves : Exchanged(r, s)' <=> Exchanged(r, s)
    BY <1>2, NoExchange
  <2> QED  BY <1>1, <2>1 DEF Together
<1>3. CASE Exchange
  <2>1. ASSUME NEW r \in Processes, NEW s \in Saves
        PROVE  Exchanged(r, s)' <=> Exchanged(r, s) \/ s = Current(r)
    BY <1>1, <1>3, ExchangedMakes DEF Exchange
  <2>2. ASSUME NEW r \in Processes, NEW q \in Processes PROVE Current(r) = Current(q)
    BY <1>3, SaveOfAll DEF Exchange
  <2>3. ASSUME NEW r \in Processes, NEW q \in Processes, NEW s \in Saves
        PROVE  Exchanged(r, s)' <=> Exchanged(q, s)'
    <3>1. Exchanged(r, s) <=> Exchanged(q, s)
      BY DEF Together
    <3>2. /\ Exchanged(r, s)' <=> Exchanged(r, s) \/ s = Current(r)
          /\ Exchanged(q, s)' <=> Exchanged(q, s) \/ s = Current(q)
      BY <2>1
    <3>3. Current(r) = Current(q)
      BY <2>2
    <3> QED  BY <3>1, <3>2, <3>3
  <2> QED  BY <1>1, <2>3 DEF Together
<1> QED  BY <1>2, <1>3

-----------------------------------------------------------------------------
(* What rank 0 lists.                                                      *)

\* There is a rank 0: a job is launched with one process at least.
LEMMA RankZero ==
  ASSUME MeshInv
  PROVE  0 \in Processes
<1>1. world \in Nat \ {0}
  BY LaunchAssumption DEF MeshInv, MeshTypes, ask
<1> QED  BY <1>1 DEF Processes

\* After an exchange every rank has come to the end of that step.
LEMMA AllApplied ==
  ASSUME MeshInv, Works, Sharded, Together, ShardsFit, NEW r \in Processes, NEW s \in Saves,
         Exchanged(r, s), NEW q \in Processes
  PROVE  LabelOf(s) \in Labels /\ LabelOf(s) \in Nat /\ LabelOf(s) <= Len(weights[q])
<1>1. config = Load(ask)
  BY DEF MeshInv, MeshTypes
<1>2. LabelOf(s) \in Labels /\ Labels = 1..MaxSteps /\ MaxSteps \in Nat
  BY <1>1, SavesTyped, WorksTyped
<1>3. Exchanged(q, s)
  BY DEF Together
<1>4. <<q, "rng.pt">> \in DOMAIN shards[LabelOf(s)]
  BY <1>3 DEF ShardsFit, ShardFiles
<1>5. <<q, "rng.pt">>[1] = q
  OBVIOUS
<1>6. LabelOf(s) <= Len(weights[q])
  BY <1>2, <1>4, <1>5 DEF ShardsFit
<1> QED  BY <1>2, <1>6

\* What rank 0 should list stays as it is.
LEMMA ExpectedStays ==
  ASSUME MeshInv, [Next]_vars, NEW l \in Nat, \A q \in Processes : l <= Len(weights[q])
  PROVE  Expected(l)' = Expected(l)
<1>1. Processes' = Processes
  BY NextMoves, SameJob
<1>2. \A q \in Processes : SubSeq(weights'[q], 1, l) = SubSeq(weights[q], 1, l)
  BY ContentStays
<1>3. ASSUME NEW file \in Processes \X ShardFiles
      PROVE  Content(l, file)' = Content(l, file)
  <2>1. file[1] \in Processes
    OBVIOUS
  <2> QED  BY <1>2, <2>1 DEF Content, Holds
<1> QED  BY <1>1, <1>3 DEF Expected, ShardFiles

\* Rank 0 has been told the hashes of the save it is in.
Lists == at[0] \in {"save", "final"} /\ todo[0] # <<>> /\ Exchanged(0, Current(0))

\* What it has been told is right.
HasListed == Lists => listed = Expected(step[0])

\* What it has published under a label is right.
Published(l) ==
  meta[l] # <<>> => meta[l] = Expected(l) /\ \E s \in Saves : LabelOf(s) = l /\ Exchanged(0, s)

\* What rank 0 has been told stays right until it has published it.
LEMMA ListedStays ==
  ASSUME MeshInv, [Next]_vars, Works, Sharded, Together, ShardsFit, HasListed
  PROVE  HasListed'
<1>1. UNCHANGED job /\ 0 \in Processes /\ Moves(0) /\ Frame
  BY NextMoves, RankZero
<1>2. SUFFICES ASSUME Lists' PROVE listed' = Expected(step[0])'
  BY DEF HasListed
<1>3. CASE ~Exchange
  <2>1. Quiet(0) /\ listed' = listed /\ \A s \in Saves : Exchanged(0, s)' <=> Exchanged(0, s)
    BY <1>1, <1>3, NoExchange
  <2>2. CASE Stays(0) \/ Makes(0)
    <3>1. at[0] \in {"save", "final"} /\ step'[0] = step[0] /\ todo[0] # <<>>
      BY <1>2, <2>2 DEF Lists, Stays, Makes, Due
    <3>2. Current(0)' = Current(0)
      BY <1>1, <2>2, SameJob DEF Current, Stays, Makes
    <3>3. Current(0) \in Saves /\ LabelOf(Current(0)) = step[0]
      BY <1>1, <3>1, CurrentTyped
    <3>4. Exchanged(0, Current(0))' <=> Exchanged(0, Current(0))
      <4>1. PICK s \in Saves : s = Current(0)
        BY <3>3
      <4>2. Exchanged(0, s)' <=> Exchanged(0, s)
        BY <2>1
      <4>3. s = Current(0)'
        BY <3>2, <4>1
      <4>4. Exchanged(0, Current(0))' <=> Exchanged(0, s)'
        BY <4>3 DEF Exchanged
      <4> QED  BY <4>1, <4>2, <4>4
    <3>5. Exchanged(0, Current(0)) /\ listed = Expected(step[0])
      BY <1>2, <3>1, <3>4 DEF HasListed, Lists
    <3>6. step[0] \in Nat /\ \A q \in Processes : step[0] <= Len(weights[q])
      BY <1>1, <3>3, <3>5, AllApplied
    <3>7. PICK l \in Nat : l = step[0]
      BY <3>6
    <3>8. Expected(l)' = Expected(l)
      BY <3>6, <3>7, ExpectedStays
    <3>9. Expected(step[0])' = Expected(l)'
      BY <3>1, <3>7 DEF Expected, Content
    <3> QED  BY <2>1, <3>5, <3>7, <3>8, <3>9
  <2>3. CASE Enters(0)
    <3>1. todo'[0] = SaveCalls(0) /\ at'[0] \in {"save", "final"}
      BY <1>2, <2>3 DEF Enters, Lists
    <3>2. Len(todo'[0]) = AfterHashes(0) + 4 /\ AfterHashes(0) \in Nat
      BY <3>1, SaveCallsAre DEF AfterHashes
    <3>3. ~(Len(todo'[0]) <= AfterHashes(0))
      BY <3>2
    <3>4. Current(0)' \in Nat
      <4>1. MeshInv'
        BY NextPlaced
      <4>2. MaxSteps' = MaxSteps /\ MaxSteps \in Nat
        BY <1>1, SameJob, SavesTyped DEF MeshInv, MeshTypes
      <4>3. step'[0] \in Nat
        BY <1>1 DEF Frame
      <4> QED  BY <4>2, <4>3 DEF Current
    <3>5. ~(Current(0)' < Current(0)')
      BY <3>4
    <3>6. Exchanged(0, Current(0))' <=> \/ Current(0)' < Current(0)'
                                        \/ at'[0] \in {"save", "final", "done"} /\ Len(todo'[0]) <= AfterHashes(0)
      BY DEF Exchanged, AfterHashes
    <3> QED  BY <1>2, <3>3, <3>5, <3>6 DEF Lists
  <2> QED  BY <2>1, <2>2, <2>3 DEF Quiet
<1>4. CASE Exchange
  <2>1. /\ listed' = [file \in Processes \X ShardFiles |-> shards[step[file[1]]][file]]
        /\ weights' = weights /\ step' = step /\ Processes' = Processes
    BY <1>1, <1>4, SameJob DEF Exchange
  <2>2. ASSUME NEW q \in Processes
        PROVE  /\ step[q] = step[0] /\ step[q] \in Labels /\ q \notin failed
               /\ {q} \X ShardFiles \subseteq DOMAIN shards[step[q]]
    <3>1. todo[q] # <<>> /\ Head(todo[q]).kind = "hashes" /\ Makes(q)
      BY <1>4 DEF Exchange
    <3>2. todo[0] # <<>> /\ Head(todo[0]).kind = "hashes"
      BY <1>1, <1>4 DEF Exchange
    <3>3. step[q] = step[0]
      BY <1>1, <3>1, <3>2, SaveOfAll
    <3>4. at[q] \in {"save", "final"} /\ Len(todo[q]) = AfterHashes(q) + 1
      BY <3>1, CallsOfKind
    <3>5. Len(todo[q]) - AfterHashes(q) = 1
      BY <3>4 DEF AfterHashes
    <3>6. WrittenBefore(q) = ShardFiles
      BY <3>5 DEF WrittenBefore, ShardFiles
    <3>7. {q} \X ShardFiles \subseteq DOMAIN shards[step[q]]
      BY <3>4, <3>6 DEF ShardsFit
    <3>8. q \notin failed
      BY <3>1 DEF Makes, Due
    <3> QED  BY <3>3, <3>4, <3>7, <3>8, CurrentTyped
  <2>3. ASSUME NEW file \in Processes \X ShardFiles
        PROVE  shards[step[file[1]]][file] = Content(step[0], file)
    <3> DEFINE q == file[1]
    <3>1. q \in Processes /\ file \in {q} \X ShardFiles
      OBVIOUS
    <3>2. file \in DOMAIN shards[step[q]] /\ step[q] \in Labels /\ step[q] = step[0] /\ q \notin failed
      BY <2>2, <3>1
    <3>3. shards[step[q]][file] = Content(step[q], file) \/ Spoiled(step[q], file)
      BY <3>2 DEF ShardsFit
    <3> QED  BY <3>2, <3>3 DEF Spoiled
  <2>4. listed' = Expected(step[0])
    BY <2>1, <2>3 DEF Expected
  <2>5. Expected(step[0])' = Expected(step[0])
    BY <2>1 DEF Expected, Content, Holds, ShardFiles
  <2> QED  BY <2>4, <2>5
<1> QED  BY <1>3, <1>4

\* What rank 0 has published stays right.
LEMMA PublishedStays ==
  ASSUME MeshInv, [Next]_vars, Works, Sharded, Together, ShardsFit, HasListed,
         NEW l \in Labels, Published(l)
  PROVE  Published(l)'
<1>1. UNCHANGED job /\ 0 \in Processes /\ DOMAIN meta = Labels /\ Saves' = Saves
      /\ (\A s : LabelOf(s)' = LabelOf(s))
  BY NextMoves, RankZero, SameJob DEF MeshInv, MeshTypes
<1>2. \A s \in Saves : Exchanged(0, s) => Exchanged(0, s)'
  <2>1. CASE ~Exchange
    BY <1>1, <2>1, NoExchange
  <2>2. CASE Exchange
    BY <1>1, <2>2, ExchangedMakes DEF Exchange
  <2> QED  BY <2>1, <2>2
<1>3. ASSUME NEW s \in Saves, LabelOf(s) = l, Exchanged(0, s)
      PROVE  Expected(l)' = Expected(l)
  <2>1. l \in Nat /\ \A q \in Processes : l <= Len(weights[q])
    BY <1>1, <1>3, AllApplied
  <2> QED  BY <2>1, ExpectedStays
<1>4. CASE meta'[l] = meta[l]
  BY <1>1, <1>2, <1>3, <1>4 DEF Published
<1>5. CASE meta'[l] # meta[l]
  <2>1. PICK r \in Processes : Local(r)
    <3>1. UNCHANGED meta => FALSE
      BY <1>5
    <3>2. ~Exchange
      BY <3>1 DEF Exchange
    <3>3. \A r \in Processes : ~Fail(r)
      BY <3>1, FailMoves
    <3> QED  BY <3>1, <3>2, <3>3, StepIs
  <2>2. Head(todo[r]).kind = "meta"
    BY <1>5, <2>1, LocalWrites
  <2>3. /\ meta' = [meta EXCEPT ![step[r]] = listed] /\ r = 0 /\ at[r] \in {"save", "final"}
        /\ Len(todo[r]) <= AfterHashes(r) /\ todo[r] # <<>>
    BY <2>1, <2>2, LocalWrites
  <2>4. l = step[0] /\ meta'[l] = listed
    BY <1>1, <1>5, <2>3
  <2>5. Current(0) \in Saves /\ LabelOf(Current(0)) = l
    BY <1>1, <2>3, <2>4, CurrentTyped
  <2>6. Exchanged(0, Current(0))
    BY <2>3 DEF Exchanged
  <2>7. listed = Expected(l)
    BY <2>3, <2>4, <2>6 DEF HasListed, Lists
  <2>8. PICK s \in Saves : s = Current(0)
    BY <2>5
  <2>9. Exchanged(0, s) /\ LabelOf(s) = l
    BY <2>5, <2>6, <2>8
  <2>10. Expected(l)' = Expected(l) /\ Exchanged(0, s)' /\ LabelOf(s)' = l
    BY <1>1, <1>2, <1>3, <2>9
  <2> QED  BY <1>1, <2>4, <2>7, <2>10 DEF Published
<1> QED  BY <1>4, <1>5

\* It holds at the start.
LEMMA InitSaves == Init => SavesInv
<1>1. SUFFICES ASSUME Init PROVE SavesInv
  OBVIOUS
<1>2. MeshInv
  BY <1>1, InitPlaced
<1>3. \A l \in Labels : meta[l] = <<>> /\ shards[l] = <<>>
  BY <1>1 DEF Init
<1>4. ASSUME Works, Sharded PROVE Together /\ ShardsFit /\ ListsFit
  <2>1. config = Load(ask)
    BY <1>2 DEF MeshInv, MeshTypes
  <2>2. Saves \subseteq 1..MaxSteps + 1
    BY <1>4, <2>1, SavesTyped
  <2>3. \A r \in Processes : at[r] = "start" /\ Current(r) = 0
    BY <1>1 DEF Init, Current
  <2>4. ASSUME NEW r \in Processes, NEW s \in Saves PROVE ~Exchanged(r, s)
    <3>1. ~(s < 0) /\ s # 0
      <4>1. s \in 1..MaxSteps + 1 /\ MaxSteps \in Nat
        BY <1>4, <2>1, <2>2, SavesTyped
      <4> QED  BY <4>1
    <3> QED  BY <2>3, <3>1 DEF Exchanged
  <2>5. Together
    BY <2>4 DEF Together
  <2>6. ShardsFit
    BY <1>3, <2>3, <2>4 DEF ShardsFit
  <2>7. ListsFit
    BY <1>2, <1>3, <2>3, RankZero DEF ListsFit
  <2> QED  BY <2>5, <2>6, <2>7
<1> QED  BY <1>3, <1>4 DEF SavesInv

\* The list that is known, and those that are published.
LEMMA ListsFitIs == ListsFit <=> HasListed /\ \A l \in Labels : Published(l)
BY DEF ListsFit, HasListed, Lists, Published

\* No step spoils a save.
LEMMA NextSaves ==
  ASSUME MeshInv, SavesInv, [Next]_vars
  PROVE  SavesInv'
<1>1. UNCHANGED job /\ Works' = Works /\ Sharded' = Sharded /\ Labels' = Labels
  BY NextMoves, SameJob
<1>2. ASSUME ~Works PROVE \A l \in Labels : meta'[l] = <<>>
  <2>1. meta' = meta
    <3>1. \A r \in Processes : ~Local(r)
      BY <1>2, NextCall DEF Local, Due
    <3> QED  BY <3>1, StepIs, FailMoves DEF Exchange
  <2> QED  BY <1>2, <2>1 DEF SavesInv
<1>3. ASSUME Works, Sharded PROVE Together' /\ ShardsFit' /\ ListsFit'
  <2>1. Together /\ ShardsFit /\ HasListed /\ \A l \in Labels : Published(l)
    BY <1>3, ListsFitIs DEF SavesInv
  <2>2. Together' /\ ShardsFit'
    BY <1>3, <2>1, TogetherStays, ShardsStay
  <2>3. HasListed' /\ \A l \in Labels : Published(l)'
    BY <1>3, <2>1, ListedStays, PublishedStays
  <2>4. ListsFit'
    BY <1>1, <2>3 DEF ListsFit, HasListed, Lists, Published
  <2> QED  BY <2>2, <2>4
<1> QED  BY <1>1, <1>2, <1>3 DEF SavesInv

\* A meta.json lists every file of every shard, all of the step it names and as
\* they are on disk, whatever rank dies when: its lists are those of the step,
\* no rank leaves a save before all have heard of each other's files, and only
\* a rank that writes its shard again can spoil one.
THEOREM MetaListsOneStepAlways == Spec => []MetaListsOneStep
<1>1. ASSUME MeshInv, SavesInv PROVE MetaListsOneStep
  <2>1. SUFFICES ASSUME config # Refused, Sharded, NEW l \in Labels, meta[l] # <<>>
                 PROVE  /\ DOMAIN meta[l] = Processes \X ShardFiles
                        /\ \A file \in DOMAIN meta[l] :
                             /\ Len(meta[l][file]) = 1 /\ Len(meta[l][file][1]) = l
                             /\ \/ shards[l][file] = meta[l][file]
                                \/ /\ shards[l][file] = Torn /\ Rewritten(l)
                                   /\ at[file[1]] = "final" /\ file[1] \in failed
    BY DEF MetaListsOneStep
  <2>2. Works /\ Together /\ ShardsFit /\ ListsFit /\ 0 \in Processes /\ config = Load(ask)
    BY <1>1, <2>1, RankZero DEF SavesInv, MeshInv, MeshTypes
  <2>3. meta[l] = Expected(l)
    BY <2>1, <2>2 DEF ListsFit
  <2>4. PICK s \in Saves : LabelOf(s) = l /\ Exchanged(0, s)
    BY <2>1, <2>2 DEF ListsFit
  <2>5. DOMAIN meta[l] = Processes \X ShardFiles
    BY <2>3 DEF Expected
  <2>6. ASSUME NEW file \in Processes \X ShardFiles
        PROVE  /\ Len(meta[l][file]) = 1 /\ Len(meta[l][file][1]) = l
               /\ \/ shards[l][file] = meta[l][file]
                  \/ /\ shards[l][file] = Torn /\ Rewritten(l)
                     /\ at[file[1]] = "final" /\ file[1] \in failed
    <3> DEFINE q == file[1]
    <3>1. q \in Processes /\ meta[l][file] = Content(l, file)
      BY <2>3 DEF Expected
    <3>2. Exchanged(q, s)
      BY <2>2, <2>4, <3>1 DEF Together
    <3>3. l \in Nat /\ l <= Len(weights[q])
      BY <1>1, <2>1, <2>2, <2>4, <3>1, AllApplied
    <3>4. Len(SubSeq(weights[q], 1, l)) = l
      <4>1. \A i \in 1..l : weights[q][i] \in {weights[q][j] : j \in 1..l}
        OBVIOUS
      <4> DEFINE S == {weights[q][j] : j \in 1..l}
      <4>2. \A i \in 1..l : weights[q][i] \in S
        OBVIOUS
      <4> HIDE DEF S
      <4>3. Len(SubSeq(weights[q], 1, l)) = IF 1 <= l THEN l - 1 + 1 ELSE 0
        BY <3>3, <4>2, SubSeqProperties
      <4> QED  BY <3>3, <4>3
    <3>5. Len(meta[l][file]) = 1 /\ meta[l][file][1] = SubSeq(weights[q], 1, l)
      <4>1. PICK w : w = SubSeq(weights[q], 1, l)
        OBVIOUS
      <4>2. meta[l][file] = <<w>>
        BY <3>1, <4>1 DEF Content, Holds
      <4>3. Len(<<w>>) = 1 /\ <<w>>[1] = w
        OBVIOUS
      <4> QED  BY <4>1, <4>2, <4>3
    <3>6. shards[l][file] = Content(l, file) \/ Spoiled(l, file)
      <4>1. file \in {q} \X ShardFiles
        OBVIOUS
      <4>2. file \in DOMAIN shards[l]
        BY <2>2, <2>4, <3>1, <3>2, <4>1 DEF ShardsFit
      <4> QED  BY <2>1, <2>2, <4>2 DEF ShardsFit
    <3>7. ASSUME Spoiled(l, file)
          PROVE  shards[l][file] = Torn /\ Rewritten(l) /\ at[q] = "final" /\ q \in failed
      <4>1. /\ shards[l][file] = Torn /\ q \in failed /\ at[q] \in {"save", "final"} /\ step[q] = l
            /\ ~Exchanged(q, Current(q))
        BY <3>7 DEF Spoiled
      <4>2. s # Current(q) /\ ~(Current(q) < s) /\ s \in Nat /\ Current(q) \in Nat
        <5>1. s \in Nat /\ Current(q) \in Nat
          BY <1>1, <2>2, <3>1, SavesTyped, CurrentTyped
        <5>2. Current(q) < s => ~(s < Current(q)) /\ s # Current(q)
          BY <5>1
        <5> QED  BY <3>2, <4>1, <5>1, <5>2 DEF Exchanged
      <4>3. s < Current(q)
        BY <4>2
      <4>4. MaxSteps \in Nat /\ l \in 1..MaxSteps /\ (s <= MaxSteps => SaveDue(s)) /\ s \in 1..MaxSteps + 1
        BY <2>1, <2>2, SavesTyped, WorksTyped
      <4>5. LabelOf(s) = IF s > MaxSteps THEN MaxSteps ELSE s
        BY DEF LabelOf
      <4>6. at[q] # "save"
        <5>1. SUFFICES ASSUME at[q] = "save" PROVE FALSE
          OBVIOUS
        <5>2. Current(q) = l
          BY <4>1, <5>1 DEF Current
        <5>3. s < l
          BY <4>3, <5>2
        <5>4. ~(s > MaxSteps) /\ s # l
          BY <4>2, <4>4, <5>3
        <5> QED  BY <2>4, <4>5, <5>4
      <4>7. at[q] = "final" /\ Current(q) = MaxSteps + 1
        BY <4>1, <4>6 DEF Current
      <4>8. l = MaxSteps
        <5>1. Placed(q)
          BY <1>1, <3>1 DEF MeshInv
        <5> QED  BY <4>1, <4>7, <5>1 DEF Placed
      <4>9. s = l
        BY <2>4, <4>3, <4>4, <4>5, <4>7
      <4> QED  BY <4>1, <4>4, <4>7, <4>8, <4>9 DEF Rewritten
    <3> QED  BY <3>1, <3>4, <3>5, <3>6, <3>7
  <2> QED  BY <2>5, <2>6
<1>2. Spec => [](MeshInv /\ SavesInv)
  <2>1. Init => MeshInv /\ SavesInv
    BY InitPlaced, InitSaves
  <2>2. (MeshInv /\ SavesInv) /\ [Next]_vars => (MeshInv /\ SavesInv)'
    BY NextPlaced, NextSaves
  <2> QED  BY <2>1, <2>2, PTL DEF Spec
<1> QED  BY <1>1, <1>2, PTL

-----------------------------------------------------------------------------
(* Replicas.                                                               *)

\* Which parameters the tokens reach is settled from the start.
LEMMA SameTokens ==
  ASSUME UNCHANGED job
  PROVE  /\ \A r, b : ReachedBy(r, b)' = ReachedBy(r, b)
         /\ \A r, s : /\ Reached(r, s)' = Reached(r, s) /\ (EvenStep(r, s)' <=> EvenStep(r, s))
                      /\ Even(r, s)' <=> Even(r, s)
                      /\ Whole(r, s)' = Whole(r, s)
         /\ \A r, p : OwnGradient(r, p)' = OwnGradient(r, p)
<1>1. /\ mesh' = mesh /\ model' = model /\ config' = config /\ router' = router
      /\ \A s : BatchesOf(s)' = BatchesOf(s)
      /\ \A r : Parameters(r)' = Parameters(r) /\ Replicas(r)' = Replicas(r)
  BY SameJob DEF job
<1>2. OwnExperts' = OwnExperts
  BY <1>1 DEF OwnExperts
<1>3. PerLayer' = PerLayer /\ (Balanced' <=> Balanced)
  BY <1>1, <1>2 DEF PerLayer, Balanced
<1>4. \A r, j : OwnExpert(r, j)' = OwnExpert(r, j)
  BY <1>1, <1>2 DEF OwnExpert
<1>5. \A r, b, i : Ran(r, b, i)' = Ran(r, b, i)
  <2>1. \A r : Place(r)' = Place(r)
    BY <1>1 DEF Place
  <2> QED  BY <1>1, <2>1 DEF Ran
<1>6. \A r, b : ReachedBy(r, b)' = ReachedBy(r, b)
  BY <1>1, <1>3, <1>4, <1>5 DEF ReachedBy
<1>7. \A r, s : Reached(r, s)' = Reached(r, s)
  BY <1>1, <1>6 DEF Reached
<1>8. \A r, s : EvenStep(r, s)' <=> EvenStep(r, s)
  BY <1>1, <1>7 DEF EvenStep
<1>9. \A r, s : Even(r, s)' <=> Even(r, s)
  BY <1>8 DEF Even
<1>10. \A r, s : Whole(r, s)' = Whole(r, s)
  BY <1>1, <1>7 DEF Whole
<1>11. \A r, p : OwnGradient(r, p)' = OwnGradient(r, p)
  BY <1>1 DEF OwnGradient
<1> QED  BY <1>6, <1>7, <1>8, <1>9, <1>10, <1>11

\* The replicas of a slice have its parameters, and each other for replicas.
LEMMA Twins ==
  ASSUME NEW r \in Processes, NEW q \in Replicas(r)
  PROVE  /\ q \in Processes /\ r \in Replicas(q) /\ r \in Replicas(r) /\ Replicas(q) = Replicas(r)
         /\ Parameters(q) = Parameters(r) /\ Closing(q) = Closing(r)
         /\ \A s : EvenStep(q, s) <=> EvenStep(r, s)
         /\ \A s : Even(q, s) <=> Even(r, s)
         /\ \A s : EvenStep(r, s) => Reached(q, s) = Reached(r, s) /\ Whole(q, s) = Whole(r, s)
<1>1. q \in Processes /\ SameShard(r, q)
  BY DEF Replicas
<1>2. r \in Replicas(q) /\ r \in Replicas(r) /\ Replicas(q) = Replicas(r)
  BY <1>1 DEF Replicas, SameShard
<1>3. LayersOf(mesh, model, q) = LayersOf(mesh, model, r)
  BY <1>1 DEF SameShard, LayersOf
<1>4. Parameters(q) = Parameters(r) /\ Closing(q) = Closing(r)
  BY <1>3 DEF Parameters, Closing
<1>5. ASSUME NEW s PROVE EvenStep(q, s) <=> EvenStep(r, s)
  BY <1>2 DEF EvenStep
<1>6. ASSUME NEW s PROVE Even(q, s) <=> Even(r, s)
  BY <1>5 DEF Even
<1>7. ASSUME NEW s, EvenStep(r, s) PROVE Reached(q, s) = Reached(r, s) /\ Whole(q, s) = Whole(r, s)
  <2>1. Reached(q, s) = Reached(r, s)
    BY <1>7 DEF EvenStep
  <2> QED  BY <1>2, <1>4, <2>1 DEF Whole
<1> QED  BY <1>1, <1>2, <1>4, <1>5, <1>6, <1>7

\* What the tokens reach of a slice is a part of it.
LEMMA ReachedTyped ==
  ASSUME config = Load(ask), Works, NEW r \in Processes, NEW s
  PROVE  /\ Reached(r, s) \subseteq Parameters(r)
         /\ \A p \in Parameters(r) : p \in Nat \ {0}
         /\ \A b \in BatchesOf(s) : ReachedBy(r, b) \subseteq Reached(r, s)
         /\ \A p \in Reached(r, s) : \E b \in BatchesOf(s) : p \in ReachedBy(r, b)
<1>1. \A b : ReachedBy(r, b) \subseteq Parameters(r)
  BY DEF ReachedBy
<1>2. \A p \in Parameters(r) : p \in Nat \ {0}
  BY LayersTyped
<1> QED  BY <1>1, <1>2 DEF Reached

-----------------------------------------------------------------------------
(* Which parameters a rank has averaged.                                   *)

\* It has come to the collective for parameter p of step s.
AtAverage(r, s, p) ==
  todo[r] # <<>> /\ Head(todo[r]).kind = "gradients" /\ step[r] = s /\ Given(r) = p

\* A rank that stays has averaged what it had.
LEMMA AveragedStays ==
  ASSUME UNCHANGED job, NEW r, Stays(r), NEW s, NEW p
  PROVE  Averaged(r, s, p)' <=> Averaged(r, s, p)
<1>1. Closing(r)' = Closing(r)
  BY SameJob
<1> QED  BY <1>1 DEF Stays, Averaged, LeftOf

\* So has a rank that goes on to its next handler.
LEMMA AveragedEnters ==
  ASSUME MeshInv, UNCHANGED job, Frame, NEW r \in Processes, Enters(r), NEW s \in Int,
         NEW p \in 1..Closing(r)
  PROVE  Averaged(r, s, p)' <=> Averaged(r, s, p)
<1>1. Closing(r)' = Closing(r) /\ config = Load(ask) /\ step[r] \in Nat /\ Placed(r)
  BY SameJob DEF MeshInv, MeshTypes
<1>2. todo[r] = <<>> /\ Len(todo[r]) = 0 /\ LeftOf(r) = 0
  BY DEF Enters, Returned, LeftOf
<1>3. CASE at'[r] = "train" /\ todo'[r] = TrainStep(r, step[r] + 1) /\ step'[r] = step[r] + 1 /\ GoesOn(r)
  <2>1. Works
    BY <1>1, <1>3 DEF Placed, GoesOn
  <2>2. Closing(r) \in Nat /\ step[r] + 1 \in Int
    BY <1>1, <2>1, LayersTyped
  <2>3. Len(todo'[r]) > Closing(r) + 1 /\ todo'[r] \in Seq(StepCalls(r, step[r] + 1))
    BY <1>1, <1>3, <2>1, <2>2, TrainStepIs DEF RestOfStep
  <2>4. Len(todo'[r]) \in Nat
    BY <2>3
  <2>5. ~(Len(todo'[r]) + p <= Closing(r) + 1) /\ p <= Closing(r) + 1
    BY <2>2, <2>3, <2>4
  <2>6. Averaged(r, s, p)' <=> s < step[r] + 1
    BY <1>1, <1>3, <2>5 DEF Averaged, LeftOf
  <2>7. Averaged(r, s, p) <=> s < step[r] \/ s = step[r]
    BY <1>2, <2>2, <2>5 DEF Averaged
  <2> QED  BY <1>1, <2>6, <2>7
<1>4. CASE at'[r] # "train" /\ step'[r] = step[r]
  BY <1>1, <1>2, <1>4 DEF Averaged, LeftOf
<1> QED  BY <1>3, <1>4 DEF Enters

\* A call averages a parameter only where it is the call for that parameter.
LEMMA AveragedMakes ==
  ASSUME MeshInv, UNCHANGED job, NEW r \in Processes, Makes(r), NEW s \in Int,
         NEW p \in 1..Closing(r)
  PROVE  Averaged(r, s, p)' <=> Averaged(r, s, p) \/ AtAverage(r, s, p)
<1> DEFINE n == Len(todo[r])  c == Closing(r)
<1>1. /\ at'[r] = at[r] /\ step'[r] = step[r] /\ todo'[r] = Tail(todo[r]) /\ todo[r] # <<>>
      /\ Closing(r)' = c
  BY SameJob DEF Makes, Due
<1>2. n \in Nat /\ n >= 1 /\ Len(todo'[r]) = n - 1 /\ c \in Nat
  BY <1>1, NextCall
<1>3. CASE at[r] # "train"
  <2>1. ~AtAverage(r, s, p)
    BY <1>1, <1>3, CallsOfKind DEF AtAverage
  <2> QED  BY <1>1, <1>3, <2>1 DEF Averaged, LeftOf
<1>4. CASE at[r] = "train"
  <2>1. Averaged(r, s, p)' <=> s < step[r] \/ (s = step[r] /\ n - 1 + p <= c + 1)
    BY <1>1, <1>2, <1>4 DEF Averaged, LeftOf
  <2>2. Averaged(r, s, p) <=> s < step[r] \/ (s = step[r] /\ n + p <= c + 1)
    BY <1>4 DEF Averaged, LeftOf
  <2>3. n + p = c + 2 <=> Head(todo[r]).kind = "gradients" /\ Given(r) = p
    <3>1. ASSUME n + p = c + 2 PROVE Head(todo[r]).kind = "gradients"
      <4>1. n <= c + 1 /\ n # 1
        <5>1. p \in Nat /\ p >= 1 /\ p <= c /\ n + p = c + 2 /\ n \in Nat /\ c \in Nat
          BY <1>2, <3>1
        <5> HIDE DEF n, c
        <5> QED  BY <5>1
      <4>2. Head(todo[r]).kind \in {"gradients", "optimizer"}
        BY <1>1, <1>4, <4>1, CallsOfKind
      <4>3. Head(todo[r]).kind # "optimizer"
        BY <1>1, <4>1, CallsOfKind
      <4> QED  BY <4>2, <4>3
    <3>2. ASSUME Head(todo[r]).kind = "gradients"
          PROVE  n + Given(r) = c + 2 /\ Given(r) \in Nat
      BY <1>1, <1>2, <3>2, GivenIs
    <3> QED  BY <1>2, <3>1, <3>2
  <2>4. n - 1 + p <= c + 1 <=> n + p <= c + 1 \/ n + p = c + 2
    BY <1>2
  <2> QED  BY <1>1, <2>1, <2>2, <2>3, <2>4 DEF AtAverage
<1> QED  BY <1>3, <1>4

\* A rank that comes to average a parameter has not done so.
LEMMA NotYetAveraged ==
  ASSUME MeshInv, NEW r \in Processes, NEW s, NEW p, AtAverage(r, s, p)
  PROVE  /\ ~Averaged(r, s, p) /\ at[r] = "train" /\ p \in 1..Closing(r) /\ p \in Parameters(r)
         /\ s \in 1..MaxSteps /\ Works /\ config = Load(ask) /\ Head(todo[r]) # Do("zero_grad")
         /\ todo[r] # <<>> /\ grads[r] \in Gradients(r) /\ Len(todo[r]) + p = Closing(r) + 2
         /\ Len(todo[r]) \in Nat /\ Closing(r) \in Nat /\ MaxSteps \in Nat
<1>1. todo[r] # <<>> /\ step[r] = s /\ Given(r) = p
  BY DEF AtAverage
<1>2. /\ at[r] = "train" /\ p \in 1..Closing(r) /\ p \in Parameters(r)
      /\ Len(todo[r]) + p = Closing(r) + 2 /\ grads[r] \in Gradients(r) /\ Head(todo[r]) # Do("zero_grad")
  BY <1>1, GivenIs DEF AtAverage
<1>3. Works /\ config = Load(ask) /\ Closing(r) \in Nat /\ Len(todo[r]) \in Nat
  BY <1>1, NextCall
<1>4. s \in 1..MaxSteps /\ MaxSteps \in Nat
  <2>1. Placed(r)
    BY DEF MeshInv
  <2> QED  BY <1>1, <1>2, <1>3, <2>1, WorksTyped DEF Placed
<1>5. ~(Len(todo[r]) + p <= Closing(r) + 1) /\ ~(s < step[r])
  BY <1>1, <1>2, <1>3, <1>4
<1> QED  BY <1>1, <1>2, <1>3, <1>4, <1>5 DEF Averaged, LeftOf

-----------------------------------------------------------------------------
(* The gradients of a rank.                                                *)

\* It is in the middle of a step.
Training(r) == at[r] = "train" /\ todo[r] # <<>> /\ Head(todo[r]) # Do("zero_grad")

\* It has gradients for no parameter that its tokens do not reach.
OnlyReached(r) ==
  Training(r) => \A p \in Parameters(r) : grads[r][p] # {} => p \in Reached(r, step[r])

\* It has the pass of a batch still to come.
Ahead(r, b) == \E i \in 1..Len(todo[r]) : todo[r][i] = Backpropagate(b)

\* It has those of every batch that is not still to come.
Pending(r) ==
  at[r] = "train" /\ todo[r] # <<>> => \A b \in BatchesOf(step[r]) :
    \/ Ahead(r, b)
    \/ Head(todo[r]) # Do("zero_grad") /\ \A p \in ReachedBy(r, b) : grads[r][p] # {}

\* They are its own, or the sum of all replicas'.
SummedUp(r) ==
  Training(r) => \A p \in Reached(r, step[r]) :
    grads[r][p] # {} /\ Even(r, step[r]) =>
      grads[r][p] = IF Averaged(r, step[r], p) THEN Whole(r, step[r])[p] ELSE OwnGradient(r, p)

\* A rank has the gradients it should have.
GradientsOf(r) == OnlyReached(r) /\ Pending(r) /\ SummedUp(r)

\* So far as rank r goes.
RankFits(r) == GradientsOf(r) /\ WeightsFit(r)

\* What has been applied stays right.
LEMMA WeightsFitStays ==
  ASSUME UNCHANGED job, NEW r, weights'[r] = weights[r], WeightsFit(r)
  PROVE  WeightsFit(r)'
<1>1. \A i : (Even(r, i)' <=> Even(r, i)) /\ Whole(r, i)' = Whole(r, i)
  BY SameTokens
<1> QED  BY <1>1 DEF WeightsFit

\* A rank that stays has the gradients it should have.
LEMMA FitsStays ==
  ASSUME UNCHANGED job, NEW r, Stays(r), RankFits(r)
  PROVE  RankFits(r)'
<1>1. /\ at'[r] = at[r] /\ step'[r] = step[r] /\ todo'[r] = todo[r] /\ grads'[r] = grads[r]
      /\ weights'[r] = weights[r]
  BY DEF Stays
<1>2. /\ Do("zero_grad")' = Do("zero_grad") /\ \A b : Backpropagate(b)' = Backpropagate(b)
      /\ Parameters(r)' = Parameters(r) /\ \A s : BatchesOf(s)' = BatchesOf(s)
  BY SameJob DEF Do, Backpropagate, Call
<1>3. /\ \A b : ReachedBy(r, b)' = ReachedBy(r, b)
      /\ \A s : /\ Reached(r, s)' = Reached(r, s) /\ (Even(r, s)' <=> Even(r, s))
                /\ Whole(r, s)' = Whole(r, s)
      /\ \A p : OwnGradient(r, p)' = OwnGradient(r, p)
      /\ \A s, p : Averaged(r, s, p)' <=> Averaged(r, s, p)
  BY SameTokens, AveragedStays
<1>4. Training(r)' <=> Training(r)
  BY <1>1, <1>2 DEF Training
<1>5. OnlyReached(r)'
  <2>1. Reached(r, step[r])' = Reached(r, step[r])
    BY <1>1, <1>3 DEF Reached
  <2> QED  BY <1>1, <1>2, <1>4, <2>1 DEF RankFits, GradientsOf, OnlyReached
<1>6. Pending(r)'
  <2>1. \A b : Ahead(r, b)' <=> Ahead(r, b)
    BY <1>1, <1>2 DEF Ahead
  <2>2. BatchesOf(step[r])' = BatchesOf(step[r])
    BY <1>1, <1>2 DEF BatchesOf
  <2> QED  BY <1>1, <1>2, <1>3, <2>1, <2>2 DEF RankFits, GradientsOf, Pending
<1>7. SummedUp(r)'
  <2>1. PICK s : s = step[r]
    OBVIOUS
  <2>2. /\ Reached(r, step[r])' = Reached(r, s)' /\ Even(r, step[r])' = Even(r, s)'
        /\ Whole(r, step[r])' = Whole(r, s)'
        /\ \A p : Averaged(r, step[r], p)' = Averaged(r, s, p)'
    BY <1>1, <2>1 DEF Reached, Even, Whole, Averaged
  <2> QED  BY <1>1, <1>2, <1>3, <1>4, <2>1, <2>2 DEF RankFits, GradientsOf, SummedUp
<1> QED  BY <1>1, <1>5, <1>6, <1>7, WeightsFitStays DEF RankFits, GradientsOf

\* What has to be shown of a rank after a step.
LEMMA GradientsThen ==
  ASSUME UNCHANGED job, NEW r, NEW s, step'[r] = s,
         at'[r] = "train" /\ todo'[r] # <<>> /\ Head(todo'[r]) # Do("zero_grad") =>
           /\ \A p \in Parameters(r) : grads'[r][p] # {} => p \in Reached(r, s)
           /\ \A p \in Reached(r, s) : grads'[r][p] # {} /\ Even(r, s) =>
                grads'[r][p] = IF Averaged(r, s, p)' THEN Whole(r, s)[p] ELSE OwnGradient(r, p),
         at'[r] = "train" /\ todo'[r] # <<>> => \A b \in BatchesOf(s) :
           \/ \E i \in 1..Len(todo'[r]) : todo'[r][i] = Backpropagate(b)
           \/ Head(todo'[r]) # Do("zero_grad") /\ \A p \in ReachedBy(r, b) : grads'[r][p] # {}
  PROVE  GradientsOf(r)'
<1>2. /\ Do("zero_grad")' = Do("zero_grad") /\ \A b : Backpropagate(b)' = Backpropagate(b)
      /\ Parameters(r)' = Parameters(r) /\ \A z : BatchesOf(z)' = BatchesOf(z)
  BY SameJob DEF Do, Backpropagate, Call
<1>3. /\ \A b : ReachedBy(r, b)' = ReachedBy(r, b)
      /\ Reached(r, s)' = Reached(r, s) /\ (Even(r, s)' <=> Even(r, s)) /\ Whole(r, s)' = Whole(r, s)
      /\ \A p : OwnGradient(r, p)' = OwnGradient(r, p)
  BY SameTokens
<1>4. /\ Reached(r, step[r])' = Reached(r, s)' /\ Even(r, step[r])' = Even(r, s)'
      /\ Whole(r, step[r])' = Whole(r, s)' /\ BatchesOf(step[r])' = BatchesOf(s)'
      /\ \A p : Averaged(r, step[r], p)' = Averaged(r, s, p)'
  BY DEF Reached, Even, Whole, BatchesOf, Averaged
<1>5. OnlyReached(r)'
  BY <1>2, <1>3, <1>4 DEF OnlyReached, Training
<1>6. Pending(r)'
  BY <1>2, <1>3, <1>4 DEF Pending, Ahead
<1>7. SummedUp(r)'
  BY <1>2, <1>3, <1>4 DEF SummedUp, Training
<1> QED  BY <1>5, <1>6, <1>7 DEF GradientsOf

\* So has a rank that goes on to its next handler: it clears them first.
LEMMA FitsEnters ==
  ASSUME MeshInv, UNCHANGED job, Frame, NEW r \in Processes, Enters(r), RankFits(r)
  PROVE  RankFits(r)'
<1>1. config = Load(ask) /\ Placed(r) /\ step[r] \in Nat
  BY DEF MeshInv, MeshTypes
<1>2. CASE at'[r] = "train" /\ todo'[r] = TrainStep(r, step[r] + 1) /\ step'[r] = step[r] + 1 /\ GoesOn(r)
  <2>1. PICK s : s = step[r] + 1
    OBVIOUS
  <2>2. Works
    BY <1>1, <1>2 DEF Placed, GoesOn
  <2>3. s \in Int
    BY <1>1, <2>1
  <2>4. /\ Head(TrainStep(r, s)) = Do("zero_grad")
        /\ \A b \in BatchesOf(s) : \E i \in 1..Len(TrainStep(r, s)) : TrainStep(r, s)[i] = Backpropagate(b)
    BY <1>1, <2>2, <2>3, TrainStepIs
  <2>5. GradientsOf(r)'
    BY <1>2, <2>1, <2>4, GradientsThen
  <2> QED  BY <2>5, WeightsFitStays DEF RankFits, Enters
<1>3. CASE at'[r] # "train"
  <2>1. PICK s : s = step'[r]
    OBVIOUS
  <2>2. GradientsOf(r)'
    BY <1>3, <2>1, GradientsThen
  <2> QED  BY <2>2, WeightsFitStays DEF RankFits, Enters
<1> QED  BY <1>2, <1>3 DEF Enters

\* What is left of a step after a call.
LEMMA StepShrinks ==
  ASSUME MeshInv, NEW r \in Processes, Makes(r), at[r] = "train"
  PROVE  /\ Works /\ config = Load(ask) /\ Closing(r) \in Nat
         /\ todo[r] # <<>> /\ todo'[r] = Tail(todo[r]) /\ at'[r] = "train" /\ step'[r] = step[r]
         /\ step[r] \in Nat
         /\ todo'[r] # <<>> => Head(todo'[r]) # Do("zero_grad")
         /\ \A b : Ahead(r, b) =>
              Head(todo[r]) = Backpropagate(b) \/ \E i \in 1..Len(todo'[r]) : todo'[r][i] = Backpropagate(b)
         /\ Len(todo[r]) \in Nat /\ Len(todo[r]) >= 1 /\ Len(todo'[r]) = Len(todo[r]) - 1
         /\ Len(todo[r]) = 1 <=> todo'[r] = <<>>
<1> DEFINE calls == todo[r]  n == Len(calls)
<1>1. todo[r] # <<>> /\ todo'[r] = Tail(todo[r]) /\ at'[r] = at[r] /\ step'[r] = step[r]
  BY DEF Makes, Due
<1>2. Works /\ config = Load(ask) /\ Closing(r) \in Nat
  BY <1>1, NextCall
<1>3. RestOfStep(r, step[r], todo[r]) /\ step[r] \in Nat
  BY DEF MeshInv, MeshTypes, Placed
<1>4. /\ Tail(calls) # <<>> => Head(Tail(calls)) # Do("zero_grad")
      /\ n \in Nat /\ n >= 1 /\ Len(Tail(calls)) = n - 1 /\ (n = 1 <=> Tail(calls) = <<>>)
      /\ \A i \in 1..n - 1 : Tail(calls)[i] = calls[i + 1]
      /\ Head(calls) = calls[1]
  BY <1>1, <1>2, <1>3, RestShrinks
<1>5. ASSUME NEW b, NEW i \in 1..n, calls[i] = Backpropagate(b), Head(calls) # Backpropagate(b)
      PROVE  \E j \in 1..Len(Tail(calls)) : Tail(calls)[j] = Backpropagate(b)
  <2>1. i # 1
    BY <1>4, <1>5
  <2>2. i - 1 \in 1..n - 1 /\ (i - 1) + 1 = i
    BY <1>4, <2>1
  <2>3. Tail(calls)[i - 1] = Backpropagate(b)
    BY <1>4, <1>5, <2>2
  <2> QED  BY <1>4, <2>2, <2>3
<1> QED  BY <1>1, <1>2, <1>3, <1>4, <1>5 DEF Ahead

\* Once the gradients are averaged, no batch is still to come.
LEMMA NoneAhead ==
  ASSUME MeshInv, NEW r \in Processes, at[r] = "train", todo[r] # <<>>,
         Head(todo[r]).kind \in {"gradients", "optimizer"}, NEW b
  PROVE  ~Ahead(r, b)
<1> DEFINE calls == todo[r]  n == Len(calls)  c == Closing(r)
<1>1. n \in Nat /\ n >= 1 /\ c \in Nat
  BY NextCall
<1>2. n <= c + 1
  <2>1. Head(calls).kind = "gradients" => n + Given(r) = c + 2 /\ Given(r) \in 1..c
    BY GivenIs
  <2>2. Head(calls).kind = "optimizer" => n = 1
    BY CallsOfKind
  <2> HIDE DEF n, c
  <2> QED  BY <1>1, <2>1, <2>2
<1>3. RestOfStep(r, step[r], calls)
  BY DEF MeshInv, Placed
<1>4. SUFFICES ASSUME NEW i \in 1..n, calls[i] = Backpropagate(b) PROVE FALSE
  BY DEF Ahead
<1>5. CASE i = n
  <2>1. calls[n] = Do("optimizer")
    BY <1>1, <1>3 DEF RestOfStep
  <2>2. Do("optimizer").kind = "optimizer" /\ Backpropagate(b).kind = "backward"
    BY DEF Do, Backpropagate, Call
  <2> QED  BY <1>4, <1>5, <2>1, <2>2
<1>6. CASE i # n
  <2> DEFINE m == n - c - 1  p == i - m
  <2>1. \A k \in 1..c : m + k \in 1..n => calls[m + k] = Averages(r, k)
    BY <1>3 DEF RestOfStep
  <2>2. p \in 1..c /\ m + p = i
    <3>1. n \in Nat /\ c \in Nat /\ i \in Nat /\ i >= 1 /\ i < n /\ n <= c + 1
      BY <1>1, <1>2, <1>6
    <3> HIDE DEF n, c
    <3> QED  BY <3>1
  <2>3. calls[i] = Averages(r, p)
    BY <2>1, <2>2
  <2>4. Averages(r, p).kind = "gradients" /\ Backpropagate(b).kind = "backward"
    BY DEF Averages, Try, Backpropagate, Call
  <2> QED  BY <1>4, <2>3, <2>4
<1> QED  BY <1>5, <1>6

\* A rank without replicas has all there is.
LEMMA AloneIsWhole ==
  ASSUME config = Load(ask), Works, DataGroups(mesh) = <<>>, NEW r \in Processes, NEW s,
         NEW p \in Reached(r, s)
  PROVE  Whole(r, s)[p] = OwnGradient(r, p) /\ Replicas(r) = {r}
<1>1. mesh \in Grid /\ mesh.data % mesh.expert = 0 /\ Processes = Ranks(mesh)
  BY WorksTyped
<1>2. {q \in Ranks(mesh) : Alike(mesh, r, q)} = {r}
  BY <1>1, AloneInItsGroup
<1>3. Replicas(r) = {r}
  BY <1>1, <1>2 DEF Alike, Replicas, SameShard
<1>4. p \in Parameters(r)
  BY ReachedTyped
<1>5. Whole(r, s)[p] = {<<p, DataRank(mesh, q)>> : q \in Replicas(r)}
  BY <1>4 DEF Whole
<1> QED  BY <1>3, <1>5 DEF OwnGradient

\* A call that changes no gradients.
LEMMA FitsPasses ==
  ASSUME MeshInv, UNCHANGED job, NEW r \in Processes, Makes(r), RankFits(r), grads'[r] = grads[r],
         Head(todo[r]).kind \notin {"zero_grad", "backward", "optimizer"},
         Head(todo[r]).kind = "gradients" => grads[r][Given(r)] = {}
  PROVE  RankFits(r)'
<1>1. weights'[r] = weights[r] /\ at'[r] = at[r]
  BY DEF Makes
<1>2. PICK s : s = step[r]
  OBVIOUS
<1>3. CASE at[r] = "train"
  <2>1. /\ Works /\ config = Load(ask) /\ Closing(r) \in Nat
        /\ todo[r] # <<>> /\ at'[r] = "train" /\ step'[r] = s /\ s \in Nat
        /\ todo'[r] # <<>> => Head(todo'[r]) # Do("zero_grad")
        /\ \A b : Ahead(r, b) =>
             Head(todo[r]) = Backpropagate(b) \/ \E i \in 1..Len(todo'[r]) : todo'[r][i] = Backpropagate(b)
    BY <1>2, <1>3, StepShrinks
  <2>2. Head(todo[r]) # Do("zero_grad") /\ \A b : Head(todo[r]) # Backpropagate(b)
    BY DEF Do, Backpropagate, Call
  <2>3. Training(r)
    BY <1>3, <2>1, <2>2 DEF Training
  <2>4. \A p \in Parameters(r) : grads'[r][p] # {} => p \in Reached(r, s)
    BY <1>2, <2>3 DEF RankFits, GradientsOf, OnlyReached
  <2>5. ASSUME NEW p \in Reached(r, s), grads'[r][p] # {}, Even(r, s)
        PROVE  grads'[r][p] = IF Averaged(r, s, p)' THEN Whole(r, s)[p] ELSE OwnGradient(r, p)
    <3>1. grads[r][p] = IF Averaged(r, s, p) THEN Whole(r, s)[p] ELSE OwnGradient(r, p)
      BY <1>2, <2>3, <2>5 DEF RankFits, GradientsOf, SummedUp
    <3>2. CASE DataGroups(mesh) # <<>>
      <4>1. p \in 1..Closing(r) /\ s \in Int
        BY <2>1, <3>2, ReachedTyped, LayersTyped
      <4>2. Averaged(r, s, p)' <=> Averaged(r, s, p) \/ AtAverage(r, s, p)
        BY <4>1, AveragedMakes
      <4>3. ~AtAverage(r, s, p)
        BY <2>5 DEF AtAverage
      <4> QED  BY <3>1, <4>2, <4>3
    <3>3. CASE DataGroups(mesh) = <<>>
      <4>1. Whole(r, s)[p] = OwnGradient(r, p)
        BY <2>1, <2>5, <3>3, AloneIsWhole
      <4> QED  BY <3>1, <4>1
    <3> QED  BY <3>2, <3>3
  <2>6. ASSUME todo'[r] # <<>>, NEW b \in BatchesOf(s)
        PROVE  \/ \E i \in 1..Len(todo'[r]) : todo'[r][i] = Backpropagate(b)
               \/ Head(todo'[r]) # Do("zero_grad") /\ \A p \in ReachedBy(r, b) : grads'[r][p] # {}
    BY <1>2, <1>3, <2>1, <2>2, <2>6 DEF RankFits, GradientsOf, Pending
  <2>7. GradientsOf(r)'
    BY <2>1, <2>4, <2>5, <2>6, GradientsThen
  <2> QED  BY <1>1, <2>7, WeightsFitStays DEF RankFits
<1>4. CASE at[r] # "train"
  <2>1. PICK z : z = step'[r]
    OBVIOUS
  <2>2. GradientsOf(r)'
    BY <1>1, <1>4, <2>1, GradientsThen
  <2> QED  BY <1>1, <2>2, WeightsFitStays DEF RankFits
<1> QED  BY <1>3, <1>4

\* zero_grad()
LEMMA FitsClears ==
  ASSUME MeshInv, UNCHANGED job, NEW r \in Processes, Makes(r), RankFits(r),
         Head(todo[r]).kind = "zero_grad"
  PROVE  RankFits(r)'
<1>1. todo[r] # <<>> /\ weights'[r] = weights[r] /\ grads'[r] = NoGradients(r)
  BY DEF Makes, Due
<1>2. at[r] = "train" /\ Head(todo[r]) = Do("zero_grad")
  BY <1>1, CallsOfKind
<1>3. PICK s : s = step[r]
  OBVIOUS
<1>4. /\ Works /\ config = Load(ask)
      /\ at'[r] = "train" /\ step'[r] = s
      /\ todo'[r] # <<>> => Head(todo'[r]) # Do("zero_grad")
      /\ \A b : Ahead(r, b) =>
           Head(todo[r]) = Backpropagate(b) \/ \E i \in 1..Len(todo'[r]) : todo'[r][i] = Backpropagate(b)
  BY <1>2, <1>3, StepShrinks
<1>5. \A p \in Parameters(r) : grads'[r][p] = {}
  BY <1>1 DEF NoGradients
<1>6. Reached(r, s) \subseteq Parameters(r)
  BY <1>4, ReachedTyped
<1>7. \A b : Head(todo[r]) # Backpropagate(b)
  BY <1>2 DEF Do, Backpropagate, Call
<1>8. \A b \in BatchesOf(s) : \E i \in 1..Len(todo'[r]) : todo'[r][i] = Backpropagate(b)
  BY <1>1, <1>2, <1>3, <1>4, <1>7 DEF RankFits, GradientsOf, Pending
<1>9. GradientsOf(r)'
  BY <1>4, <1>5, <1>6, <1>8, GradientsThen
<1> QED  BY <1>1, <1>9, WeightsFitStays DEF RankFits

\* backward()
LEMMA FitsAdds ==
  ASSUME MeshInv, UNCHANGED job, NEW r \in Processes, Makes(r), RankFits(r),
         Head(todo[r]).kind = "backward"
  PROVE  RankFits(r)'
<1>1. todo[r] # <<>> /\ weights'[r] = weights[r] /\ grads'[r] = Added(r, Head(todo[r]).of[1])
  BY DEF Makes, Due
<1>2. PICK b0 \in BatchesOf(step[r]) : at[r] = "train" /\ Head(todo[r]) = Backpropagate(b0)
  BY <1>1, CallsOfKind
<1>3. PICK s : s = step[r]
  OBVIOUS
<1>4. /\ Works /\ config = Load(ask) /\ Closing(r) \in Nat
      /\ at'[r] = "train" /\ step'[r] = s /\ s \in Nat
      /\ todo'[r] # <<>> => Head(todo'[r]) # Do("zero_grad")
      /\ \A b : Ahead(r, b) =>
           Head(todo[r]) = Backpropagate(b) \/ \E i \in 1..Len(todo'[r]) : todo'[r][i] = Backpropagate(b)
      /\ Len(todo[r]) \in Nat /\ Len(todo'[r]) = Len(todo[r]) - 1
  BY <1>2, <1>3, StepShrinks
<1>5. Head(todo[r]) # Do("zero_grad") /\ grads'[r] = Added(r, b0) /\ \A b : Backpropagate(b) = Backpropagate(b0) => b = b0
  <2>1. Head(todo[r]).of[1] = b0
    BY <1>2 DEF Backpropagate, Call
  <2>2. \A b : Backpropagate(b) = Backpropagate(b0) => b = b0
    BY DEF Backpropagate, Call
  <2> QED  BY <1>1, <2>1, <2>2 DEF Do, Call
<1>6. Training(r)
  BY <1>1, <1>2, <1>5 DEF Training
<1>7. \A p \in Parameters(r) :
        grads'[r][p] = grads[r][p] \cup (IF p \in ReachedBy(r, b0) THEN OwnGradient(r, p) ELSE {})
  BY <1>5 DEF Added, OwnGradient
<1>8. /\ Reached(r, s) \subseteq Parameters(r) /\ \A p \in Parameters(r) : p \in Nat \ {0}
      /\ \A b \in BatchesOf(s) : ReachedBy(r, b) \subseteq Reached(r, s)
  BY <1>4, ReachedTyped
<1>9. \A p \in Parameters(r) : grads'[r][p] # {} => p \in Reached(r, s)
  BY <1>2, <1>3, <1>6, <1>7, <1>8 DEF RankFits, GradientsOf, OnlyReached
<1>10. ASSUME NEW p \in Reached(r, s), grads'[r][p] # {}, Even(r, s)
       PROVE  grads'[r][p] = IF Averaged(r, s, p)' THEN Whole(r, s)[p] ELSE OwnGradient(r, p)
  <2>1. Len(todo[r]) > Closing(r) + 1
    BY <1>1, CallsOfKind
  <2>2. ~Averaged(r, s, p) /\ ~Averaged(r, s, p)'
    <3>1. p \in Nat \ {0}
      BY <1>8
    <3>2. Closing(r)' = Closing(r)
      BY SameJob
    <3>3. ~(Len(todo[r]) + p <= Closing(r) + 1) /\ ~(Len(todo'[r]) + p <= Closing(r) + 1) /\ ~(s < s)
      BY <1>4, <2>1, <3>1
    <3> QED  BY <1>2, <1>3, <1>4, <3>2, <3>3 DEF Averaged, LeftOf
  <2>3. grads[r][p] # {} => grads[r][p] = OwnGradient(r, p)
    BY <1>3, <1>6, <1>10, <2>2 DEF RankFits, GradientsOf, SummedUp
  <2> QED  BY <1>7, <1>8, <1>10, <2>2, <2>3
<1>11. ASSUME todo'[r] # <<>>, NEW b \in BatchesOf(s)
       PROVE  \/ \E i \in 1..Len(todo'[r]) : todo'[r][i] = Backpropagate(b)
              \/ Head(todo'[r]) # Do("zero_grad") /\ \A p \in ReachedBy(r, b) : grads'[r][p] # {}
  <2>1. CASE b = b0
    <3>1. \A p \in ReachedBy(r, b) : grads'[r][p] # {}
      <4> TAKE p \in ReachedBy(r, b)
      <4>1. p \in Parameters(r) /\ OwnGradient(r, p) # {}
        BY <1>8 DEF OwnGradient
      <4> QED  BY <1>7, <2>1, <4>1
    <3> QED  BY <1>4, <1>11, <3>1
  <2>2. CASE b # b0
    <3>1. Head(todo[r]) # Backpropagate(b)
      BY <1>2, <1>5, <2>2
    <3>2. Ahead(r, b) \/ \A p \in ReachedBy(r, b) : grads[r][p] # {}
      BY <1>1, <1>2, <1>3 DEF RankFits, GradientsOf, Pending
    <3>3. (\A p \in ReachedBy(r, b) : grads[r][p] # {}) => \A p \in ReachedBy(r, b) : grads'[r][p] # {}
      BY <1>7, <1>8
    <3> QED  BY <1>4, <1>11, <3>1, <3>2, <3>3
  <2> QED  BY <2>1, <2>2
<1>12. GradientsOf(r)'
  BY <1>4, <1>9, <1>10, <1>11, GradientsThen
<1> QED  BY <1>1, <1>12, WeightsFitStays DEF RankFits

\* What the optimizer applies is what all replicas have, as long as the tokens
\* are even.
LEMMA AppliesWhole ==
  ASSUME MeshInv, NEW r \in Processes, todo[r] # <<>>, Head(todo[r]).kind = "optimizer",
         GradientsOf(r), Even(r, step[r])
  PROVE  grads[r] = Whole(r, step[r])
<1>1. at[r] = "train" /\ Head(todo[r]) = Do("optimizer") /\ Len(todo[r]) = 1
  BY CallsOfKind
<1>2. Works /\ config = Load(ask) /\ Closing(r) \in Nat
  BY NextCall
<1>3. Head(todo[r]) # Do("zero_grad")
  BY <1>1 DEF Do, Call
<1>4. grads[r] \in Gradients(r)
  BY <1>1, <1>3 DEF MeshInv, Placed
<1>5. PICK s : s = step[r]
  OBVIOUS
<1>6. ASSUME NEW p \in Parameters(r) PROVE grads[r][p] = Whole(r, s)[p]
  <2>1. CASE p \notin Reached(r, s)
    <3>1. grads[r][p] = {}
      BY <1>1, <1>3, <1>5, <2>1 DEF GradientsOf, OnlyReached, Training
    <3> QED  BY <2>1, <3>1 DEF Whole
  <2>2. CASE p \in Reached(r, s)
    <3>1. PICK b \in BatchesOf(s) : p \in ReachedBy(r, b)
      BY <1>2, <2>2, ReachedTyped
    <3>2. ~Ahead(r, b)
      BY <1>1, NoneAhead
    <3>3. grads[r][p] # {}
      BY <1>1, <1>5, <3>1, <3>2 DEF GradientsOf, Pending
    <3>4. grads[r][p] = IF Averaged(r, s, p) THEN Whole(r, s)[p] ELSE OwnGradient(r, p)
      BY <1>1, <1>3, <1>5, <2>2, <3>3 DEF GradientsOf, SummedUp, Training
    <3>5. CASE DataGroups(mesh) = <<>>
      BY <1>2, <2>2, <3>4, <3>5, AloneIsWhole
    <3>6. CASE DataGroups(mesh) # <<>>
      <4>1. p \in 1..Closing(r)
        BY <1>2, <3>6, LayersTyped
      <4>2. 1 + p <= Closing(r) + 1
        BY <1>2, <4>1
      <4>3. Averaged(r, s, p)
        BY <1>1, <1>5, <4>2 DEF Averaged, LeftOf
      <4> QED  BY <3>4, <4>3
    <3> QED  BY <3>5, <3>6
  <2> QED  BY <2>1, <2>2
<1>7. grads[r] = [p \in Parameters(r) |-> grads[r][p]]
  BY <1>4 DEF Gradients
<1>8. Whole(r, s) = [p \in Parameters(r) |-> Whole(r, s)[p]]
  BY DEF Whole
<1>9. grads[r] = Whole(r, s)
  BY <1>6, <1>7, <1>8
<1> QED  BY <1>5, <1>9

\* step() of the optimizer.
LEMMA FitsApplies ==
  ASSUME MeshInv, UNCHANGED job, NEW r \in Processes, Makes(r), RankFits(r),
         Head(todo[r]).kind = "optimizer"
  PROVE  RankFits(r)'
<1>1. todo[r] # <<>> /\ weights'[r] = Append(weights[r], grads[r])
  BY DEF Makes, Due
<1>2. at[r] = "train" /\ Len(todo[r]) = 1 /\ Head(todo[r]) = Do("optimizer")
  BY <1>1, CallsOfKind
<1>3. PICK s : s = step[r]
  OBVIOUS
<1>4. Works /\ config = Load(ask) /\ step'[r] = s /\ s \in Nat /\ todo'[r] = <<>>
  BY <1>2, <1>3, StepShrinks
<1>5. GradientsOf(r)'
  BY <1>4, GradientsThen
<1>6. weights[r] \in Seq(Gradients(r)) /\ Len(weights[r]) = s - 1 /\ grads[r] \in Gradients(r)
  <2>1. Head(todo[r]) # Do("zero_grad")
    BY <1>2 DEF Do, Call
  <2> QED  BY <1>1, <1>2, <1>3, <1>4, <2>1 DEF MeshInv, Placed
<1>7. /\ DOMAIN weights'[r] = 1..s /\ weights'[r][s] = grads[r]
      /\ \A i \in 1..s : i # s => weights'[r][i] = weights[r][i] /\ i \in DOMAIN weights[r]
  <2> DEFINE w == weights[r]  g == grads[r]  S == Gradients(r)
  <2>1. w \in Seq(S) /\ g \in S /\ Len(w) = s - 1 /\ s \in Nat
    BY <1>4, <1>6
  <2> HIDE DEF w, g, S
  <2>2. /\ Append(w, g) \in Seq(S) /\ Len(Append(w, g)) = Len(w) + 1
        /\ \A i \in 1..Len(w) : Append(w, g)[i] = w[i]
        /\ Append(w, g)[Len(w) + 1] = g
    BY <2>1, AppendProperties
  <2>3. DOMAIN Append(w, g) = 1..s /\ Append(w, g)[s] = g
    BY <2>1, <2>2
  <2>4. \A i \in 1..s : i # s => Append(w, g)[i] = w[i] /\ i \in DOMAIN w
    BY <2>1, <2>2
  <2> QED  BY <1>1, <2>3, <2>4 DEF w, g
<1>8. WeightsFit(r)'
  <2>1. \A i : (Even(r, i)' <=> Even(r, i)) /\ Whole(r, i)' = Whole(r, i)
    BY SameTokens
  <2>2. ASSUME NEW i \in 1..s, Even(r, i) PROVE weights'[r][i] = Whole(r, i)
    <3>1. CASE i = s
      <4>1. GradientsOf(r) /\ Even(r, step[r])
        BY <1>3, <2>2, <3>1 DEF RankFits
      <4>2. grads[r] = Whole(r, step[r])
        BY <1>1, <4>1, AppliesWhole
      <4> QED  BY <1>3, <1>7, <3>1, <4>2
    <3>2. CASE i # s
      BY <1>7, <2>2, <3>2 DEF RankFits, WeightsFit
    <3> QED  BY <3>1, <3>2
  <2> QED  BY <1>7, <2>1, <2>2 DEF WeightsFit
<1> QED  BY <1>5, <1>8 DEF RankFits

-----------------------------------------------------------------------------
(* The replicas average together.                                          *)

\* Ranks that have come to a collective for gradients are in the same step and
\* in the same parameter, as long as the tokens are even.
LEMMA MatchedMeet ==
  ASSUME MeshInv, Works, Matched, NEW r \in Processes, NEW q \in Replicas(r),
         GradientsOf(r), GradientsOf(q), NEW s, NEW p, NEW z, NEW k,
         AtAverage(r, s, p), AtAverage(q, z, k), grads[r][p] # {}, grads[q][k] # {}, Even(r, s)
  PROVE  s = z /\ p = k
<1>1. /\ q \in Processes /\ r \in Replicas(q) /\ Closing(q) = Closing(r) /\ Parameters(q) = Parameters(r)
      /\ \A t : Even(q, t) <=> Even(r, t)
      /\ \A t : EvenStep(r, t) => Reached(q, t) = Reached(r, t)
  BY Twins
<1>2. /\ ~Averaged(r, s, p) /\ p \in Parameters(r) /\ s \in 1..MaxSteps /\ p \in 1..Closing(r)
      /\ at[r] = "train" /\ todo[r] # <<>> /\ Head(todo[r]) # Do("zero_grad")
      /\ Len(todo[r]) + p = Closing(r) + 2 /\ Len(todo[r]) \in Nat /\ Closing(r) \in Nat /\ MaxSteps \in Nat
  BY NotYetAveraged
<1>3. /\ ~Averaged(q, z, k) /\ k \in Parameters(q) /\ z \in 1..MaxSteps /\ k \in 1..Closing(r)
      /\ at[q] = "train" /\ todo[q] # <<>> /\ Head(todo[q]) # Do("zero_grad")
      /\ Len(todo[q]) + k = Closing(r) + 2 /\ Len(todo[q]) \in Nat
  BY <1>1, NotYetAveraged
<1>4. step[r] = s /\ step[q] = z
  BY DEF AtAverage
<1>5. p \in Reached(r, s)
  BY <1>2, <1>4 DEF GradientsOf, OnlyReached, Training
<1>6. k \in Reached(q, z)
  BY <1>3, <1>4 DEF GradientsOf, OnlyReached, Training
<1>7. ~Averaged(q, s, p)
  BY <1>2, <1>5 DEF Matched
<1>8. ~(s < z)
  BY <1>4, <1>7 DEF Averaged
<1>9. z <= s /\ s \in Nat /\ z \in Nat /\ p \in Nat /\ k \in Nat
  BY <1>2, <1>3, <1>8
<1>10. Even(r, z) /\ EvenStep(r, z)
  <2>1. \A t \in 1..z : t \in 1..s
    BY <1>9
  <2>2. z \in 1..z
    BY <1>3, <1>9
  <2> QED  BY <2>1, <2>2 DEF Even
<1>11. k \in Reached(r, z)
  BY <1>1, <1>6, <1>10
<1>12. ~Averaged(r, z, k)
  BY <1>3, <1>10, <1>11 DEF Matched
<1>13. s = z
  <2>1. ~(z < s)
    BY <1>4, <1>12 DEF Averaged
  <2> QED  BY <1>9, <2>1
<1>14. ~(Len(todo[q]) + p <= Closing(r) + 1)
  BY <1>1, <1>3, <1>4, <1>7, <1>13 DEF Averaged, LeftOf
<1>15. ~(Len(todo[r]) + k <= Closing(r) + 1)
  BY <1>2, <1>4, <1>12, <1>13 DEF Averaged, LeftOf
<1>16. p = k
  <2> DEFINE n == Len(todo[r])  m == Len(todo[q])  c == Closing(r)
  <2>1. /\ n \in Nat /\ m \in Nat /\ c \in Nat /\ p \in Nat /\ k \in Nat
        /\ n + p = c + 2 /\ m + k = c + 2 /\ ~(m + p <= c + 1) /\ ~(n + k <= c + 1)
    BY <1>2, <1>3, <1>9, <1>14, <1>15
  <2> HIDE DEF n, m, c
  <2> QED  BY <2>1
<1> QED  BY <1>13, <1>16

\* The replicas of a slice have met to average the gradients of a parameter each.
MeetToAverage(r) ==
  /\ Meets(r) /\ Head(todo[r]).kind = "gradients"
  /\ UNCHANGED <<job, at, step, weights, shards, meta, failed>>

\* Each of them has gradients to give, and gets the sum in return.
LEMMA SumIs ==
  ASSUME MeshInv, NEW r0 \in Processes, MeetToAverage(r0), NEW r \in Replicas(r0)
  PROVE  /\ UNCHANGED job /\ r \in Processes /\ Replicas(r) = Replicas(r0)
         /\ \A q \in Replicas(r) :
              /\ q \in Processes /\ Makes(q) /\ AtAverage(q, step[q], Given(q))
              /\ grads[q][Given(q)] # {}
         /\ grads'[r] = [grads[r] EXCEPT ![Given(r)] = UNION {grads[q][Given(q)] : q \in Replicas(r)}]
<1> DEFINE peers == Head(todo[r0]).peers  X == UNION {grads[q][Given(q)] : q \in peers}
<1>1. Meets(r0) /\ todo[r0] # <<>> /\ Head(todo[r0]).kind = "gradients"
  BY DEF MeetToAverage, Meets, Joins, Due
<1>2. peers = Replicas(r0)
  BY <1>1, PeersAre
<1>3. r \in Processes /\ Replicas(r) = Replicas(r0)
  BY Twins
<1>4. UNCHANGED job
  BY DEF MeetToAverage
<1>5. ASSUME NEW q \in Replicas(r)
      PROVE  /\ q \in Processes /\ Makes(q) /\ AtAverage(q, step[q], Given(q))
             /\ grads[q][Given(q)] # {}
  <2>1. q \in peers /\ q \in Processes
    BY <1>2, <1>3, <1>5, Twins
  <2>2. Makes(q) /\ todo[q] # <<>>
    BY <2>1, <1>1, MeetsMoves DEF MeetToAverage
  <2>3. Joins(q) /\ Head(todo[q]).kind = "gradients"
    BY <1>1, <2>1 DEF Meets
  <2>4. Head(todo[q]).op = "try"
    <3>1. PICK p \in 1..Closing(q) : Head(todo[q]) = Averages(q, p)
      BY <2>1, <2>2, <2>3, CallsOfKind
    <3> QED  BY <3>1 DEF Averages, Try, Call
  <2>5. grads[q][Given(q)] # {}
    BY <2>3, <2>4 DEF Joins, LeavesOut, Given
  <2> QED  BY <2>1, <2>2, <2>3, <2>5 DEF AtAverage
<1>6. grads'[r] = [grads[r] EXCEPT ![Given(r)] = X]
  <2>1. grads' = Summed(peers)
    BY <1>1 DEF Meets
  <2>2. Summed(peers) = [q \in DOMAIN grads |-> IF q \in peers THEN [grads[q] EXCEPT ![Given(q)] = X]
                                               ELSE grads[q]]
    BY DEF Summed, Given
  <2>3. r \in DOMAIN grads /\ r \in peers
    BY <1>2, <1>3 DEF MeshInv, MeshTypes
  <2> HIDE DEF X, peers
  <2> QED  BY <2>1, <2>2, <2>3
<1> QED  BY <1>2, <1>3, <1>4, <1>5, <1>6

\* The replicas of a slice are in the same parameter, and what they get is whole.
LEMMA SumIsWhole ==
  ASSUME MeshInv, Works, Matched, \A q \in Processes : GradientsOf(q),
         NEW r0 \in Processes, MeetToAverage(r0), NEW r \in Replicas(r0), Even(r, step[r])
  PROVE  /\ \A q \in Replicas(r) : step[q] = step[r] /\ Given(q) = Given(r)
         /\ grads'[r][Given(r)] = Whole(r, step[r])[Given(r)]
<1>1. /\ UNCHANGED job /\ r \in Processes
      /\ \A q \in Replicas(r) :
           /\ q \in Processes /\ Makes(q) /\ AtAverage(q, step[q], Given(q))
           /\ grads[q][Given(q)] # {}
      /\ grads'[r] = [grads[r] EXCEPT ![Given(r)] = UNION {grads[q][Given(q)] : q \in Replicas(r)}]
  BY SumIs
<1>2. r \in Replicas(r)
  BY <1>1, Twins
<1>3. PICK s, p : s = step[r] /\ p = Given(r)
  OBVIOUS
<1>4. ASSUME NEW q \in Replicas(r)
      PROVE  step[q] = s /\ Given(q) = p
  <2>1. q \in Processes /\ GradientsOf(r) /\ GradientsOf(q) /\ Even(r, s)
    BY <1>1, <1>3
  <2>2. AtAverage(r, s, p) /\ AtAverage(q, step[q], Given(q))
    BY <1>1, <1>2, <1>3
  <2>3. grads[r][p] # {} /\ grads[q][Given(q)] # {}
    BY <1>1, <1>2, <1>3
  <2> QED  BY <1>1, <2>1, <2>2, <2>3, MatchedMeet
<1>5. AtAverage(r, s, p)
  BY <1>1, <1>2, <1>3
<1>6. /\ ~Averaged(r, s, p) /\ at[r] = "train" /\ p \in Parameters(r) /\ todo[r] # <<>>
      /\ Head(todo[r]) # Do("zero_grad") /\ grads[r] \in Gradients(r)
  BY <1>1, <1>5, NotYetAveraged
<1>7. p \in Reached(r, s)
  <2>1. GradientsOf(r) /\ grads[r][p] # {}
    BY <1>1, <1>2, <1>3
  <2> QED  BY <1>3, <1>6, <2>1 DEF GradientsOf, OnlyReached, Training
<1>8. ASSUME NEW q \in Replicas(r)
      PROVE  grads[q][Given(q)] = {<<p, DataRank(mesh, q)>>}
  <2>1. /\ q \in Processes /\ AtAverage(q, s, p) /\ grads[q][p] # {} /\ GradientsOf(q) /\ step[q] = s
        /\ Given(q) = p
    BY <1>1, <1>4
  <2>2. /\ ~Averaged(q, s, p) /\ at[q] = "train" /\ p \in Parameters(q) /\ todo[q] # <<>>
        /\ Head(todo[q]) # Do("zero_grad")
    BY <2>1, NotYetAveraged
  <2>3. Even(q, s)
    BY <1>1, <1>3, Twins
  <2>4. p \in Reached(q, s)
    BY <2>1, <2>2 DEF GradientsOf, OnlyReached, Training
  <2>5. grads[q][p] = OwnGradient(q, p)
    BY <2>1, <2>2, <2>3, <2>4 DEF GradientsOf, SummedUp, Training
  <2> QED  BY <2>1, <2>5 DEF OwnGradient
<1>9. UNION {grads[q][Given(q)] : q \in Replicas(r)} = {<<p, DataRank(mesh, q)>> : q \in Replicas(r)}
  <2>1. {grads[q][Given(q)] : q \in Replicas(r)} = {{<<p, DataRank(mesh, q)>>} : q \in Replicas(r)}
    BY <1>8
  <2> DEFINE f(q) == <<p, DataRank(mesh, q)>>
  <2>2. UNION {{f(q)} : q \in Replicas(r)} = {f(q) : q \in Replicas(r)}
    OBVIOUS
  <2> QED  BY <2>1, <2>2
<1>10. Whole(r, s)[p] = {<<p, DataRank(mesh, q)>> : q \in Replicas(r)}
  BY <1>6, <1>7 DEF Whole
<1>11. grads'[r][p] = UNION {grads[q][Given(q)] : q \in Replicas(r)}
  <2> DEFINE X == UNION {grads[q][Given(q)] : q \in Replicas(r)}
  <2>1. grads'[r] = [grads[r] EXCEPT ![p] = X] /\ p \in DOMAIN grads[r]
    BY <1>1, <1>3, <1>6 DEF Gradients
  <2> HIDE DEF X
  <2> QED  BY <2>1 DEF X
<1> QED  BY <1>3, <1>4, <1>9, <1>10, <1>11

\* What an average does to a rank that takes part in it.
LEMMA FitsAverages ==
  ASSUME MeshInv, Works, Matched, \A q \in Processes : RankFits(q),
         NEW r0 \in Processes, MeetToAverage(r0), NEW r \in Replicas(r0)
  PROVE  RankFits(r)'
<1> DEFINE X == UNION {grads[q][Given(q)] : q \in Replicas(r)}
<1>1. /\ UNCHANGED job /\ r \in Processes /\ Replicas(r) = Replicas(r0)
      /\ Makes(r) /\ AtAverage(r, step[r], Given(r)) /\ grads[r][Given(r)] # {}
      /\ grads'[r] = [grads[r] EXCEPT ![Given(r)] = X] /\ r \in Replicas(r)
  BY SumIs, Twins
<1>2. PICK s, p : s = step[r] /\ p = Given(r)
  OBVIOUS
<1>3. /\ ~Averaged(r, s, p) /\ at[r] = "train" /\ p \in Parameters(r) /\ p \in 1..Closing(r)
      /\ todo[r] # <<>> /\ Head(todo[r]) # Do("zero_grad") /\ grads[r] \in Gradients(r)
      /\ config = Load(ask) /\ s \in 1..MaxSteps
  BY <1>1, <1>2, NotYetAveraged
<1>4. /\ at'[r] = "train" /\ step'[r] = s
      /\ todo'[r] # <<>> => Head(todo'[r]) # Do("zero_grad")
      /\ \A b : Ahead(r, b) =>
           Head(todo[r]) = Backpropagate(b) \/ \E i \in 1..Len(todo'[r]) : todo'[r][i] = Backpropagate(b)
  BY <1>1, <1>2, <1>3, StepShrinks
<1>5. Head(todo[r]).kind = "gradients"
  BY <1>1 DEF AtAverage
<1>6. /\ \A k \in Parameters(r) : grads'[r][k] = IF k = p THEN X ELSE grads[r][k]
      /\ grads[r][p] \subseteq X /\ grads[r][p] # {}
  <2>1. grads[r][p] \subseteq X
    BY <1>1, <1>2
  <2> HIDE DEF X
  <2> QED  BY <1>1, <1>2, <1>3, <2>1 DEF Gradients
<1>7. Training(r) /\ GradientsOf(r)
  BY <1>1, <1>3 DEF Training, RankFits
<1>8. p \in Reached(r, s)
  BY <1>2, <1>3, <1>6, <1>7 DEF GradientsOf, OnlyReached
<1>9. \A k \in Parameters(r) : grads'[r][k] # {} => k \in Reached(r, s)
  BY <1>2, <1>6, <1>7, <1>8 DEF GradientsOf, OnlyReached
<1>10. /\ Reached(r, s) \subseteq Parameters(r)
       /\ \A b \in BatchesOf(s) : ReachedBy(r, b) \subseteq Reached(r, s)
  BY <1>1, <1>3, ReachedTyped
<1>11. ASSUME NEW k \in Reached(r, s), grads'[r][k] # {}, Even(r, s)
       PROVE  grads'[r][k] = IF Averaged(r, s, k)' THEN Whole(r, s)[k] ELSE OwnGradient(r, k)
  <2>1. k \in 1..Closing(r) /\ s \in Int
    <3>1. DataGroups(mesh) # <<>>
      BY <1>1, <1>3, <1>5, PeersAre
    <3>2. Parameters(r) = 1..Closing(r)
      BY <1>1, <1>3, <3>1, LayersTyped
    <3>3. MaxSteps \in Nat
      BY <1>3, WorksTyped
    <3> QED  BY <1>3, <1>10, <3>2, <3>3
  <2>2. Averaged(r, s, k)' <=> Averaged(r, s, k) \/ AtAverage(r, s, k)
    BY <1>1, <2>1, AveragedMakes
  <2>3. CASE k = p
    <3>1. AtAverage(r, s, k)
      BY <1>1, <1>2, <2>3
    <3>2. \A q \in Processes : GradientsOf(q)
      BY DEF RankFits
    <3>3. grads'[r][p] = Whole(r, s)[p]
      BY <1>2, <1>11, <3>2, SumIsWhole
    <3> QED  BY <2>2, <2>3, <3>1, <3>3
  <2>4. CASE k # p
    <3>1. ~AtAverage(r, s, k)
      BY <1>2, <2>4 DEF AtAverage
    <3>2. grads[r][k] # {} /\ grads'[r][k] = grads[r][k]
      BY <1>6, <1>10, <1>11, <2>4
    <3>3. grads[r][k] = IF Averaged(r, s, k) THEN Whole(r, s)[k] ELSE OwnGradient(r, k)
      BY <1>2, <1>7, <1>11, <3>2 DEF GradientsOf, SummedUp
    <3> QED  BY <2>2, <3>1, <3>2, <3>3
  <2> QED  BY <2>3, <2>4
<1>12. ASSUME todo'[r] # <<>>, NEW b \in BatchesOf(s)
       PROVE  \/ \E i \in 1..Len(todo'[r]) : todo'[r][i] = Backpropagate(b)
              \/ Head(todo'[r]) # Do("zero_grad") /\ \A k \in ReachedBy(r, b) : grads'[r][k] # {}
  <2>1. ~Ahead(r, b)
    BY <1>1, <1>3, <1>5, NoneAhead
  <2>2. \A k \in ReachedBy(r, b) : grads[r][k] # {}
    BY <1>2, <1>3, <1>7, <2>1 DEF GradientsOf, Pending
  <2>3. \A k \in ReachedBy(r, b) : grads'[r][k] # {}
    <3> HIDE DEF X
    <3> QED  BY <1>6, <1>10, <2>2
  <2> QED  BY <1>4, <1>12, <2>3
<1>13. GradientsOf(r)'
  BY <1>1, <1>4, <1>9, <1>11, <1>12, GradientsThen
<1>14. weights'[r] = weights[r]
  BY <1>1, <1>5 DEF Makes
<1> QED  BY <1>1, <1>13, <1>14, WeightsFitStays DEF RankFits

-----------------------------------------------------------------------------
(* Every step.                                                             *)

\* Rank r goes on without an average.
Quietly(r) ==
  \/ Stays(r) \/ Enters(r)
  \/ /\ Makes(r)
     /\ Head(todo[r]).kind \in {"zero_grad", "backward", "optimizer"} \/ grads'[r] = grads[r]
     /\ Head(todo[r]).kind = "gradients" => grads[r][Given(r)] = {}

\* Either the replicas of a slice average, and the other ranks stay where they
\* are, or all go on without.
LEMMA NextAverages ==
  ASSUME MeshInv, [Next]_vars
  PROVE  \/ \A r \in Processes : Quietly(r)
         \/ \E r0 \in Processes : /\ MeetToAverage(r0)
                                  /\ \A q \in Processes \ Replicas(r0) : Stays(q)
<1>1. CASE UNCHANGED vars
  BY <1>1 DEF vars, Quietly, Stays
<1>2. CASE Collective
  <2>1. PICK r \in Processes : Meets(r)
    BY <1>2, CollectiveIs
  <2>2. UNCHANGED <<job, at, step, weights, shards, meta, failed>>
    BY <1>2, CollectiveIs
  <2> DEFINE peers == Head(todo[r]).peers
  <2>3. /\ \A q \in Processes \cap peers : Makes(q) /\ todo[q] # <<>>
        /\ \A q \in Processes \ peers : Stays(q)
    BY <2>1, <2>2, MeetsMoves
  <2>4. CASE Head(todo[r]).kind = "gradients"
    <3>1. todo[r] # <<>>
      BY <2>1 DEF Meets, Joins, Due
    <3>2. peers = Replicas(r)
      BY <2>4, <3>1, PeersAre
    <3> QED  BY <2>1, <2>2, <2>3, <2>4, <3>2 DEF MeetToAverage
  <2>5. CASE Head(todo[r]).kind # "gradients"
    <3>1. grads' = grads
      BY <2>1, <2>5 DEF Meets
    <3>2. \A q \in peers : Head(todo[q]).kind = Head(todo[r]).kind
      BY <2>1 DEF Meets
    <3> QED  BY <2>3, <2>5, <3>1, <3>2 DEF Quietly
  <2> QED  BY <2>4, <2>5
<1>3. CASE Transfer
  <2>1. grads' = grads /\ \A q \in Processes : Stays(q) \/ (Makes(q) /\ Head(todo[q]).kind = "")
    BY <1>3, TransferMoves
  <2> QED  BY <2>1 DEF Quietly
<1>4. ASSUME NEW r \in Processes, Rank(r)
      PROVE  \A q \in Processes : Quietly(q)
  <2>1. CASE Handler(r)
    BY <2>1, HandlerMoves DEF Quietly
  <2>2. CASE Skip(r)
    <3>1. grads' = grads /\ LeavesOut(r)
      BY <2>2 DEF Skip
    <3>2. Head(todo[r]).kind = "gradients" => grads[r][Given(r)] = {}
      BY <3>1 DEF LeavesOut, Given
    <3>3. Makes(r) /\ \A q \in Processes \ {r} : Stays(q)
      BY <2>2, SkipMoves
    <3> QED  BY <3>1, <3>2, <3>3 DEF Quietly
  <2>3. CASE Local(r)
    <3>1. Makes(r) /\ \A q \in Processes \ {r} : Stays(q)
      BY <2>3, LocalMoves
    <3>2. Head(todo[r]).kind # "gradients"
      <4>1. todo[r] # <<>> /\ Head(todo[r]).op = "do"
        BY <2>3 DEF Local, Due
      <4>2. SUFFICES ASSUME Head(todo[r]).kind = "gradients" PROVE FALSE
        OBVIOUS
      <4>3. PICK p \in 1..Closing(r) : Head(todo[r]) = Averages(r, p)
        BY <4>1, <4>2, CallsOfKind
      <4> QED  BY <4>1, <4>3 DEF Averages, Try, Call
    <3>3. Head(todo[r]).kind \notin {"zero_grad", "backward", "optimizer"} => grads'[r] = grads[r]
      BY <2>3 DEF Local
    <3> QED  BY <3>1, <3>2, <3>3 DEF Quietly
  <2>4. CASE Fail(r)
    BY <2>4, FailMoves DEF Quietly
  <2> QED  BY <1>4, <2>1, <2>2, <2>3, <2>4 DEF Rank, Handler
<1> QED  BY <1>1, <1>2, <1>3, <1>4 DEF Next

\* A rank that goes on without an average has the gradients it should have.
LEMMA FitsQuietly ==
  ASSUME MeshInv, UNCHANGED job, Frame, NEW r \in Processes, Quietly(r), RankFits(r)
  PROVE  RankFits(r)'
<1>1. CASE Makes(r) /\ Head(todo[r]).kind \notin {"zero_grad", "backward", "optimizer"} /\ ~Stays(r) /\ ~Enters(r)
  BY <1>1, FitsPasses DEF Quietly
<1> QED  BY <1>1, FitsStays, FitsEnters, FitsClears, FitsAdds, FitsApplies DEF Quietly

\* A rank that goes on without an average has averaged what it had: it has gradients for
\* every parameter its tokens reach, so that it leaves out only others.
LEMMA AveragedQuietly ==
  ASSUME MeshInv, UNCHANGED job, Frame, NEW r \in Processes, Quietly(r), GradientsOf(r),
         NEW s \in Int, NEW p \in Reached(r, s), p \in 1..Closing(r)
  PROVE  Averaged(r, s, p)' <=> Averaged(r, s, p)
<1>1. CASE Makes(r) /\ (Head(todo[r]).kind = "gradients" => grads[r][Given(r)] = {})
  <2>1. ~AtAverage(r, s, p)
    <3>1. SUFFICES ASSUME AtAverage(r, s, p) PROVE FALSE
      OBVIOUS
    <3>2. /\ at[r] = "train" /\ todo[r] # <<>> /\ Head(todo[r]).kind = "gradients" /\ step[r] = s
          /\ Works /\ config = Load(ask) /\ Given(r) = p
      BY <3>1, NotYetAveraged DEF AtAverage
    <3>3. grads[r][p] = {}
      BY <1>1, <3>2
    <3>4. PICK b \in BatchesOf(s) : p \in ReachedBy(r, b)
      BY <3>2, ReachedTyped
    <3>5. ~Ahead(r, b)
      BY <3>2, NoneAhead
    <3> QED  BY <3>2, <3>3, <3>4, <3>5 DEF GradientsOf, Pending
  <2>2. Averaged(r, s, p)' <=> Averaged(r, s, p) \/ AtAverage(r, s, p)
    BY <1>1, AveragedMakes
  <2> QED  BY <2>1, <2>2
<1>2. CASE Stays(r)
  BY <1>2, AveragedStays
<1>3. CASE Enters(r)
  BY <1>3, AveragedEnters
<1> QED  BY <1>1, <1>2, <1>3 DEF Quietly

\* Why replicas agree.
AverageInv == Works => Matched /\ \A r \in Processes : RankFits(r)

\* Replicas average the same parameters from then on.
LEMMA MatchedStays ==
  ASSUME MeshInv, [Next]_vars, Works, Matched, \A r \in Processes : RankFits(r)
  PROVE  Matched'
<1>1. UNCHANGED job /\ Frame /\ \A r \in Processes : Moves(r)
  BY NextMoves
<1>2. config = Load(ask) /\ MaxSteps' = MaxSteps /\ Processes' = Processes
  BY <1>1, SameJob DEF MeshInv, MeshTypes
<1>3. \A r : Replicas(r)' = Replicas(r)
  BY <1>1, SameJob
<1>4. \A r, s : Reached(r, s)' = Reached(r, s) /\ (Even(r, s)' <=> Even(r, s))
  BY <1>1, SameTokens
<1>5. SUFFICES ASSUME NEW r \in Processes, NEW q \in Replicas(r), NEW s \in 1..MaxSteps, Even(r, s),
                      NEW p \in Reached(r, s)
               PROVE  Averaged(r, s, p)' <=> Averaged(q, s, p)'
  <2>1. \A r \in Processes : \A q \in Replicas(r) : \A s \in 1..MaxSteps : Even(r, s) =>
          \A p \in Reached(r, s) : Averaged(r, s, p)' <=> Averaged(q, s, p)'
    BY <1>5
  <2> QED  BY <1>2, <1>3, <1>4, <2>1 DEF Matched
<1>6. Averaged(r, s, p) <=> Averaged(q, s, p)
  BY <1>5 DEF Matched
<1>7. /\ q \in Processes /\ r \in Replicas(q) /\ r \in Replicas(r) /\ Replicas(q) = Replicas(r)
      /\ Closing(q) = Closing(r) /\ Even(q, s)
  BY <1>5, Twins
<1>8. CASE DataGroups(mesh) = <<>>
  <2>1. q = r
    BY <1>2, <1>5, <1>8, AloneIsWhole
  <2> QED  BY <2>1
<1>9. CASE DataGroups(mesh) # <<>>
  <2>1. p \in 1..Closing(r) /\ s \in Int /\ s \in Nat \ {0}
    <3>1. p \in Parameters(r) /\ Parameters(r) = 1..Closing(r) /\ MaxSteps \in Nat
      BY <1>2, <1>5, <1>9, ReachedTyped, LayersTyped, WorksTyped
    <3> QED  BY <1>5, <3>1
  <2>2. p \in Reached(q, s)
    <3>1. EvenStep(r, s)
      <4>1. s \in 1..s
        BY <2>1
      <4> QED  BY <1>5, <4>1 DEF Even
    <3> QED  BY <1>5, <3>1, Twins
  <2>3. GradientsOf(r) /\ GradientsOf(q) /\ \A z \in Processes : GradientsOf(z)
    BY <1>5, <1>7 DEF RankFits
  <2>4. CASE \A z \in Processes : Quietly(z)
    <3>1. Averaged(r, s, p)' <=> Averaged(r, s, p)
      BY <1>1, <1>5, <2>1, <2>3, <2>4, AveragedQuietly
    <3>2. Averaged(q, s, p)' <=> Averaged(q, s, p)
      BY <1>1, <1>7, <2>1, <2>2, <2>3, <2>4, AveragedQuietly
    <3> QED  BY <1>6, <3>1, <3>2
  <2>5. ASSUME NEW r0 \in Processes, MeetToAverage(r0), \A z \in Processes \ Replicas(r0) : Stays(z)
        PROVE  Averaged(r, s, p)' <=> Averaged(q, s, p)'
    <3>1. CASE r \in Replicas(r0)
      <4>1. Replicas(r) = Replicas(r0) /\ q \in Replicas(r0)
        BY <3>1, Twins
      <4>2. Makes(r) /\ Makes(q)
        <5>1. Makes(r)
          BY <1>7, <2>5, <3>1, SumIs
        <5>2. Makes(q)
          BY <1>7, <2>5, <4>1, SumIs
        <5> QED  BY <5>1, <5>2
      <4>3. Averaged(r, s, p)' <=> Averaged(r, s, p) \/ AtAverage(r, s, p)
        BY <1>1, <1>5, <2>1, <4>2, AveragedMakes
      <4>4. Averaged(q, s, p)' <=> Averaged(q, s, p) \/ AtAverage(q, s, p)
        BY <1>1, <1>7, <2>1, <4>2, AveragedMakes
      <4>5. ASSUME AtAverage(r, s, p) PROVE AtAverage(q, s, p)
        <5>1. step[r] = s /\ Given(r) = p
          BY <4>5 DEF AtAverage
        <5>2. Even(r, step[r])
          BY <1>5, <5>1
        <5>3. step[q] = s /\ Given(q) = p
          BY <2>3, <2>5, <3>1, <5>1, <5>2, SumIsWhole
        <5>4. AtAverage(q, step[q], Given(q))
          BY <2>5, <4>1, SumIs, <1>7
        <5> QED  BY <5>3, <5>4
      <4>6. ASSUME AtAverage(q, s, p) PROVE AtAverage(r, s, p)
        <5>1. step[q] = s /\ Given(q) = p
          BY <4>6 DEF AtAverage
        <5>2. Even(q, step[q])
          BY <1>7, <5>1
        <5>3. step[r] = s /\ Given(r) = p
          BY <1>7, <2>3, <2>5, <4>1, <5>1, <5>2, SumIsWhole
        <5>4. AtAverage(r, step[r], Given(r))
          BY <2>5, <3>1, <1>7, SumIs
        <5> QED  BY <5>3, <5>4
      <4> QED  BY <1>6, <4>3, <4>4, <4>5, <4>6
    <3>2. CASE r \notin Replicas(r0)
      <4>1. q \notin Replicas(r0)
        <5>1. SUFFICES ASSUME q \in Replicas(r0) PROVE FALSE
          OBVIOUS
        <5>2. Replicas(q) = Replicas(r0)
          BY <5>1, Twins
        <5> QED  BY <1>7, <3>2, <5>2
      <4>2. Stays(r) /\ Stays(q)
        BY <1>5, <1>7, <2>5, <3>2, <4>1
      <4> QED  BY <1>1, <1>6, <4>2, AveragedStays
    <3> QED  BY <3>1, <3>2
  <2> QED  BY <2>4, <2>5, NextAverages
<1> QED  BY <1>8, <1>9

\* It holds at the start.
LEMMA InitFits == Init => AverageInv
<1>1. SUFFICES ASSUME Init, Works PROVE Matched /\ \A r \in Processes : RankFits(r)
  BY DEF AverageInv
<1>2. \A r \in Processes : at[r] = "start" /\ step[r] = 0 /\ weights[r] = <<>>
  BY <1>1 DEF Init
<1>3. Matched
  <2>1. MeshInv
    BY <1>1, InitPlaced
  <2>2. \A s \in 1..MaxSteps : ~(s < 0) /\ s # 0
    OBVIOUS
  <2>3. ASSUME NEW r \in Processes, NEW s \in 1..MaxSteps, NEW p PROVE ~Averaged(r, s, p)
    BY <1>2, <2>2 DEF Averaged
  <2>4. \A r \in Processes : Replicas(r) \subseteq Processes
    BY DEF Replicas
  <2> QED  BY <2>3, <2>4 DEF Matched
<1>4. ASSUME NEW r \in Processes PROVE RankFits(r)
  <2>1. GradientsOf(r)
    BY <1>2 DEF GradientsOf, OnlyReached, Pending, SummedUp, Training
  <2>2. DOMAIN weights[r] = {}
    BY <1>2
  <2> QED  BY <2>1, <2>2 DEF RankFits, WeightsFit
<1> QED  BY <1>3, <1>4

\* No step spoils the gradients of a rank.
LEMMA NextFits ==
  ASSUME MeshInv, AverageInv, [Next]_vars
  PROVE  AverageInv'
<1>1. UNCHANGED job /\ Frame
  BY NextMoves
<1>2. Processes' = Processes /\ (Works' <=> Works)
  BY <1>1, SameJob
<1>3. ASSUME Works PROVE Matched' /\ \A r \in Processes : RankFits(r)'
  <2>1. Matched /\ \A r \in Processes : RankFits(r)
    BY <1>3 DEF AverageInv
  <2>2. Matched'
    BY <1>3, <2>1, MatchedStays
  <2>3. CASE \A r \in Processes : Quietly(r)
    BY <1>1, <2>1, <2>2, <2>3, FitsQuietly
  <2>4. ASSUME NEW r0 \in Processes, MeetToAverage(r0), \A q \in Processes \ Replicas(r0) : Stays(q),
               NEW r \in Processes
        PROVE  RankFits(r)'
    <3>1. CASE r \in Replicas(r0)
      BY <1>3, <2>1, <2>4, <3>1, FitsAverages
    <3>2. CASE r \notin Replicas(r0)
      BY <1>1, <2>1, <2>4, <3>2, FitsStays
    <3> QED  BY <3>1, <3>2
  <2> QED  BY <2>2, <2>3, <2>4, NextAverages
<1> QED  BY <1>2, <1>3 DEF AverageInv

\* Ranks that hold the same slice of the model apply the same gradients at every
\* step, whatever rank runs ahead, as long as the tokens reach the same experts
\* on all of them (ReplicasAgree).
THEOREM ReplicasAgreeAlways == Spec => []ReplicasAgree
<1>1. ASSUME MeshInv, AverageInv PROVE ReplicasAgree
  <2>1. SUFFICES ASSUME NEW r \in Processes, NEW i \in DOMAIN weights[r],
                        \A s \in 1..i : EvenStep(r, s)
                 PROVE  /\ weights[r][i] = Whole(r, i)
                        /\ \A q \in Replicas(r) : i \in DOMAIN weights[q] =>
                             weights[q][i] = weights[r][i]
    BY DEF ReplicasAgree
  <2>2. Placed(r)
    BY <1>1 DEF MeshInv
  <2>3. Works
    BY <2>1, <2>2 DEF Placed
  <2>4. \A q \in Processes : WeightsFit(q)
    BY <1>1, <2>3 DEF AverageInv, RankFits
  <2>5. Even(r, i)
    BY <2>1 DEF Even
  <2>6. weights[r][i] = Whole(r, i)
    BY <2>1, <2>4, <2>5 DEF WeightsFit
  <2>7. i \in 1..i
    <3>1. weights[r] \in Seq(Gradients(r))
      BY <2>2, <2>3 DEF Placed
    <3> QED  BY <2>1, <3>1
  <2>8. EvenStep(r, i)
    BY <2>1, <2>7
  <2>9. ASSUME NEW q \in Replicas(r), i \in DOMAIN weights[q]
        PROVE  weights[q][i] = weights[r][i]
    <3>1. q \in Processes /\ Even(q, i) /\ Whole(q, i) = Whole(r, i)
      BY <2>1, <2>5, <2>8, <2>9, Twins
    <3> QED  BY <2>4, <2>6, <2>9, <3>1 DEF WeightsFit
  <2> QED  BY <2>6, <2>9
<1>2. Spec => [](MeshInv /\ AverageInv)
  <2>1. Init => MeshInv /\ AverageInv
    BY InitPlaced, InitFits
  <2>2. (MeshInv /\ AverageInv) /\ [Next]_vars => (MeshInv /\ AverageInv)'
    BY NextPlaced, NextFits
  <2> QED  BY <2>1, <2>2, PTL DEF Spec
<1> QED  BY <1>1, <1>2, PTL
================================================================================
