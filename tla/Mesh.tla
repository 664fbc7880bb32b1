----------------------------------- MODULE Mesh -----------------------------------
(***************************************************************************)
(* A distributed training job: the processes of a mesh run the same loop   *)
(* (training/trainer.py), meet in collectives, hand activations and        *)
(* gradients from stage to stage (models/transformer.py) and write one     *)
(* checkpoint together (checkpointing/manager.py).                         *)
(*                                                                         *)
(* What a rank has still to do in the handler under way is a sequence of   *)
(* calls: a collective, which waits for all its ranks, a transfer, or a    *)
(* step of its own. Some collectives a rank leaves out when it has nothing *)
(* to give to them: where none of its experts got a token, or where a      *)
(* parameter got no gradient. The process group exists (external), and the *)
(* job resumes, so that all ranks use one directory; early stopping is off.*)
(***************************************************************************)
EXTENDS Loader

CONSTANTS
  Asks,                 \* a function: command lines, with the files they name,
                        \* how many processes they may be launched as and what
                        \* the router may do
  Routed(_, _, _, _),   \* of such a router: the experts that the tokens of a
                        \* place go to, by batch and layer
  MaxFailures           \* bound

ASSUME LaunchAssumption == \A a \in DOMAIN Asks : Asks[a].launched \subseteq Nat \ {0}

VARIABLES
  asked,     \* the command line
  config,    \* what it loads as
  world,     \* how many processes were launched
  router,    \* what the routers of this run will do
  at,        \* of each rank: the handler under way
  step,      \* its loop variable
  todo,      \* the calls left in that handler
  grads,     \* parameter -> the gradients summed up in its own, each by the
             \* parameter and the replica it is of; {} for None
  weights,   \* the gradients its optimizer applied, in order
  shards,    \* of each label: rank and file -> what is in it
  listed,    \* the hashes the ranks told each other in a save
  meta,      \* of each label: what rank 0's meta.json lists
  failed     \* ranks whose process died of an exception

job == <<asked, config, world, router>>
disk == <<shards, listed, meta>>
vars == <<job, at, step, todo, grads, weights, disk, failed>>

Processes == 0..world - 1

ask == Asks[asked]

model == Shape(config.model)
mesh == Sizes(config.distributed)
MaxSteps == config.training.max_steps

-----------------------------------------------------------------------------
(* Experts and parameters.                                                 *)

Accumulation == config.training.gradient_accumulation_steps

\* The batches of a step, counted through the run; an evaluation reads batch 0.
Batch(s, m) == (s - 1) * Accumulation + m
BatchesOf(s) == {Batch(s, m) : m \in 1..Accumulation}

\* How many experts a rank owns of a layer, and which.
OwnExperts == model.experts \div mesh.expert
OwnExpert(r, j) == ExpertRank(mesh, r) * OwnExperts + j

\* Where the tokens of a rank are: a rank whose sequence is cut has its own.
Place(r) ==
  <<DataRank(mesh, r), PipelineRank(mesh, r), IF mesh.sequence > 1 THEN TensorRank(mesh, r) ELSE 0>>

\* MixtureOfExperts.local_forward: of the experts the router picks for the
\* tokens of a batch in its i-th layer, a rank runs its own.
Ran(r, b, i) == ExpertsOf(mesh, model, r) \cap Routed(router, Place(r), b, i)

\* The loss has the term of the router.
Balanced ==
  model.experts > 1 /\ config.model.moe_aux_loss_coef > 0 /\ config.model.load_balancing_enabled

\* model.parameters(), layer after layer: what every token passes, the router,
\* and each expert of the rank.
PerLayer == IF model.experts = 1 THEN 1 ELSE 2 + OwnExperts
Parameters(r) == 1..LayersOf(mesh, model, r) * PerLayer

\* Those that get a gradient from a batch; the others keep grad = None.
ReachedBy(r, b) ==
  {p \in Parameters(r) :
     LET i == ((p - 1) \div PerLayer) + 1  part == (p - 1) % PerLayer
     IN \/ part = 0
        \/ part = 1 /\ (Balanced \/ Ran(r, b, i) # {})
        \/ part > 1 /\ OwnExpert(r, part - 2) \in Ran(r, b, i)}

Reached(r, s) == UNION {ReachedBy(r, b) : b \in BatchesOf(s)}

-----------------------------------------------------------------------------
(* Calls.                                                                  *)

Call(op, kind, ranks, of) == [op |-> op, kind |-> kind, peers |-> ranks, of |-> of]

Meet(kind, ranks) == Call("meet", kind, ranks, <<>>)
Send(rank) == Call("send", "", {rank}, <<>>)
Recv(rank) == Call("recv", "", {rank}, <<>>)
Do(what) == Call("do", what, {}, <<>>)
Backpropagate(b) == Call("do", "backward", {}, <<b>>)

\* A collective for the ranks that have something to give: `of` says what.
Try(kind, ranks, of) == Call("try", kind, ranks, of)

Only(condition, calls) == IF condition THEN calls ELSE <<>>

\* Lists of one length, one after another.
Joined(lists) ==
  LET joined[all \in {lists}] ==
        IF all = <<>> THEN <<>>
        ELSE [i \in 1..Len(all) * Len(all[1]) |->
                all[((i - 1) \div Len(all[1])) + 1][((i - 1) % Len(all[1])) + 1]]
  IN joined[lists]

\* init_parallel_groups: every rank makes every group.
MakeGroups ==
  [i \in DOMAIN AllGroups(mesh) |-> Meet("new group", Processes)]

Tensor(r) == Only(mesh.tensor > 1, <<Meet("tensor", Mine(TensorGroups(mesh), r))>>)
Sequence(r) == Only(mesh.sequence > 1, <<Meet("tensor", Mine(TensorGroups(mesh), r))>>)
Expert(r) == Only(mesh.expert > 1, <<Meet("expert", Mine(ExpertGroups(mesh), r))>>)

\* The linears of an expert are split too, and only run when it has tokens.
Experts(r, b, i) ==
  Only(model.experts > 1 /\ mesh.tensor > 1,
       [j \in 1..OwnExperts |-> Try("tensor", Mine(TensorGroups(mesh), r), <<b, i, OwnExpert(r, j - 1)>>)])

\* Feed-forward layers that every token passes.
Common(r) == Only(model.experts = 1 \/ config.model.num_shared_experts > 0, Tensor(r))

\* TransformerBlock.forward, of its i-th layer for batch b: the linears of
\* attention, the experts, whose outputs are summed, the feed-forward layer, and
\* the sequence put together again.
Block(r, b, i) == Tensor(r) \o Experts(r, b, i) \o Expert(r) \o Common(r) \o Sequence(r)

\* Its backward pass: the same collectives from the last to the first. Cutting
\* a sequence gradient needs none, the averaged loss of the router does; the
\* sum of the experts has a backward step only on a rank that ran one.
BlockBackward(r, b, i) ==
  Only(Balanced, Sequence(r)) \o Common(r)
  \o Only(mesh.expert > 1, <<Try("expert", Mine(ExpertGroups(mesh), r), <<b, i>>)>>)
  \o Experts(r, b, i) \o Tensor(r)

\* _pipeline_forward up to the loss, or forward() when there is one stage.
Forward(r, b) ==
  Only(~IsFirstStage(mesh, r), <<Recv(Prev(mesh, r))>>)
  \o Joined([i \in 1..LayersOf(mesh, model, r) |-> Block(r, b, i)])
  \o Only(~IsLastStage(mesh, r), <<Send(Next0(mesh, r))>>)

Backward(r, b) ==
  Only(~IsLastStage(mesh, r), <<Recv(Next0(mesh, r))>>)
  \o Joined([i \in 1..LayersOf(mesh, model, r) |->
               BlockBackward(r, b, LayersOf(mesh, model, r) + 1 - i)])
  \o <<Backpropagate(b)>>
  \o Only(~IsFirstStage(mesh, r), <<Send(Prev(mesh, r))>>)

\* sync_data_parallel_gradients: a collective for each parameter with a gradient.
SyncGradients(r) ==
  Only(DataGroups(mesh) # <<>>,
       [p \in Parameters(r) |-> Try("gradients", Mine(DataGroups(mesh), r), <<p>>)])

\* _train_step
TrainStep(r, s) ==
  <<Do("zero_grad")>>
  \o Joined([m \in 1..Accumulation |-> Forward(r, Batch(s, m)) \o Backward(r, Batch(s, m))])
  \o SyncGradients(r) \o <<Do("optimizer")>>

Sharded == WorldSize(mesh) > 1 /\ (mesh.tensor > 1 \/ mesh.pipeline > 1 \/ mesh.expert > 1)

\* _save_torch of each of the files of a shard.
ShardFiles == {"model.pt", "optim.pt", "rng.pt"}
WriteShard == <<Do("model.pt"), Do("optim.pt"), Do("rng.pt")>>

\* Mutant: rank 0 publishes before it has heard of the other shards.
SaveCalls_PublishFirst(r) ==
  IF ~Sharded THEN <<Do("save")>>
  ELSE WriteShard \o Only(r = 0, <<Do("meta")>>)
       \o <<Meet("hashes", Processes), Meet("barrier", Processes)>>

\* Mutant: the other ranks return before the barrier.
SaveCalls_ReturnEarly(r) ==
  IF ~Sharded THEN <<Do("save")>>
  ELSE WriteShard \o <<Meet("hashes", Processes)>>
       \o Only(r = 0, <<Meet("barrier", Processes), Do("meta")>>)

\* save_checkpoint and _write_snapshot: a job without shards saves on each of
\* its ranks, since every context is primary.
SaveCalls(r) ==
  IF ~Sharded THEN <<Do("save")>>
  ELSE WriteShard \o <<Meet("hashes", Processes), Meet("barrier", Processes)>>
       \o Only(r = 0, <<Do("meta")>>)

-----------------------------------------------------------------------------
(* The start of a job.                                                     *)

Labels == IF config = Refused THEN {} ELSE 1..MaxSteps

Init ==
  /\ asked \in DOMAIN Asks
  /\ config = Load(ask)
  /\ world \in ask.launched
  /\ router \in ask.routers
  /\ at = [r \in Processes |-> "start"]
  /\ step = [r \in Processes |-> 0]
  /\ todo = [r \in Processes |-> <<>>]
  /\ grads = [r \in Processes |-> <<>>]
  /\ weights = [r \in Processes |-> <<>>]
  /\ shards = [l \in Labels |-> <<>>]
  /\ listed = <<>>
  /\ meta = [l \in Labels |-> <<>>]
  /\ failed = {}

Enter(r, handler, calls) ==
  /\ at' = [at EXCEPT ![r] = handler]
  /\ todo' = [todo EXCEPT ![r] = calls]

\* The handler of rank r under way has returned.
Returned(r) == r \notin failed /\ todo[r] = <<>>

\* The command loads the configuration; build_trainable_model compares its mesh
\* with the processes there are.
Start(r) ==
  /\ Returned(r) /\ at[r] = "start"
  /\ IF config = Refused \/ WorldSize(mesh) # world THEN Enter(r, "refused", <<>>)
     ELSE Enter(r, "groups", MakeGroups)
  /\ UNCHANGED <<job, step, grads, weights, disk, failed>>

\* FontaineModel.__init__: with stages, no rank owns both ends of the model.
Tied == config # Refused /\ config.model.tie_word_embeddings /\ mesh.pipeline > 1

Refuse(r) ==
  /\ Returned(r) /\ at[r] = "groups" /\ Tied
  /\ Enter(r, "refused", <<>>)
  /\ UNCHANGED <<job, step, grads, weights, disk, failed>>

EvalDue(s) == Divides(config.training.eval_interval, s) \/ s = MaxSteps
SaveDue(s) == Divides(config.training.checkpoint_interval, s)

\* The loop of fit().
NextStep(r) ==
  /\ Returned(r)
  /\ \/ at[r] = "groups" /\ ~Tied
     \/ at[r] = "save"
     \/ at[r] = "eval" /\ ~SaveDue(step[r])
     \/ at[r] = "train" /\ ~EvalDue(step[r]) /\ ~SaveDue(step[r])
  /\ IF step[r] < MaxSteps
     THEN /\ step' = [step EXCEPT ![r] = @ + 1]
          /\ Enter(r, "train", TrainStep(r, step[r] + 1))
     ELSE /\ UNCHANGED step
          /\ Enter(r, "final", SaveCalls(r))
  /\ UNCHANGED <<job, grads, weights, disk, failed>>

Evaluate(r) ==
  /\ Returned(r) /\ at[r] = "train" /\ EvalDue(step[r])
  /\ Enter(r, "eval", Forward(r, 0))
  /\ UNCHANGED <<job, step, grads, weights, disk, failed>>

Save(r) ==
  /\ Returned(r)
  /\ \/ at[r] = "eval"
     \/ at[r] = "train" /\ ~EvalDue(step[r])
  /\ SaveDue(step[r])
  /\ Enter(r, "save", SaveCalls(r))
  /\ UNCHANGED <<job, step, grads, weights, disk, failed>>

Finish(r) ==
  /\ Returned(r) /\ at[r] = "final"
  /\ Enter(r, "done", <<>>)
  /\ UNCHANGED <<job, step, grads, weights, disk, failed>>

-----------------------------------------------------------------------------
(* The calls.                                                              *)

Due(r) == r \notin failed /\ todo[r] # <<>>

Done(ranks) == [r \in DOMAIN todo |-> IF r \in ranks THEN Tail(todo[r]) ELSE todo[r]]

\* A rank has nothing to give to the call it has come to: the sum of experts
\* none of which ran, the linears of an expert that did not run, a parameter
\* whose grad is None.
LeavesOut(r) ==
  LET call == Head(todo[r])  of == call.of
  IN /\ call.op = "try"
     /\ \/ call.kind = "expert" /\ Ran(r, of[1], of[2]) = {}
        \/ call.kind = "tensor" /\ of[3] \notin Ran(r, of[1], of[2])
        \/ call.kind = "gradients" /\ grads[r][of[1]] = {}

Skip(r) ==
  /\ Due(r) /\ LeavesOut(r)
  /\ todo' = Done({r})
  /\ UNCHANGED <<job, at, step, grads, weights, disk, failed>>

Joins(r) == Due(r) /\ Head(todo[r]).op \in {"meet", "try"} /\ ~LeavesOut(r)

Label(r) == step[r]

\* The all_reduce of gradients sums up what each rank hands it, whatever
\* parameter that is the gradient of.
Summed(ranks) ==
  LET given(p) == Head(todo[p]).of[1]
  IN [q \in DOMAIN grads |->
        IF q \in ranks
        THEN [grads[q] EXCEPT ![given(q)] = UNION {grads[p][given(p)] : p \in ranks}]
        ELSE grads[q]]

\* A collective completes when all ranks of its group are in one: the group does
\* not compare what they are in it for.
Collective ==
  \E r \in Processes :
    LET call == Head(todo[r])
    IN /\ Joins(r)
       /\ \A q \in call.peers :
            Joins(q) /\ Head(todo[q]).kind = call.kind /\ Head(todo[q]).peers = call.peers
       /\ todo' = Done(call.peers)
       /\ grads' = IF call.kind = "gradients" THEN Summed(call.peers) ELSE grads
       /\ listed' = IF call.kind = "hashes"
                    THEN [file \in Processes \X ShardFiles |-> shards[Label(file[1])][file]]
                    ELSE listed
  /\ UNCHANGED <<job, at, step, weights, shards, meta, failed>>

\* dist.send waits for the matching recv.
Transfer ==
  \E r, q \in Processes :
    /\ Due(r) /\ Head(todo[r]) = Send(q)
    /\ Due(q) /\ Head(todo[q]) = Recv(r)
    /\ todo' = Done({r, q})
  /\ UNCHANGED <<job, at, step, grads, weights, disk, failed>>

\* What is in a file: these weights, or nothing that can be read.
Holds(w) == <<w>>
Torn == <<>>

\* A directory in which some files have been written again.
Written(files, these, content) ==
  [file \in DOMAIN files \cup these |-> IF file \in these THEN content ELSE files[file]]

\* zero_grad(), which sets them to None.
NoGradients(r) == [p \in Parameters(r) |-> {}]

\* backward(): the gradients of a batch are added to those there are.
Added(r, b) ==
  [p \in Parameters(r) |->
     grads[r][p] \cup (IF p \in ReachedBy(r, b) THEN {<<p, DataRank(mesh, r)>>} ELSE {})]

\* What a rank does alone.
Local(r) ==
  /\ Due(r) /\ Head(todo[r]).op = "do"
  /\ todo' = Done({r})
  /\ LET call == Head(todo[r])
         what == call.kind
         own  == {r} \X ShardFiles
     IN /\ grads' = IF what = "zero_grad" THEN [grads EXCEPT ![r] = NoGradients(r)]
                    ELSE IF what = "backward" THEN [grads EXCEPT ![r] = Added(r, call.of[1])]
                    ELSE grads
        /\ weights' = IF what = "optimizer"
                      THEN [weights EXCEPT ![r] = Append(@, grads[r])] ELSE weights
        /\ shards' = IF what \in ShardFiles
                     THEN [shards EXCEPT ![Label(r)] = Written(@, {<<r, what>>}, Holds(weights[r]))]
                     ELSE IF what = "save"
                     THEN [shards EXCEPT ![Label(r)] = Written(@, own, Holds(weights[r]))] ELSE shards
        /\ meta' = IF what = "meta" THEN [meta EXCEPT ![Label(r)] = listed]
                   ELSE IF what = "save"
                   THEN [meta EXCEPT ![Label(r)] = Written(<<>>, own, Holds(weights[r]))]
                   ELSE meta
  /\ UNCHANGED <<job, at, step, listed, failed>>

\* A rank raises on its own: no memory, no space for a file of its shard, which
\* torch.save has emptied by then.
Fail(r) ==
  /\ Due(r) /\ Head(todo[r]).op = "do"
  /\ Cardinality(failed) < MaxFailures
  /\ failed' = failed \cup {r}
  /\ \/ UNCHANGED shards
     \/ /\ Head(todo[r]).kind \in ShardFiles
        /\ shards' = [shards EXCEPT ![Label(r)] = Written(@, {<<r, Head(todo[r]).kind>>}, Torn)]
  /\ UNCHANGED <<job, at, step, todo, grads, weights, listed, meta>>

Rank(r) ==
  \/ Start(r) \/ Refuse(r) \/ NextStep(r) \/ Evaluate(r) \/ Save(r) \/ Finish(r)
  \/ Skip(r) \/ Local(r) \/ Fail(r)

Next == Collective \/ Transfer \/ \E r \in Processes : Rank(r)

\* Every process is scheduled, and a call that can complete does.
Spec ==
  /\ Init /\ [][Next]_vars
  /\ WF_vars(Collective) /\ WF_vars(Transfer)
  /\ WF_vars(\E r \in Processes : Start(r) \/ Refuse(r) \/ NextStep(r) \/ Evaluate(r)
                              \/ Save(r) \/ Finish(r) \/ Skip(r) \/ Local(r))

-----------------------------------------------------------------------------
(* Properties.                                                             *)

SameShard(r, q) ==
  /\ TensorRank(mesh, r) = TensorRank(mesh, q)
  /\ PipelineRank(mesh, r) = PipelineRank(mesh, q)
  /\ ExpertRank(mesh, r) = ExpertRank(mesh, q)

\* The replicas of a slice.
Replicas(r) == {q \in Processes : SameShard(r, q)}

\* The tokens of a step reach the same parameters on all replicas of a slice.
EvenStep(r, s) == \A q \in Replicas(r) : Reached(q, s) = Reached(r, s)

\* What all replicas together have for the parameters a step reaches, and no gradient for the others.
Whole(r, s) ==
  [p \in Parameters(r) |->
     IF p \in Reached(r, s) THEN {<<p, DataRank(mesh, q)>> : q \in Replicas(r)} ELSE {}]

\* Ranks that hold the same slice of the model apply the same gradients: those
\* of every replica, of each parameter its own, at every step, whatever rank
\* runs ahead. It stands as long as the tokens have reached the same experts on
\* all replicas: sync_data_parallel_gradients leaves out the others, and the
\* collectives after them pair different parameters.
ReplicasAgree ==
  \A r \in Processes : \A i \in DOMAIN weights[r] : (\A s \in 1..i : EvenStep(r, s)) =>
    /\ weights[r][i] = Whole(r, i)
    /\ \A q \in Replicas(r) : i \in DOMAIN weights[q] => weights[q][i] = weights[r][i]

\* The last save is due, and fit() saves again under its label.
Rewritten(l) == l = MaxSteps /\ SaveDue(l)

\* A meta.json that is there lists every file of the shard of every rank, all of
\* the step it names and as they are on disk. Only the second save under the
\* last label may spoil them: a file is not as listed where a rank has died of
\* writing it again.
MetaListsOneStep ==
  config # Refused /\ Sharded => \A l \in Labels : meta[l] # <<>> =>
    /\ DOMAIN meta[l] = Processes \X ShardFiles
    /\ \A file \in DOMAIN meta[l] :
         /\ Len(meta[l][file]) = 1 /\ Len(meta[l][file][1]) = l
         /\ \/ shards[l][file] = meta[l][file]
            \/ /\ shards[l][file] = Torn /\ Rewritten(l)
               /\ at[file[1]] = "final" /\ file[1] \in failed

\* Ranks that work together go through the same collectives: no rank of an
\* expert group is without a token while another has some, ranks that share a
\* layer run the same experts of it, and the replicas of a slice have gradients
\* for the same parameters.
EvenTokens ==
  /\ \A r \in Processes : \A s \in 1..MaxSteps : EvenStep(r, s)
  /\ \A group \in ToSet(ExpertGroups(mesh)) : \A r, q \in group :
       \A b \in 1..MaxSteps * Accumulation : \A i \in 1..LayersOf(mesh, model, r) :
         Ran(r, b, i) = {} <=> Ran(q, b, i) = {}
  /\ \A group \in ToSet(TensorGroups(mesh)) : \A r, q \in group :
       \A b \in 0..MaxSteps * Accumulation : \A i \in 1..LayersOf(mesh, model, r) :
         Ran(r, b, i) = Ran(q, b, i)

\* Unless a rank dies, every rank comes to its end: the collectives match, the
\* stages hand over in an order that works, and a mesh the planner proposes for
\* as many processes, and a model with a head of its own, is one that runs. A
\* model with experts does not run on when the tokens of a batch are uneven.
EveryRankEnds ==
  <>(\/ failed # {}
     \/ config # Refused /\ WorldSize(mesh) = world /\ model.experts > 1 /\ ~EvenTokens
     \/ \A r \in Processes :
          at[r] = "done" \/ (at[r] = "refused" /\ (ask.planned # world \/ Tied)))

-----------------------------------------------------------------------------
(* What the configuration promises.                                        *)

Starting == \A r \in Processes : at[r] = "start"

\* The mappings of a command line from the first to the last, each value under
\* the name of its field. Blocks of files and profiles replace earlier ones;
\* an override adds to them.
Chain(files, file) ==
  LET chain[name \in DOMAIN files] ==
        LET parent == files[name].extends
        IN Append(IF parent = NoFile THEN <<>> ELSE chain[parent],
                  Rename(Folded, files[name].sections))
  IN chain[file]

\* The profile the command line asks for, or the last one a file names.
Selected(a) ==
  IF a.profile # NoProfile THEN a.profile
  ELSE LET named == SelectSeq([i \in DOMAIN a.files |-> Prepare(a.disk, a.files[i]).profile],
                              LAMBDA name : name # NoProfile)
       IN IF named = <<>> THEN NoProfile ELSE Last(named)

\* The bodies of a profile, in the one file that has it.
Body(known, name) ==
  IF name = NoProfile THEN <<>>
  ELSE <<Rename(Folded, known[CHOOSE n \in DOMAIN known : name \in DOMAIN known[n].profiles]
                          .profiles[name])>>

Layers(a) ==
  FlattenSeq([i \in DOMAIN a.files |-> Chain(a.disk, a.files[i])]) \o Body(a.disk, Selected(a))

Overridden(a) ==
  LET sets == a.env \o a.set IN [i \in DOMAIN sets |-> sets[i].place :> sets[i].value]

\* The values that files, then overrides, give a field. A block of a file stands
\* unless a later file replaces it.
Words(files, overrides, field) ==
  LET stands(i, p) == \A j \in i + 1..Len(files) : \A q \in DOMAIN files[j] : SlotOf(q) # SlotOf(p)
      said(layer) == {p \in DOMAIN layer : Renamed(Flattened, p) = field}
      words(layer, places) == SetToSeq({layer[p] : p \in places})
  IN FlattenSeq([i \in DOMAIN files |-> words(files[i], {p \in said(files[i]) : stands(i, p)})])
     \o FlattenSeq([i \in DOMAIN overrides |-> words(overrides[i], said(overrides[i]))])

\* Each field of a configuration that loads has the value of the last layer
\* that gives it one, under any of the names that layer may use for it: the
\* parent of a file, the file, a later file, the profile, the environment, the
\* command line. Nothing is lost in a merge, and nothing arrives that nobody
\* asked for. A name the code does not know at that place, like optimizer.x in
\* the environment or on the command line, gives no field a value: it is dropped
\* without a word.
LastWordWins ==
  Starting /\ config # Refused =>
    \A a \in {ask} : \A files \in {Layers(a)}, overrides \in {Overridden(a)} :
      \A s \in Sections : \A k \in DOMAIN Defaults[s] :
        LET words == Words(files, overrides, <<s, k>>)
        IN config[s][k] = IF words = <<>> THEN Defaults[s][k] ELSE Last(words)

\* What the other components take for granted about a configuration holds of
\* every one that loads: intervals a loop can divide by, a window where a layer
\* looks back over one, a shard that holds a sequence, a sequence the model has
\* positions for, a layer for each stage and an owner for each expert.
AcceptedIsUsable ==
  Starting /\ config # Refused =>
    LET m == config.model  t == config.training  d == config.data
    IN /\ {t.max_steps, t.eval_interval, t.checkpoint_interval, t.log_interval,
            t.keep_last_n_checkpoints, t.gradient_accumulation_steps} \subseteq Nat \ {0}
       /\ t.early_stopping_patience \in Nat
       /\ d.sequence_length \in 1..m.max_sequence_length
       /\ d.shard_size_tokens >= d.sequence_length
       /\ \A layer \in 0..m.num_layers - 1 :
            /\ LayerKind(m, layer) = "sliding" => m.sliding_window >= 1
            /\ LayerKind(m, layer) = "sparse" /\ m.sparse_pattern # "block" => Span(m) >= 1
       /\ \A r \in Ranks(mesh) : LayersOf(mesh, model, r) >= 1
       /\ \A r \in Ranks(mesh), e \in 0..model.experts - 1 :
            \E q \in Ranks(mesh) :
              /\ DataRank(mesh, q) \div mesh.expert = DataRank(mesh, r) \div mesh.expert
              /\ PipelineRank(mesh, q) = PipelineRank(mesh, r)
              /\ e \in ExpertsOf(mesh, model, q)
       /\ config.inference.speculative_tokens > 0 <=> config.inference.draft_checkpoint # ""
================================================================================
