---------------------------------- MODULE MCMesh ----------------------------------
(* Small configurations and command lines for Mesh. *)
EXTENDS Mesh

File(extends, sections) ==
  [extends |-> extends, sections |-> sections, profiles |-> Empty, profile |-> NoProfile]

\* Which experts get tokens, by replica, stage and part of the sequence, and by
\* batch: all; always the first; one for each replica; all for some and one for
\* the others; and all in the first step, then one, by replica and part.
MCRouted(name, place, batch, layer) ==
  CASE name = "all" -> {0, 1}
    [] name = "first" -> {0}
    [] name = "own" -> {place[1] % 2}
    [] name = "fewer" -> IF place[1] + place[3] = 0 THEN {0, 1} ELSE {0}
    [] name = "apart" -> IF batch < 3 THEN {0, 1} ELSE {(place[1] + place[3]) % 2}

Set(section, key, value) == [place |-> <<section, key>>, value |-> value]

\* A model of four layers and two steps of training, in the format of the files.
Small ==
  <<"model", "tie_word_embeddings">> :> FALSE
  @@ <<"model", "num_layers">> :> 3 @@ <<"model", "hidden_size">> :> 8
  @@ <<"model", "num_kv_heads">> :> 2 @@ <<"model", "intermediate_size">> :> 4
  @@ <<"model", "max_sequence_length">> :> 4
  @@ <<"data", "sequence_length">> :> 2 @@ <<"data", "shard_size_tokens">> :> 4
  @@ <<"training", "max_steps">> :> 2 @@ <<"training", "eval_interval">> :> 2
  @@ <<"training", "checkpoint_interval">> :> 1
  @@ <<"training", "gradient_accumulation_steps">> :> 2
  @@ <<"optimizer", "learning_rate">> :> 5

Sparse ==
  <<"model", "architecture">> :> "moe_decoder" @@ <<"model", "num_experts">> :> 2
  @@ <<"model", "num_attention_heads">> :> 1 @@ <<"model", "num_kv_heads">> :> 1
  @@ <<"model", "num_layers">> :> 1

Disk ==
  "small" :> File(NoFile, Small)
  @@ "moe" :> File("small", Sparse)
  @@ "heads" :> File("moe", <<"model", "num_attention_heads">> :> 2
                            @@ <<"model", "num_kv_heads">> :> 2)
  @@ "quiet" :> File("heads", <<"model", "moe_aux_loss_coef">> :> 0)
  @@ "tied" :> File("small", <<"model", "tie_word_embeddings">> :> TRUE)
  @@ "local" :> [File("small", <<"model", "attention", "type">> :> "gqa"
                               @@ <<"training", "learning_rate">> :> 6)
                 EXCEPT !.profiles = "quick" :> (<<"training", "max_steps">> :> 1
                                                 @@ <<"training", "eval_interval">> :> 1)
                                     @@ "torn" :> (<<"optimizer", "eps">> :> 2
                                                   @@ <<"training", "adam_eps">> :> 3),
                        !.profile = "quick"]
  @@ "window" :> File(NoFile, <<"model", "attention", "backend">> :> "reference"
                              @@ <<"model", "sliding_window">> :> 2
                              @@ <<"scheduler", "warmup_steps">> :> 1)
  @@ "loop" :> File("pool", <<"training", "max_steps">> :> 1)
  @@ "pool" :> File("loop", <<"training", "max_steps">> :> 1)

Ask(files, profile, env, set) ==
  [disk |-> Disk, files |-> files, profile |-> profile, env |-> env, set |-> set,
   launched |-> {1}, planned |-> 0, routers |-> {"all"}]

Environment ==
  "none" :> <<>>
  @@ "some" :> <<Set("training", "max_steps", 2), Set("training", "learning_rate", 7)>>

CommandLine ==
  "none" :> <<>>
  @@ "steps" :> <<Set("training", "max_steps", 1)>>
  @@ "block" :> <<[place |-> <<"model", "attention", "backend">>, value |-> "optimized"]>>
  @@ "alias" :> <<Set("model", "attention_type", "standard")>>

\* Every order of layers.
Layered ==
  [name \in {<<"small">>, <<"moe">>, <<"local">>, <<"local", "window">>, <<"window", "local">>,
             <<"local", "moe">>, <<"loop">>, <<"gone">>}
            \X {NoProfile, "quick", "torn", "none"} \X {"none", "some"} \X {"none", "steps", "block", "alias"}
     |-> Ask(name[1], name[2], Environment[name[3]], CommandLine[name[4]])]

With(set) == Ask(<<"small">>, NoProfile, <<>>, set)

\* One field at a time at and beyond its limits.
Strange ==
  [name \in
     {"training"} \X {"max_steps", "eval_interval", "checkpoint_interval", "log_interval",
        "keep_last_n_checkpoints", "gradient_accumulation_steps", "early_stopping_patience",
        "warmup_steps"} \X {-1, 0, 1}
     \cup {"model"} \X {"num_layers", "num_kv_heads", "explicit_head_dim", "num_experts",
        "num_experts_per_token", "sliding_window", "global_attention_every"} \X {-1, 0, 1, 2, 3}
     \cup {"data"} \X {"sequence_length", "shard_size_tokens"} \X (0..5)
     |-> With(<<Set(name[1], name[2], name[3])>>)]
  @@ [name \in {<<"full", "sliding">>, <<"sparse">>, <<"sliding", "sparse", "full">>}
               \X {"local", "block", "hybrid"} \X {0, 2} \X {0, 1} \X {0}
     |-> With(<<Set("model", "layer_pattern", name[1]), Set("model", "sparse_pattern", name[2]),
                Set("model", "sliding_window", name[3]), Set("model", "sparse_window", name[4])>>)]
  @@ [name \in {0, 2} \X {"", "draft"}
     |-> With(<<Set("inference", "speculative_tokens", name[1]),
                Set("inference", "draft_checkpoint", name[2])>>)]

MCWorlds == 1..4

Parallel(sizes) ==
  [Ask(<<sizes[6]>>, NoProfile, <<>>,
       <<Set("distributed", "data_parallel_size", sizes[1]),
         Set("distributed", "tensor_parallel_size", sizes[2]),
         Set("distributed", "pipeline_parallel_size", sizes[3]),
         Set("distributed", "sequence_parallel_size", sizes[4]),
         Set("distributed", "expert_parallel_size", sizes[5])>>)
   EXCEPT !.launched = MCWorlds]

Meshes ==
  [sizes \in {<<2, 1, 1, 1, 1, "small">>, <<1, 2, 1, 1, 1, "small">>, <<1, 1, 3, 1, 1, "small">>,
              <<1, 1, 4, 1, 1, "small">>, <<1, 1, 2, 1, 1, "tied">>, <<2, 1, 2, 1, 1, "small">>, <<1, 2, 1, 3, 1, "small">>,
              <<1, 3, 1, 1, 1, "small">>, <<3, 1, 1, 1, 2, "moe">>}
     |-> Parallel(sizes)]

\* Experts on replicas, in groups of their own, behind split linears and with a
\* split sequence.
Routings ==
  LET routers == <<2, 1, 1, 1, 1, "moe">> :> {"first", "own", "fewer", "apart"}
                 @@ <<2, 1, 1, 1, 2, "moe">> :> {"first", "own"}
                 @@ <<4, 1, 1, 1, 2, "moe">> :> {"own"}
                 @@ <<1, 2, 1, 1, 1, "heads">> :> {"all", "first"}
                 @@ <<1, 2, 1, 2, 1, "heads">> :> {"fewer", "apart"}
                 @@ <<1, 2, 1, 2, 1, "quiet">> :> {"all", "first"}
  IN [sizes \in DOMAIN routers |-> [Parallel(sizes) EXCEPT !.routers = routers[sizes]]]

\* What the planner proposes for each model and process count.
Planned ==
  [job0 \in MCWorlds \X {"small", "moe"} |->
     LET shape == Shape(Load(Ask(<<job0[2]>>, NoProfile, <<>>, <<>>)).model)
         plan  == Plan(shape, job0[1])
     IN [Parallel(<<plan.data, plan.tensor, plan.pipeline, plan.sequence, plan.expert, job0[2]>>)
         EXCEPT !.planned = job0[1]]]

MCAsks == Layered @@ Strange @@ Meshes @@ Routings @@ Planned
==================================================================================
