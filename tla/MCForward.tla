-------------------------------- MODULE MCForward --------------------------------
(* Small models for Forward: every kind of layer, and mixtures of experts. *)
EXTENDS Forward, TLC

Plain == [Defaults.model EXCEPT !.num_layers = NumLayers, !.max_sequence_length = Window,
                                !.sliding_window = 2, !.sparse_block_size = 2, !.sparse_stride = 2]

Layered == [Plain EXCEPT !.layer_pattern = <<"full", "sliding">>]
Every == [Plain EXCEPT !.global_attention_every = 2, !.sliding_window = 3,
                       !.attention_backend = "reference"]
Mixed(pattern, experts, chosen, capacity, kernel) ==
  [Plain EXCEPT !.layer_pattern = <<"sliding", "sparse">>, !.sparse_window = 1,
                !.sparse_pattern = pattern, !.architecture = "moe_decoder", !.kernel = kernel,
                !.num_experts = experts, !.num_experts_per_token = chosen,
                !.expert_capacity_factor = capacity]

MCModels ==
  {Layered, Every, Mixed("local", 3, 1, 0, "auto"), Mixed("block", 2, 1, 0, "reference"),
   Mixed("strided", 3, 2, 0, "optimized"), Mixed("global-local", 3, 2, 50, "auto"),
   Mixed("hybrid", 2, 2, 0, "auto")}

MCScores == [t \in Vocabulary |-> IF t = CHOOSE u \in Vocabulary : TRUE
                              THEN 0 :> 40 @@ 1 :> 30 @@ 2 :> 20
                              ELSE 0 :> 1 @@ 1 :> 50 @@ 2 :> 29]
================================================================================
