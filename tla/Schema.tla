--------------------------------- MODULE Schema ---------------------------------
(***************************************************************************)
(* The configuration (config/schema.py): its sections and defaults, and    *)
(* the validate() of each section. A configuration is a record of records. *)
(* Numbers with a fraction are in hundredths; a list is a sequence.        *)
(***************************************************************************)
EXTENDS Topology

\* Names of the fields of ModelConfig the mesh modules use.
Shape(model) ==
  [layers |-> model.num_layers, heads |-> model.num_attention_heads,
   kvHeads |-> model.num_kv_heads, width |-> model.intermediate_size,
   expertWidth |-> IF model.expert_intermediate_size > 0
                   THEN model.expert_intermediate_size ELSE model.intermediate_size,
   experts |-> model.num_experts, maxLength |-> model.max_sequence_length]

Sizes(distributed) ==
  [data |-> distributed.data_parallel_size, tensor |-> distributed.tensor_parallel_size,
   pipeline |-> distributed.pipeline_parallel_size,
   sequence |-> distributed.sequence_parallel_size, expert |-> distributed.expert_parallel_size]

\* The defaults of the dataclasses, without the fields nothing is decided by.
Defaults ==
  [model |->
     [architecture |-> "decoder_transformer", hidden_size |-> 256, num_layers |-> 4,
      num_attention_heads |-> 4, num_kv_heads |-> 4, explicit_head_dim |-> 0,
      intermediate_size |-> 768, max_sequence_length |-> 256, dropout |-> 0,
      num_experts |-> 1, num_experts_per_token |-> 1, num_shared_experts |-> 0,
      expert_intermediate_size |-> 0, expert_capacity_factor |-> 0, moe_aux_loss_coef |-> 1,
      tie_word_embeddings |-> TRUE, load_balancing_enabled |-> TRUE, router_type |-> "top_k",
      attention_type |-> "auto", attention_backend |-> "auto", kernel |-> "auto",
      sliding_window |-> 0, global_attention_every |-> 0, layer_pattern |-> <<>>,
      sparse_pattern |-> "local", sparse_block_size |-> 64, sparse_stride |-> 16,
      sparse_window |-> 0, sparse_global_tokens |-> 1,
      rope_scaling_type |-> "none", rope_scaling_factor |-> 100,
      rope_original_context_length |-> 0, modalities |-> <<"text">>],
   tokenizer |-> [type |-> "char", vocab_size |-> 4096, special_tokens |-> <<>>],
   data |->
     [raw_paths |-> <<>>, mixture |-> <<>>, val_fraction |-> 5, min_document_chars |-> 32,
      max_document_chars |-> 1000000, sequence_length |-> 256, shard_size_tokens |-> 5000000,
      dtype |-> "auto", near_dedup_max_distance |-> 3, script_filter |-> "",
      contamination_shingle_fraction |-> 80],
   training |->
     [device |-> "auto", max_steps |-> 1000, batch_size |-> 8, gradient_accumulation_steps |-> 1,
      learning_rate |-> 3, min_learning_rate_ratio |-> 10, lr_scheduler |-> "cosine",
      warmup_steps |-> 50, weight_decay |-> 10, adam_beta1 |-> 90, adam_beta2 |-> 95,
      adam_eps |-> 1, optimizer |-> "adamw", precision |-> "auto", stage |-> "pretraining",
      sharding |-> "none", log_interval |-> 10, eval_interval |-> 100,
      checkpoint_interval |-> 200, keep_last_n_checkpoints |-> 2, early_stopping_patience |-> 0],
   evaluation |-> [split |-> "val"],
   inference |->
     [temperature |-> 80, top_k |-> 0, top_p |-> 100, repetition_penalty |-> 100,
      max_new_tokens |-> 256, precision |-> "auto", num_threads |-> 0, kv_cache |-> "static",
      speculative_tokens |-> 0, draft_checkpoint |-> "", expert_budget_mb |-> 0],
   distributed |->
     [data_parallel_size |-> 1, tensor_parallel_size |-> 1, pipeline_parallel_size |-> 1,
      sequence_parallel_size |-> 1, expert_parallel_size |-> 1]]

-----------------------------------------------------------------------------
(* ModelConfig.                                                            *)

LayerKinds == {"full", "sliding", "sparse"}

HeadsFit(m) ==
  /\ IF m.explicit_head_dim = 0 THEN Divides(m.num_attention_heads, m.hidden_size)
     ELSE m.explicit_head_dim >= 1 /\ Divides(2, m.explicit_head_dim)
  /\ m.num_kv_heads >= 1 /\ Divides(m.num_kv_heads, m.num_attention_heads)

ExpertsFit(m) ==
  /\ m.num_experts_per_token \in 1..m.num_experts
  /\ m.architecture = "decoder_transformer" =>
       /\ m.num_experts = 1 /\ m.num_shared_experts = 0
       /\ m.expert_intermediate_size = 0 /\ m.expert_capacity_factor = 0
  /\ m.architecture = "moe_decoder" => m.num_experts >= 2
  /\ m.router_type = "top_k"
  /\ {m.num_shared_experts, m.expert_intermediate_size, m.expert_capacity_factor,
      m.moe_aux_loss_coef} \subseteq Nat

Span(m) == IF m.sparse_window # 0 THEN m.sparse_window ELSE m.sliding_window

\* Mutant: the window a sparse layer needs is not asked for.
SpansFit_NoSparse(m) ==
  "sliding" \in ToSet(m.layer_pattern) => m.sliding_window >= 1

\* A layer that looks back over a window has one.
SpansFit(m) ==
  /\ (m.attention_type = "sparse" \/ "sparse" \in ToSet(m.layer_pattern))
       /\ m.sparse_pattern # "block" => Span(m) >= 1
  /\ "sliding" \in ToSet(m.layer_pattern) => m.sliding_window >= 1

\* _validate_attention
AttentionFits(m) ==
  /\ m.attention_type \in {"auto", "standard", "gqa", "sliding_window", "sparse", "hybrid"}
  /\ m.attention_backend \in {"auto", "optimized", "reference", "flash"}
  /\ m.kernel \in {"auto", "optimized", "reference"}
  /\ m.sparse_pattern \in {"local", "block", "strided", "global-local", "hybrid"}
  /\ {m.sparse_block_size, m.sparse_stride} \subseteq Nat \ {0}
  /\ {m.sparse_window, m.sparse_global_tokens} \subseteq Nat
  /\ m.layer_pattern \in Seq(LayerKinds)
  /\ m.layer_pattern = <<>> \/ m.global_attention_every = 0
  /\ m.attention_type = "standard" => m.num_kv_heads = m.num_attention_heads
  /\ m.attention_type = "sliding_window" => m.sliding_window >= 1
  /\ m.attention_type = "hybrid" => m.layer_pattern # <<>>
  /\ m.attention_type = "sparse" => ToSet(m.layer_pattern) \subseteq {"sparse"}
  /\ SpansFit(m)

\* _validate_rope_original_context; the tolerance is below a hundredth.
RopeFits(m) ==
  LET original == m.rope_original_context_length
  IN /\ original >= 0
     /\ original > 0 =>
          IF m.rope_scaling_type = "none" THEN original = m.max_sequence_length
          ELSE /\ original <= m.max_sequence_length
               /\ m.rope_scaling_factor * original = 100 * m.max_sequence_length

ModelFits(m) ==
  /\ m.architecture \in {"decoder_transformer", "moe_decoder"}
  /\ {m.hidden_size, m.num_layers, m.num_attention_heads, m.intermediate_size,
      m.num_experts, m.max_sequence_length} \subseteq Nat \ {0}
  /\ m.max_sequence_length >= 2
  /\ m.dropout \in 0..99
  /\ {m.sliding_window, m.global_attention_every} \subseteq Nat
  /\ m.rope_scaling_type \in {"none", "linear", "ntk"} /\ m.rope_scaling_factor >= 100
  /\ ToSet(m.modalities) = {"text"}
  /\ HeadsFit(m) /\ ExpertsFit(m) /\ AttentionFits(m) /\ RopeFits(m)

\* layer_window and layer_kind; layers count from 0.
LayerWindow(m, layer) ==
  IF \/ m.sliding_window <= 0
     \/ m.global_attention_every > 0 /\ Divides(m.global_attention_every, layer + 1)
  THEN 0 ELSE m.sliding_window

LayerKind(m, layer) ==
  IF m.layer_pattern # <<>> THEN m.layer_pattern[(layer % Len(m.layer_pattern)) + 1]
  ELSE IF m.attention_type = "sparse" THEN "sparse"
  ELSE IF LayerWindow(m, layer) > 0 THEN "sliding" ELSE "full"

-----------------------------------------------------------------------------
(* The other sections.                                                     *)

TokenizerFits(t) ==
  /\ t.type \in {"char", "hf_bpe"}
  /\ t.type = "hf_bpe" => t.vocab_size >= 256
  /\ "" \notin ToSet(t.special_tokens)

DataFits(d) ==
  /\ d.val_fraction \in 0..99
  /\ 1 <= d.min_document_chars /\ d.min_document_chars <= d.max_document_chars
  /\ {d.sequence_length, d.shard_size_tokens} \subseteq Nat
  /\ d.sequence_length >= 2 /\ d.shard_size_tokens >= d.sequence_length
  /\ d.dtype \in {"auto", "uint16", "uint32"}
  /\ d.mixture = <<>> \/ d.raw_paths = <<>>
  /\ \A i \in DOMAIN d.mixture : d.mixture[i].weight > 0
  /\ d.near_dedup_max_distance >= 0
  /\ d.script_filter \in {"", "latin", "cyrillic", "cjk", "arabic", "devanagari"}
  /\ d.contamination_shingle_fraction \in 1..100

TrainingFits(t) ==
  /\ t.device \in {"auto", "cpu", "cuda", "mps"}
  /\ {t.max_steps, t.batch_size, t.gradient_accumulation_steps, t.learning_rate, t.adam_eps,
      t.log_interval, t.eval_interval, t.checkpoint_interval,
      t.keep_last_n_checkpoints} \subseteq Nat \ {0}
  /\ t.min_learning_rate_ratio \in 0..100
  /\ t.lr_scheduler \in {"cosine", "linear", "constant"}
  /\ t.stage \in {"pretraining", "supervised_fine_tuning", "preference_training",
                  "reinforcement_learning"}
  /\ t.optimizer = "adamw" /\ t.sharding \in {"none", "optimizer", "fsdp"}
  /\ t.precision \in {"auto", "fp32", "bf16", "fp16"}
  /\ {t.warmup_steps, t.early_stopping_patience} \subseteq Nat

EvaluationFits(e) == e.split \in {"train", "val"}

InferenceFits(i) ==
  /\ {i.temperature, i.top_k, i.num_threads, i.speculative_tokens,
      i.expert_budget_mb} \subseteq Nat
  /\ i.top_p \in 1..100 /\ i.repetition_penalty >= 100 /\ i.max_new_tokens >= 1
  /\ i.precision \in {"auto", "fp32", "bf16", "fp16", "int8", "int4"}
  /\ i.kv_cache \in {"static", "dynamic", "paged"}
  /\ i.speculative_tokens > 0 <=> i.draft_checkpoint # ""

\* FontaineConfig.validate
Fits(c) ==
  /\ ModelFits(c.model) /\ TokenizerFits(c.tokenizer) /\ DataFits(c.data)
  /\ TrainingFits(c.training) /\ EvaluationFits(c.evaluation) /\ InferenceFits(c.inference)
  /\ Validates(Sizes(c.distributed), Shape(c.model))
  /\ c.data.sequence_length <= c.model.max_sequence_length
  /\ SequenceSplits(Sizes(c.distributed), c.data.sequence_length)
================================================================================
