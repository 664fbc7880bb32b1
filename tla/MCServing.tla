------------------------------ MODULE MCServing ------------------------------
(***************************************************************************)
(* Two requests, each at an endpoint of each kind.  "openai" does what     *)
(* "ollama_chat" does here, and "ollama_generate" without a stream what    *)
(* "native" does.                                                          *)
(***************************************************************************)
EXTENDS Serving

MCEndpoints ==
  {[family |-> f, stream |-> s] : f \in {"native", "ollama_chat"}, s \in BOOLEAN}
  \cup {[family |-> "ollama_generate", stream |-> TRUE],
        [family |-> "context", stream |-> FALSE]}
===============================================================================
