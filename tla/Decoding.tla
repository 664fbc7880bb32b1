------------------------------- MODULE Decoding -------------------------------
(***************************************************************************)
(* One request of the inference engine (Generator._stream,                 *)
(* src/src/fontaine/inference/engine.py): the prompt is cut to the context *)
(* window, the key/value cache is filled, then one token a step is sampled *)
(* and the newly decoded text is yielded to the caller, who may close the  *)
(* generator at any yield.                                                 *)
(*                                                                         *)
(* Tokens are told apart by what decoding makes of them: a character, a    *)
(* character of the stop sequence, one of the two bytes of a character, a  *)
(* special token, EOS.                                                     *)
(***************************************************************************)
EXTENDS Integers, Sequences

CONSTANTS
  Vocabulary,   \* a subset of AllTokens
  StopSequence, \* the one entry of sampling.stop_sequences, as glyphs
  ModelWindow,  \* config.max_sequence_length of the checkpoint
  Drafts,       \* how speculative decoding may be set up; a subset of AllDrafts
  MaxPrompt,    \* bound on the length of a prompt
  MaxAsked,     \* bound on the max_new_tokens asked for
  MaxContext    \* bound on the context_length asked for

AllTokens == {"char", "stop", "lead", "cont", "special", "eos"}
AllDrafts == {"off", "missing", "loaded"}

ASSUME VocabularyAssumption == Vocabulary \subseteq AllTokens
ASSUME StopAssumption       == StopSequence \in Seq({"char", "stop"}) /\ StopSequence # <<>>
ASSUME WindowAssumption     == ModelWindow \in Nat /\ ModelWindow >= 2
ASSUME DraftsAssumption     == Drafts \subseteq AllDrafts
ASSUME BoundsAssumption     == MaxPrompt \in Nat /\ MaxAsked \in Nat /\ MaxContext \in Nat

VARIABLES
  request,    \* what the caller asked for
  kept,       \* tokens of the prompt that are used
  budget,     \* gen_budget
  pos,        \* cache.pos
  generated,  \* generated, or what speculative_ids produced
  emitted,    \* emitted
  out,        \* the text yielded so far
  pc          \* where the generator is

vars == <<request, kept, budget, pos, generated, emitted, out, pc>>

Omitted == 0    \* context_length is None; every number below 2 is as bad as 1

Request == [prompt : 0..MaxPrompt, asked : 0..MaxAsked, context : 0..MaxContext,
            draft : Drafts]

Init ==
  /\ request \in Request
  /\ kept = 0 /\ budget = 0 /\ pos = 0
  /\ generated = <<>> /\ emitted = 0 /\ out = <<>>
  /\ pc = "start"

-----------------------------------------------------------------------------
(* Fitting the request into the window.                                    *)

Least(x, y)    == IF x <= y THEN x ELSE y
Greatest(x, y) == IF x >= y THEN x ELSE y

Window ==
  IF request.context = Omitted THEN ModelWindow ELSE Least(request.context, ModelWindow)

PromptBudget(window) == Greatest(Least((window * 3) \div 4, window - 1), 1)

\* Mutant: the answer is not cut to what the prompt leaves.
FitContext_KeepsAsked(prompt, asked, window) ==
  IF prompt + asked <= window THEN [kept |-> prompt, budget |-> asked]
  ELSE [kept |-> Least(prompt, PromptBudget(window)), budget |-> asked]

\* fit_context; its last branch (no room for one token) cannot be reached.
FitContext(prompt, asked, window) ==
  IF prompt + asked <= window THEN [kept |-> prompt, budget |-> asked]
  ELSE LET tail == Least(prompt, PromptBudget(window))
       IN [kept |-> tail, budget |-> Least(asked, window - tail)]

\* The first call of next(): a request that asks for nothing or for a window
\* below 2 raises ValueError, one that needs a draft model that is not there
\* RuntimeError.
Begin ==
  /\ pc = "start"
  /\ IF request.asked < 1 \/ request.context = 1
     THEN pc' = "failed" /\ UNCHANGED <<kept, budget>>
     ELSE LET fit == FitContext(request.prompt, request.asked, Window)
          IN /\ kept' = fit.kept
             /\ budget' = fit.budget
             /\ pc' = CASE request.draft = "off"     -> "prefill"
                        [] request.draft = "missing" -> "failed"
                        [] OTHER                     -> "speculate"
  /\ UNCHANGED <<request, pos, generated, emitted, out>>

\* A forward pass on n more positions raises beyond the model's window, and
\* there are no logits to sample from when there are no positions.
Forward(n, next) ==
  /\ pos' = IF pos + n > ModelWindow THEN pos ELSE pos + n
  /\ pc' = IF n = 0 \/ pos + n > ModelWindow THEN "failed" ELSE next

Prefill ==
  /\ pc = "prefill"
  /\ Forward(kept, "sample")
  /\ UNCHANGED <<request, kept, budget, generated, emitted, out>>

-----------------------------------------------------------------------------
(* Decoding to text.                                                       *)

Glyphs == {"char", "stop", "wide", "?"}

\* What is decoded so far, and whether its last glyph, U+FFFD (written "?"),
\* stands for the first byte of a character whose second may still come.
Decoded == [text : Seq(Glyphs), half : BOOLEAN]

Blank == [text |-> <<>>, half |-> FALSE]

\* A token more: special tokens are skipped, a second byte completes the
\* character its first byte began, and a byte without its other is replaced.
Absorb(d, token) ==
  CASE token \in {"special", "eos"} -> d
    [] token = "lead" -> [text |-> Append(d.text, "?"), half |-> TRUE]
    [] token = "cont" /\ d.half ->
         [text |-> [d.text EXCEPT ![Len(d.text)] = "wide"], half |-> FALSE]
    [] token = "cont" /\ ~d.half -> [text |-> Append(d.text, "?"), half |-> FALSE]
    [] OTHER -> [text |-> Append(d.text, token), half |-> FALSE]

\* tokenizer.decode(ids, skip_special_tokens=True).
DecodedUpTo(ids) ==
  LET upTo[n \in 0..Len(ids)] ==
        IF n = 0 THEN Blank ELSE Absorb(upTo[n - 1], ids[n])
  IN upTo

Decode(ids) == DecodedUpTo(ids)[Len(ids)].text

OccursAt(text, n) ==
  /\ n + Len(StopSequence) <= Len(text)
  /\ SubSeq(text, n + 1, n + Len(StopSequence)) = StopSequence

Contains(text) == \E n \in 0..Len(text) : OccursAt(text, n)

\* _first_stop_cut: the text before the earliest stop sequence.
Cut(text) ==
  IF ~Contains(text) THEN text
  ELSE SubSeq(text, 1, CHOOSE n \in 0..Len(text) :
                          /\ OccursAt(text, n)
                          /\ \A m \in 0..n - 1 : ~OccursAt(text, m))

-----------------------------------------------------------------------------
(* The decode loop.                                                        *)

SampleEos ==
  /\ pc = "sample"
  /\ "eos" \in Vocabulary
  /\ pc' = "done"
  /\ UNCHANGED <<request, kept, budget, pos, generated, emitted, out>>

\* Mutant: the stop sequence is looked for in the new text only.
Hits_NewTextOnly(text) == Contains(SubSeq(text, emitted + 1, Len(text)))

Hits(text) == Contains(text)

\* Mutant: one character too few.
Suffix_OffByOne(text) == SubSeq(text, emitted + 2, Len(text))

Suffix(text) == SubSeq(text, emitted + 1, Len(text))

\* A token and the text it adds.  Where a stop sequence appears, `cut` is a
\* string and `cut > emitted` raises TypeError.
Sample ==
  /\ pc = "sample"
  /\ \E token \in Vocabulary \ {"eos"} :
       LET text == Decode(Append(generated, token))
       IN /\ generated' = Append(generated, token)
          /\ IF Hits(text)
             THEN pc' = "failed" /\ UNCHANGED <<emitted, out>>
             ELSE /\ pc' = "yield"
                  /\ out' = out \o Suffix(text)
                  /\ emitted' = Len(text)
  /\ UNCHANGED <<request, kept, budget, pos>>

\* The caller asks for more: a decode step, unless the budget is spent.
Resume ==
  /\ pc = "yield"
  /\ IF Len(generated) < budget THEN Forward(1, "sample")
                                ELSE pc' = "done" /\ UNCHANGED pos
  /\ UNCHANGED <<request, kept, budget, generated, emitted, out>>

\* The caller drops the generator.
Abandon ==
  /\ pc \in {"start", "yield"}
  /\ pc' = "closed"
  /\ UNCHANGED <<request, kept, budget, pos, generated, emitted, out>>

SpeculativeText(ids) == Cut(Decode(ids))

\* _speculative: the whole answer at once (see Speculative), as one yield; the
\* tokens may contain EOS, which decoding skips.
Speculate ==
  /\ pc = "speculate"
  /\ \E n \in 0..budget : \E ids \in [1..n -> Vocabulary] :
       /\ generated' = ids
       /\ out' = IF n = 0 THEN out ELSE SpeculativeText(ids)
       /\ pc' = "done"
  /\ UNCHANGED <<request, kept, budget, pos, emitted>>

Next == \/ Begin \/ Prefill \/ SampleEos \/ Sample
        \/ Resume \/ Abandon \/ Speculate

Spec == Init /\ [][Next]_vars

-----------------------------------------------------------------------------
(* Properties.                                                             *)

TypeOK ==
  /\ request \in Request
  /\ kept \in 0..request.prompt
  /\ budget \in 0..request.asked
  /\ pos \in 0..ModelWindow
  /\ generated \in Seq(Vocabulary) /\ Len(generated) <= budget
  /\ emitted \in Nat
  /\ out \in Seq(Glyphs)
  /\ pc \in {"start", "prefill", "sample", "yield", "speculate",
             "done", "failed", "closed"}

\* docs/inference/architecture.md:32-33: "Generation stops before the KV cache
\* overflows".  The positions written stay in the window this request asked
\* for, which may be smaller than the model's, and so does the answer with the
\* token that is sampled but never forwarded.
WithinWindow ==
  pc \notin {"start", "failed"} => /\ pos <= Window
                                   /\ kept + Len(generated) <= Window

\* No stop sequence reaches the caller, although the caller may already have
\* the beginning of one.
NoStopLeaks == ~Contains(out)

\* docs/inference/architecture.md:27-28: "joining them reproduces the full
\* text": the deltas of a finished answer are the decoded answer, when no
\* character arrives in two tokens (otherwise U+FFFD was yielded for its first
\* half and stays).
Split == \E i \in 1..Len(generated) : generated[i] \in {"lead", "cont"}

JoinedIsText ==
  pc = "done" /\ request.draft = "off" /\ ~Split => out = Decode(generated)
===============================================================================
