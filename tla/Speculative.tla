------------------------------ MODULE Speculative ------------------------------
(***************************************************************************)
(* Greedy speculative decoding (speculative_ids,                           *)
(* src/src/fontaine/inference/speculative.py): a draft model proposes some *)
(* tokens, the target model keeps the prefix it agrees with and adds one   *)
(* token of its own.                                                       *)
(*                                                                         *)
(* The target is asked only along its own output, so its answers are the   *)
(* sequence `target` of GreedyDecoding.  The draft model may say anything. *)
(***************************************************************************)
EXTENDS Integers, Sequences

CONSTANTS
  Tokens, Eos, MaxNew,   \* see GreedyDecoding
  DraftTokens,           \* inference.speculative_tokens
  Prompt,                \* len(prompt_ids), after fit_context
  DraftWindow            \* max_sequence_length of the draft model

ASSUME VocabularyAssumption == Tokens # {} /\ Eos \notin Tokens
ASSUME BudgetAssumption     == MaxNew \in Nat \ {0}
ASSUME DraftAssumption      == DraftTokens \in Nat \ {0}
ASSUME WindowAssumption     == Prompt \in Nat \ {0} /\ DraftWindow \in Nat \ {0}

VARIABLES
  target,      \* position -> the target model's choice
  produced,    \* produced; agreed is the prompt followed by it
  proposals,   \* proposals of this round
  taken,       \* taken in this round
  pc           \* where the loop is

vars == <<target, produced, proposals, taken, pc>>

Answers == Tokens \cup {Eos}

Init ==
  /\ target \in [1..MaxNew -> Answers]
  /\ produced = <<>>
  /\ proposals = <<>>
  /\ taken = <<>>
  /\ pc = "round"

-----------------------------------------------------------------------------
(* Drafting.                                                               *)

\* The draft model's forward pass on the first n positions of the sequence
\* raises when they exceed its window.
Overruns(n) == Prompt + Len(produced) + n > DraftWindow

\* Mutant: the loop ends when a full round does not fit the budget any more.
Round_NeedsFullRoom ==
  /\ pc = "round"
  /\ proposals' = <<>>
  /\ taken' = <<>>
  /\ pc' = IF Len(produced) + DraftTokens > MaxNew THEN "done"
           ELSE IF Overruns(0) THEN "failed" ELSE "draft"
  /\ UNCHANGED <<target, produced>>

\* The next round begins with a prefill of the draft model.
Round ==
  /\ pc = "round"
  /\ proposals' = <<>>
  /\ taken' = <<>>
  /\ pc' = IF Len(produced) >= MaxNew THEN "done"
           ELSE IF Overruns(0) THEN "failed" ELSE "draft"
  /\ UNCHANGED <<target, produced>>

Least(x, y) == IF x < y THEN x ELSE y

Room == Least(DraftTokens, MaxNew - Len(produced))

\* A proposal, and the draft's forward pass on it.
Propose ==
  /\ pc = "draft"
  /\ Len(proposals) < Room
  /\ \E token \in Tokens : proposals' = Append(proposals, token)
  /\ pc' = IF Overruns(Len(proposals) + 1) THEN "failed" ELSE "draft"
  /\ UNCHANGED <<target, produced, taken>>

\* The draft chose EOS, or made all its proposals.
EndDraft ==
  /\ pc = "draft"
  /\ pc' = "verify"
  /\ UNCHANGED <<target, produced, proposals, taken>>

-----------------------------------------------------------------------------
(* Verification by the target.                                             *)

Choice == target[Len(produced) + Len(taken) + 1]

\* Nothing was proposed: an ordinary decode step of the target.
Plain ==
  /\ pc = "verify"
  /\ proposals = <<>>
  /\ IF Choice = Eos THEN pc' = "done" /\ UNCHANGED produced
                     ELSE pc' = "round" /\ produced' = Append(produced, Choice)
  /\ UNCHANGED <<target, proposals, taken>>

Unverified == Len(taken) < Len(proposals)

Accept ==
  /\ pc = "verify"
  /\ Unverified
  /\ Choice = proposals[Len(taken) + 1]
  /\ taken' = Append(taken, Choice)
  /\ UNCHANGED <<target, produced, proposals, pc>>

\* Mutant: the draft's token is kept.
Reject_KeepsProposal ==
  /\ pc = "verify"
  /\ Unverified
  /\ Choice # proposals[Len(taken) + 1]
  /\ produced' = produced \o Append(taken, proposals[Len(taken) + 1])
  /\ taken' = <<>>
  /\ pc' = "round"
  /\ UNCHANGED <<target, proposals>>

\* Mutant: a rejection keeps the accepted prefix only.
Reject_DropsChoice ==
  /\ pc = "verify"
  /\ Unverified
  /\ Choice # proposals[Len(taken) + 1]
  /\ produced' = produced \o taken
  /\ taken' = <<>>
  /\ pc' = "round"
  /\ UNCHANGED <<target, proposals>>

\* The first disagreement: the target's choice replaces the proposal, whatever
\* it is, and ends the round.
Reject ==
  /\ pc = "verify"
  /\ Unverified
  /\ Choice # proposals[Len(taken) + 1]
  /\ produced' = produced \o Append(taken, Choice)
  /\ taken' = <<>>
  /\ pc' = "round"
  /\ UNCHANGED <<target, proposals>>

\* All proposals accepted: one more token of the target, unless it is EOS or
\* the budget is spent.
Bonus ==
  /\ pc = "verify"
  /\ proposals # <<>>
  /\ ~Unverified
  /\ produced' = IF Len(produced) + Len(taken) < MaxNew /\ Choice # Eos
                 THEN Append(produced \o taken, Choice)
                 ELSE produced \o taken
  /\ taken' = <<>>
  /\ pc' = "round"
  /\ UNCHANGED <<target, proposals>>

Next == \/ Round \/ Propose \/ EndDraft
        \/ Plain \/ Accept \/ Reject \/ Bonus

\* A sequential loop: it goes on as long as it can.
Spec == Init /\ [][Next]_vars /\ WF_vars(Next)

-----------------------------------------------------------------------------
(* Properties.                                                             *)

TypeOK ==
  /\ target \in [1..MaxNew -> Answers]
  /\ produced \in Seq(Tokens \cup {Eos})
  /\ proposals \in Seq(Tokens)
  /\ taken \in Seq(Tokens)
  /\ pc \in {"round", "draft", "verify", "done", "failed"}

\* Whatever the draft proposes, every token kept is the one the target chooses
\* at its position, and there are never more than the budget.
MatchesTarget ==
  /\ Len(produced) + Len(taken) <= MaxNew
  /\ \A i \in 1..Len(produced) + Len(taken) : (produced \o taken)[i] = target[i]

\* A draft model whose window holds the prompt and the answer never overruns
\* it, although it runs ahead of what the target has accepted.
DraftFits == DraftWindow >= Prompt + MaxNew => pc # "failed"

\* Every round makes progress: the loop ends.
Terminates == <>(pc \in {"done", "failed"})

Greedy == INSTANCE GreedyDecoding WITH text <- produced \o taken, done <- pc = "done"

NoEos == \A i \in 1..MaxNew : target[i] # Eos

\* Unless the target chooses EOS, every step of the loop is a step of the target
\* decoding alone or leaves the text as it is; it does not end early.
GreedyWithoutEos == [][NoEos => [Greedy!Next]_(Greedy!vars)]_vars
================================================================================
