---------------------------- MODULE Inference_proofs ----------------------------
(***************************************************************************)
(* Proofs about what inference keeps between its steps: the text and the   *)
(* proposals of Speculative, the resident blocks of DenseStore, the caches *)
(* under the passes of Forward and what its blocks make of a text, for all *)
(* values of their constants.                                              *)
(***************************************************************************)
EXTENDS Speculative, DenseStore, Forward,
        SequenceTheorems, FiniteSetTheorems, WellFoundedInduction, TLAPS

-----------------------------------------------------------------------------
(* Speculative: the text is the target's.                                   *)

\* What the loop knows at each point: how long the round's sequences are.
RoundBounds ==
  /\ pc = "round" => taken = <<>>
  /\ pc = "draft" => taken = <<>> /\ Len(produced) < MaxNew
  /\ pc \in {"draft", "verify"} => Len(produced) + Len(proposals) <= MaxNew
  /\ pc = "draft" => ~Overruns(Len(proposals))
  /\ pc = "verify" => Len(taken) <= Len(proposals) /\ Len(produced) < MaxNew

IInv == TypeOK /\ RoundBounds /\ MatchesTarget /\ DraftFits

LEMMA RoomBound ==
  ASSUME TypeOK, Len(produced) < MaxNew
  PROVE  Room \in Nat /\ Len(produced) + Room <= MaxNew
  BY DraftAssumption, BudgetAssumption DEF Room, Least, TypeOK

\* The choice the target is asked for while the budget is not spent.
LEMMA ChoiceTyped ==
  ASSUME TypeOK, Len(produced) + Len(taken) < MaxNew
  PROVE  /\ Choice \in Tokens \cup {Eos}
         /\ Len(produced) + Len(taken) + 1 \in 1..MaxNew
         /\ NoEos => Choice \in Tokens
<1>1. Len(produced) + Len(taken) + 1 \in 1..MaxNew
  BY BudgetAssumption DEF TypeOK
<1>2. Choice \in Answers
  BY <1>1 DEF Choice, TypeOK
<1>3. NoEos => Choice # Eos
  BY <1>1 DEF NoEos, Choice
<1> QED  BY <1>1, <1>2, <1>3 DEF Answers

\* Appending the target's choice keeps the text equal to the target's.
LEMMA Extends ==
  ASSUME NEW S, NEW p \in Seq(S), NEW q \in Seq(S), NEW c \in S,
         \A i \in 1..Len(p) + Len(q) : (p \o q)[i] = target[i],
         c = target[Len(p) + Len(q) + 1]
  PROVE  /\ Append(p \o q, c) \in Seq(S)
         /\ p \o Append(q, c) = Append(p \o q, c)
         /\ Len(p \o q) = Len(p) + Len(q)
         /\ Len(Append(p \o q, c)) = Len(p) + Len(q) + 1
         /\ \A i \in 1..Len(p) + Len(q) + 1 : Append(p \o q, c)[i] = target[i]
<1>1. p \o q \in Seq(S) /\ Len(p \o q) = Len(p) + Len(q)
  OBVIOUS
<1>2. p \o Append(q, c) = Append(p \o q, c)
  OBVIOUS
<1> DEFINE pq == p \o q
<1>3. pq \in Seq(S) /\ Len(pq) = Len(p) + Len(q) /\ Len(pq) \in Nat
  BY <1>1
<1>4. \A i \in 1..Len(pq) : pq[i] = target[i]
  BY <1>3
<1>5. c = target[Len(pq) + 1]
  BY <1>3
<1>6. Append(pq, c) \in Seq(S) /\ Len(Append(pq, c)) = Len(pq) + 1
  <2> HIDE DEF pq
  <2> QED  BY <1>3
<1>7. \A i \in 1..Len(pq) + 1 : Append(pq, c)[i] = target[i]
  <2> HIDE DEF pq
  <2> QED  BY <1>3, <1>4, <1>5
<1> QED  BY <1>1, <1>2, <1>3, <1>6, <1>7

LEMMA EmptyTail ==
  ASSUME NEW S, NEW p \in Seq(S)
  PROVE  p \o <<>> = p
  OBVIOUS

LEMMA InitHolds == Init => IInv
<1> SUFFICES ASSUME Init PROVE IInv
  OBVIOUS
<1>1. TypeOK
  BY DEF Init, TypeOK
<1>2. RoundBounds /\ MatchesTarget /\ DraftFits
  BY BudgetAssumption DEF Init, RoundBounds, MatchesTarget, DraftFits
<1> QED  BY <1>1, <1>2 DEF IInv

\* Every step of the loop keeps the invariant and, while the target never
\* chooses EOS, is a step of the greedy decode or leaves its text alone.
LEMMA StepHolds ==
  ASSUME IInv, [Next]_vars
  PROVE  /\ IInv'
         /\ NoEos => [Greedy!Next]_(Greedy!vars)
<1> USE DEF IInv
<1>a. UNCHANGED vars => UNCHANGED Greedy!vars
  BY DEF vars, Greedy!vars
<1>t. /\ produced \in Seq(Tokens \cup {Eos}) /\ taken \in Seq(Tokens \cup {Eos})
      /\ proposals \in Seq(Tokens)
      /\ Len(produced) \in Nat /\ Len(taken) \in Nat /\ Len(proposals) \in Nat
      /\ MaxNew \in Nat
  BY BudgetAssumption DEF TypeOK
<1>1. CASE Round
  <2>1. taken = <<>>
    BY <1>1 DEF Round, RoundBounds
  <2>2. TypeOK'
    BY <1>1 DEF Round, TypeOK
  <2>3. MatchesTarget'
    BY <1>1, <2>1 DEF Round, MatchesTarget
  <2>4. RoundBounds'
    BY <1>1, <1>t DEF Round, RoundBounds, Overruns
  <2>5. DraftFits'
    BY <1>1, <1>t, WindowAssumption DEF Round, DraftFits, Overruns
  <2>6. [Greedy!Next]_(Greedy!vars)
    <3>1. CASE Len(produced) >= MaxNew
      <4>1. produced \o taken = produced /\ (produced \o taken)' = produced
        BY <1>1, <2>1, <1>t, EmptyTail DEF Round
      <4>2. Greedy!Stop
        BY <1>1, <3>1, <4>1, <1>t DEF Round, Greedy!Stop
      <4> QED  BY <4>2 DEF Greedy!Next
    <3>2. CASE ~(Len(produced) >= MaxNew)
      BY <1>1, <3>2, <2>1 DEF Round, Greedy!vars
    <3> QED  BY <3>1, <3>2
  <2> QED  BY <2>2, <2>3, <2>4, <2>5, <2>6
<1>2. CASE Propose
  <2>1. Room \in Nat /\ Len(produced) + Room <= MaxNew /\ Len(proposals) < Room
    BY <1>2, RoomBound DEF Propose, RoundBounds
  <2>2. PICK token \in Tokens : proposals' = Append(proposals, token)
    BY <1>2 DEF Propose
  <2>3. proposals' \in Seq(Tokens) /\ Len(proposals') = Len(proposals) + 1
    BY <2>2, <1>t
  <2>4. TypeOK'
    BY <1>2, <2>3 DEF Propose, TypeOK
  <2>5. MatchesTarget'
    BY <1>2 DEF Propose, MatchesTarget
  <2>6. RoundBounds'
    BY <1>2, <1>t, <2>1, <2>3 DEF Propose, RoundBounds, Overruns
  <2>7. DraftFits'
    BY <1>2, <1>t, <2>1, WindowAssumption DEF Propose, DraftFits, Overruns
  <2>8. UNCHANGED Greedy!vars
    BY <1>2 DEF Propose, Greedy!vars
  <2> QED  BY <2>4, <2>5, <2>6, <2>7, <2>8
<1>3. CASE EndDraft
  <2>1. TypeOK'
    BY <1>3 DEF EndDraft, TypeOK
  <2>2. MatchesTarget' /\ DraftFits'
    BY <1>3 DEF EndDraft, MatchesTarget, DraftFits
  <2>3. RoundBounds'
    BY <1>3, <1>t DEF EndDraft, RoundBounds
  <2>4. UNCHANGED Greedy!vars
    BY <1>3 DEF EndDraft, Greedy!vars
  <2> QED  BY <2>1, <2>2, <2>3, <2>4
<1>4. CASE Plain
  <2>1. taken = <<>> /\ Len(produced) < MaxNew
    <3>1. Len(taken) = 0 /\ Len(produced) < MaxNew
      BY <1>4, <1>t DEF Plain, RoundBounds
    <3> QED  BY <3>1, <1>t
  <2>2. Choice \in Tokens \cup {Eos} /\ (NoEos => Choice \in Tokens)
    BY <2>1, <1>t, ChoiceTyped
  <2>3. CASE Choice = Eos
    <3>1. UNCHANGED <<target, produced, proposals, taken>> /\ pc' = "done"
      BY <1>4, <2>3 DEF Plain
    <3>2. TypeOK'
      BY <3>1 DEF TypeOK
    <3>3. MatchesTarget' /\ DraftFits' /\ RoundBounds'
      BY <3>1 DEF MatchesTarget, DraftFits, RoundBounds
    <3>4. ~NoEos
      <4>1. Len(produced) + Len(taken) + 1 \in 1..MaxNew
        BY <2>1, <1>t, ChoiceTyped
      <4> QED  BY <4>1, <2>3 DEF NoEos, Choice
    <3> QED  BY <3>2, <3>3, <3>4
  <2>4. CASE Choice # Eos
    <3>1. /\ UNCHANGED <<target, proposals, taken>> /\ pc' = "round"
          /\ produced' = Append(produced, Choice)
      BY <1>4, <2>4 DEF Plain
    <3>2. produced \o taken = produced /\ Len(taken) = 0
      BY <2>1, <1>t, EmptyTail
    <3>3. \A i \in 1..Len(produced) + Len(taken) : (produced \o taken)[i] = target[i]
      BY DEF MatchesTarget
    <3>4. /\ produced' \in Seq(Tokens \cup {Eos})
          /\ Len(produced') = Len(produced) + 1
          /\ \A i \in 1..Len(produced) + 1 : produced'[i] = target[i]
      BY <1>t, <2>2, <3>1, <3>2, <3>3, Extends DEF Choice
    <3>5. (produced \o taken)' = produced' /\ Len(taken') = 0
      BY <3>1, <3>4, <2>1, EmptyTail
    <3>6. TypeOK'
      BY <3>1, <3>4 DEF TypeOK
    <3>7. MatchesTarget'
      BY <3>1, <3>4, <3>5, <2>1, <1>t DEF MatchesTarget
    <3>8. RoundBounds' /\ DraftFits'
      BY <3>1, <2>1 DEF RoundBounds, DraftFits
    <3>9. Greedy!Emit
      BY <1>4, <3>1, <3>2, <3>5, <2>1, <2>4, <1>t DEF Plain, Greedy!Emit, Choice
    <3> QED  BY <3>6, <3>7, <3>8, <3>9 DEF Greedy!Next
  <2> QED  BY <2>3, <2>4
<1>5. CASE Accept
  <2>1. Len(taken) < Len(proposals) /\ Len(produced) + Len(taken) < MaxNew
    BY <1>5, <1>t DEF Accept, Unverified, RoundBounds
  <2>2. Choice \in Tokens
    BY <1>5, <2>1, <1>t DEF Accept
  <2>3. Choice # Eos
    BY <2>2, VocabularyAssumption
  <2>4. \A i \in 1..Len(produced) + Len(taken) : (produced \o taken)[i] = target[i]
    BY DEF MatchesTarget
  <2>5. /\ produced \o Append(taken, Choice) = Append(produced \o taken, Choice)
        /\ Len(produced \o taken) = Len(produced) + Len(taken)
        /\ \A i \in 1..Len(produced) + Len(taken) + 1 :
              (produced \o Append(taken, Choice))[i] = target[i]
    <3>1. Choice \in Tokens \cup {Eos}
      BY <2>2
    <3>2. Choice = target[Len(produced) + Len(taken) + 1]
      BY DEF Choice
    <3> HIDE DEF IInv
    <3>3. /\ produced \o Append(taken, Choice) = Append(produced \o taken, Choice)
          /\ Len(produced \o taken) = Len(produced) + Len(taken)
          /\ \A i \in 1..Len(produced) + Len(taken) + 1 :
                Append(produced \o taken, Choice)[i] = target[i]
      BY <1>t, <2>4, <3>1, <3>2, Extends
    <3> QED  BY <3>3
  <2>6. taken' \in Seq(Tokens) /\ Len(taken') = Len(taken) + 1
    BY <1>5, <2>2 DEF Accept, TypeOK
  <2>7. TypeOK'
    BY <1>5, <2>6 DEF Accept, TypeOK
  <2>8. MatchesTarget'
    BY <1>5, <2>5, <2>6, <2>1, <1>t DEF Accept, MatchesTarget
  <2>9. RoundBounds' /\ DraftFits'
    BY <1>5, <2>6, <2>1, <1>t DEF Accept, RoundBounds, DraftFits
  <2>10. Greedy!Emit
    BY <1>5, <2>1, <2>3, <2>5, <1>t DEF Accept, Greedy!Emit, Choice
  <2> QED  BY <2>7, <2>8, <2>9, <2>10 DEF Greedy!Next
<1>6. CASE Reject
  <2>1. Len(taken) < Len(proposals) /\ Len(produced) + Len(taken) < MaxNew
    BY <1>6, <1>t DEF Reject, Unverified, RoundBounds
  <2>2. Choice \in Tokens \cup {Eos} /\ (NoEos => Choice \in Tokens)
    BY <2>1, <1>t, ChoiceTyped
  <2>3. \A i \in 1..Len(produced) + Len(taken) : (produced \o taken)[i] = target[i]
    BY DEF MatchesTarget
  <2>4. /\ produced \o Append(taken, Choice) = Append(produced \o taken, Choice)
        /\ Append(produced \o taken, Choice) \in Seq(Tokens \cup {Eos})
        /\ Len(produced \o taken) = Len(produced) + Len(taken)
        /\ Len(Append(produced \o taken, Choice)) = Len(produced) + Len(taken) + 1
        /\ \A i \in 1..Len(produced) + Len(taken) + 1 :
              Append(produced \o taken, Choice)[i] = target[i]
    BY <1>t, <2>2, <2>3, Extends DEF Choice
  <2>5. /\ produced' = Append(produced \o taken, Choice)
        /\ taken' = <<>> /\ pc' = "round" /\ UNCHANGED <<target, proposals>>
    BY <1>6, <2>4 DEF Reject
  <2>6. (produced \o taken)' = produced' /\ Len(taken') = 0
    BY <2>4, <2>5, EmptyTail
  <2>7. TypeOK'
    BY <2>4, <2>5 DEF TypeOK
  <2>8. MatchesTarget'
    <3>1. Len(produced') + Len(taken') = Len(produced) + Len(taken) + 1
      BY <2>4, <2>5, <2>6, <1>t
    <3>2. \A i \in 1..Len(produced) + Len(taken) + 1 : (produced \o taken)'[i] = target'[i]
      BY <2>4, <2>5, <2>6
    <3>3. Len(produced) + Len(taken) + 1 <= MaxNew
      BY <2>1, <1>t
    <3> QED  BY <3>1, <3>2, <3>3 DEF MatchesTarget
  <2>9. RoundBounds' /\ DraftFits'
    BY <2>5 DEF RoundBounds, DraftFits
  <2>10. NoEos => Greedy!Emit
    <3> SUFFICES ASSUME NoEos PROVE Greedy!Emit
      OBVIOUS
    <3>1. Choice # Eos
      BY <2>2, VocabularyAssumption
    <3> QED
      BY <1>6, <2>1, <2>4, <2>5, <2>6, <3>1, <1>t DEF Reject, Greedy!Emit, Choice
  <2> QED  BY <2>7, <2>8, <2>9, <2>10 DEF Greedy!Next
<1>7. CASE Bonus
  <2>1. Len(taken) = Len(proposals) /\ Len(produced) + Len(taken) <= MaxNew
    BY <1>7, <1>t DEF Bonus, Unverified, RoundBounds
  <2>2. \A i \in 1..Len(produced) + Len(taken) : (produced \o taken)[i] = target[i]
    BY DEF MatchesTarget
  <2>3. CASE Len(produced) + Len(taken) < MaxNew /\ Choice # Eos
    <3>1. Choice \in Tokens \cup {Eos}
      BY <2>3, ChoiceTyped
    <3>2. /\ produced' = Append(produced \o taken, Choice)
          /\ taken' = <<>> /\ pc' = "round" /\ UNCHANGED <<target, proposals>>
      BY <1>7, <2>3 DEF Bonus
    <3>3. /\ Append(produced \o taken, Choice) \in Seq(Tokens \cup {Eos})
          /\ Len(produced \o taken) = Len(produced) + Len(taken)
          /\ Len(Append(produced \o taken, Choice)) = Len(produced) + Len(taken) + 1
          /\ \A i \in 1..Len(produced) + Len(taken) + 1 :
                Append(produced \o taken, Choice)[i] = target[i]
      BY <1>t, <3>1, <2>2, Extends DEF Choice
    <3>4. (produced \o taken)' = produced' /\ Len(taken') = 0
      BY <3>2, <3>3, EmptyTail
    <3>5. TypeOK'
      BY <3>2, <3>3 DEF TypeOK
    <3>6. MatchesTarget'
      <4>1. Len(produced') + Len(taken') = Len(produced) + Len(taken) + 1
        BY <3>2, <3>3, <3>4, <1>t
      <4>2. \A i \in 1..Len(produced) + Len(taken) + 1 : (produced \o taken)'[i] = target'[i]
        BY <3>2, <3>3, <3>4
      <4>3. Len(produced) + Len(taken) + 1 <= MaxNew
        BY <2>3, <1>t
      <4> QED  BY <4>1, <4>2, <4>3 DEF MatchesTarget
    <3>7. RoundBounds' /\ DraftFits'
      BY <3>2 DEF RoundBounds, DraftFits
    <3>8. Greedy!Emit
      BY <1>7, <2>3, <3>2, <3>3, <3>4, <1>t DEF Bonus, Greedy!Emit, Choice
    <3> QED  BY <3>5, <3>6, <3>7, <3>8 DEF Greedy!Next
  <2>4. CASE ~(Len(produced) + Len(taken) < MaxNew /\ Choice # Eos)
    <3>1. /\ produced' = produced \o taken
          /\ taken' = <<>> /\ pc' = "round" /\ UNCHANGED <<target, proposals>>
      BY <1>7, <2>4 DEF Bonus
    <3>2. produced \o taken \in Seq(Tokens \cup {Eos})
          /\ Len(produced \o taken) = Len(produced) + Len(taken)
      BY <1>t
    <3>3. (produced \o taken)' = produced' /\ Len(taken') = 0
      BY <3>1, <3>2, EmptyTail
    <3>4. TypeOK'
      BY <3>1, <3>2 DEF TypeOK
    <3>5. MatchesTarget'
      BY <2>1, <2>2, <3>1, <3>2, <3>3, <1>t DEF MatchesTarget
    <3>6. RoundBounds' /\ DraftFits'
      BY <3>1 DEF RoundBounds, DraftFits
    <3>7. UNCHANGED Greedy!vars
      BY <1>7, <3>1, <3>3 DEF Bonus, Greedy!vars
    <3> QED  BY <3>4, <3>5, <3>6, <3>7
  <2> QED  BY <2>3, <2>4
<1>8. CASE UNCHANGED vars
  <2>1. TypeOK'
    BY <1>8 DEF vars, TypeOK
  <2>2. RoundBounds'
    BY <1>8 DEF vars, RoundBounds, Overruns
  <2>3. MatchesTarget' /\ DraftFits'
    BY <1>8 DEF vars, MatchesTarget, DraftFits
  <2> QED  BY <1>8, <1>a, <2>1, <2>2, <2>3
<1> QED
  BY <1>1, <1>2, <1>3, <1>4, <1>5, <1>6, <1>7, <1>8 DEF Next

THEOREM Invariance == Spec => []IInv
<1>1. IInv /\ [Next]_vars => IInv'
  BY StepHolds
<1> QED  BY InitHolds, <1>1, PTL DEF Spec

\* The loop keeps its variables well typed: proposals never contain EOS.
THEOREM TypeCorrect == Spec => []TypeOK
<1>1. IInv => TypeOK
  BY DEF IInv
<1> QED  BY <1>1, Invariance, PTL

\* Whatever the draft proposes, the text is the target's own and within the
\* budget (speculative.py:58-77).
THEOREM TextIsTheTargets == Spec => []MatchesTarget
<1>1. IInv => MatchesTarget
  BY DEF IInv
<1> QED  BY <1>1, Invariance, PTL

\* A draft window that holds prompt and answer is never overrun by the
\* proposals (speculative.py:37-48).
THEOREM DraftNeverOverruns == Spec => []DraftFits
<1>1. IInv => DraftFits
  BY DEF IInv
<1> QED  BY <1>1, Invariance, PTL

\* Unless the target chooses EOS, speculative decoding is a greedy decode of
\* the target alone (speculative.py:4-6).
THEOREM SpeculationIsGreedy == Spec => GreedyWithoutEos
<1>1. IInv /\ [Next]_vars => (NoEos => [Greedy!Next]_(Greedy!vars))
  BY StepHolds
<1> QED  BY <1>1, Invariance, PTL DEF Spec, GreedyWithoutEos

-----------------------------------------------------------------------------
(* Recursive functions, sequences and numbers.                             *)

\* Induction, from the least number a set of naturals lacks.
LEMMA Induction ==
  ASSUME NEW S \in SUBSET Nat, 0 \in S, \A n \in S : n + 1 \in S
  PROVE  S = Nat
<1> SUFFICES ASSUME Nat \ S # {} PROVE FALSE
  OBVIOUS
<1> DEFINE R == OpToRel(<, Nat)
<1>1. IsWellFoundedOn(R, Nat)
  BY NatLessThanWellFounded
<1>2. \A x, y \in Nat : <<x, y>> \in R <=> x < y
  BY DEF OpToRel
<1> HIDE DEF R
<1>3. PICK least \in Nat \ S : \A y \in Nat \ S : ~ (<<y, least>> \in R)
  BY <1>1, WFMin
<1>4. least # 0 /\ least - 1 \in Nat
  BY <1>3
<1>5. least - 1 \in S
  <2>1. <<least - 1, least>> \in R
    BY <1>2, <1>4
  <2>2. least - 1 \notin Nat \ S
    BY <1>3, <2>1
  <2> QED  BY <1>4, <2>2
<1>6. (least - 1) + 1 \in S
  BY <1>5
<1> QED  BY <1>4, <1>6

\* Min and Max of the community modules choose: there is a choice.
LEMMA LeastNumber ==
  ASSUME NEW S \in SUBSET Nat, S # {}
  PROVE  \E m \in S : \A k \in S : m <= k
<1> DEFINE R == OpToRel(<, Nat)
<1>1. IsWellFoundedOn(R, Nat)
  BY NatLessThanWellFounded
<1>2. \A x, y \in Nat : <<x, y>> \in R <=> x < y
  BY DEF OpToRel
<1> HIDE DEF R
<1>3. PICK m \in S : \A y \in S : ~ (<<y, m>> \in R)
  <2>1. PICK x : x \in S
    OBVIOUS
  <2> QED  BY <1>1, <2>1, WFMin
<1>4. ASSUME NEW k \in S, ~(m <= k) PROVE FALSE
  <2>1. k \in Nat /\ m \in Nat /\ k < m
    BY <1>4
  <2> QED  BY <1>2, <1>3, <2>1
<1> QED  BY <1>4

\* A function by recursion over the numbers up to N.
Recurs(f, N, base, step) ==
  /\ f = [n \in 0..N |-> f[n]] /\ f[0] = base
  /\ \A n \in 1..N : f[n] = step[n][f[n - 1]]


LEMMA Recursion ==
  ASSUME NEW N \in Nat, NEW A, NEW base \in A, NEW step \in [1..N -> [A -> A]]
  PROVE  \E f \in [0..N -> A] : Recurs(f, N, base, step)
<1> DEFINE S == {k \in Nat : k <= N => \E f \in [0..k -> A] : Recurs(f, k, base, step)}
<1>1. 0 \in S
  <2> DEFINE f == [n \in 0..0 |-> base]
  <2>1. f \in [0..0 -> A] /\ f[0] = base /\ f = [n \in 0..0 |-> f[n]] /\ 1..0 = {}
    OBVIOUS
  <2> HIDE DEF f
  <2> QED  BY <2>1 DEF Recurs
<1>2. ASSUME NEW k \in S PROVE k + 1 \in S
  <2> SUFFICES ASSUME k + 1 <= N PROVE \E f \in [0..k + 1 -> A] : Recurs(f, k + 1, base, step)
    OBVIOUS
  <2>1. k \in Nat /\ k <= N
    OBVIOUS
  <2>2. PICK f \in [0..k -> A] : Recurs(f, k, base, step)
    BY <2>1
  <2> DEFINE g == [n \in 0..k + 1 |-> IF n = k + 1 THEN step[k + 1][f[k]] ELSE f[n]]
  <2>3. k + 1 \in 1..N /\ k \in 0..k /\ 0 \in 0..k /\ 0 # k + 1 /\ (k + 1) - 1 = k
    BY <2>1
  <2>4. step[k + 1] \in [A -> A] /\ f[k] \in A
    BY <2>3
  <2>5. \A n \in 0..k + 1 : n # k + 1 => n \in 0..k
    BY <2>1
  <2>6. g \in [0..k + 1 -> A]
    BY <2>4, <2>5
  <2>7. /\ g[k + 1] = step[k + 1][f[k]]
        /\ \A n \in 0..k : g[n] = f[n]
    <3>1. k + 1 \in 0..k + 1 /\ \A n \in 0..k : n \in 0..k + 1 /\ n # k + 1
      BY <2>1
    <3> QED  BY <3>1
  <2>8. g = [n \in 0..k + 1 |-> g[n]]
    OBVIOUS
  <2> HIDE DEF g
  <2>9. g[0] = base
    BY <2>2, <2>3, <2>7 DEF Recurs
  <2>10. ASSUME NEW n \in 1..k + 1 PROVE g[n] = step[n][g[n - 1]]
    <3>1. CASE n = k + 1
      <4>1. n - 1 = k
        BY <2>1, <3>1
      <4> QED  BY <2>3, <2>7, <3>1, <4>1
    <3>2. CASE n # k + 1
      <4>1. n \in 1..k /\ n \in 0..k /\ n - 1 \in 0..k
        BY <2>1, <3>2
      <4> QED  BY <2>2, <2>7, <4>1 DEF Recurs
    <3> QED  BY <3>1, <3>2
  <2> QED  BY <2>6, <2>8, <2>9, <2>10 DEF Recurs
<1>3. S = Nat
  <2> HIDE DEF S
  <2>1. S \in SUBSET Nat
    BY DEF S
  <2> QED  BY <1>1, <1>2, <2>1, Induction
<1> QED  BY <1>3

\* Induction up to N.
LEMMA UpTo ==
  ASSUME NEW N \in Nat, NEW P, 0 \in P, \A n \in 1..N : n - 1 \in P => n \in P
  PROVE  \A n \in 0..N : n \in P
<1> DEFINE S == {n \in Nat : n <= N => n \in P}
<1>1. 0 \in S
  OBVIOUS
<1>2. ASSUME NEW n \in S PROVE n + 1 \in S
  <2> SUFFICES ASSUME n + 1 <= N PROVE n + 1 \in P
    OBVIOUS
  <2>1. n + 1 \in 1..N /\ (n + 1) - 1 = n /\ n \in P
    OBVIOUS
  <2> QED  BY <2>1
<1>3. S = Nat
  <2>1. S \in SUBSET Nat
    OBVIOUS
  <2> HIDE DEF S
  <2> QED  BY <1>1, <1>2, <2>1, Induction
<1> QED  BY <1>3

LEMMA AppendIs ==
  ASSUME NEW S, NEW s \in Seq(S), NEW e \in S
  PROVE  LET n == Len(s) + 1
         IN /\ Append(s, e) \in [1..n -> S] /\ Len(Append(s, e)) = n /\ n \in 1..n
            /\ Append(s, e)[n] = e
            /\ \A i \in 1..n : i # n => Append(s, e)[i] = s[i]
<1>1. Append(s, e) \in Seq(S) /\ Len(Append(s, e)) = Len(s) + 1 /\ Append(s, e)[Len(s) + 1] = e
      /\ \A i \in 1..Len(s) : Append(s, e)[i] = s[i]
  BY AppendProperties
<1>2. Len(s) \in Nat
  OBVIOUS
<1>3. Append(s, e) \in [1..Len(s) + 1 -> S]
  <2> DEFINE t == Append(s, e)
  <2>1. t \in Seq(S) /\ Len(t) = Len(s) + 1
    BY <1>1
  <2> HIDE DEF t
  <2>2. t \in [1..Len(t) -> S]
    BY <2>1, LenProperties
  <2> QED  BY <2>1, <2>2 DEF t
<1> QED  BY <1>1, <1>2, <1>3

\* Max and Min of the community modules, of two numbers.
LEMMA MaxOfTwo ==
  ASSUME NEW a \in Int, NEW b \in Int
  PROVE  Max({a, b}) \in {a, b} /\ Max({a, b}) >= a /\ Max({a, b}) >= b
<1>1. \E x \in {a, b} : \A y \in {a, b} : x >= y
  OBVIOUS
<1> QED  BY <1>1 DEF Max

LEMMA MinOfTwo ==
  ASSUME NEW a \in Int, NEW b \in Int
  PROVE  Min({a, b}) = IF a <= b THEN a ELSE b
<1>1. \E x \in {a, b} : \A y \in {a, b} : x =< y
  OBVIOUS
<1>2. Min({a, b}) \in {a, b} /\ \A y \in {a, b} : Min({a, b}) <= y
  BY <1>1 DEF Min
<1> QED  BY <1>2

\* The middle of a sequence.
LEMMA Middle ==
  ASSUME NEW S, NEW s \in Seq(S), NEW a \in Nat \ {0}, NEW b \in Int, b <= Len(s)
  PROVE  /\ SubSeq(s, a, b) \in Seq(S)
         /\ Len(SubSeq(s, a, b)) = IF a <= b THEN b - a + 1 ELSE 0
         /\ \A i \in 1..b - a + 1 : SubSeq(s, a, b)[i] = s[a + i - 1]
<1>1. \A i \in a..b : s[i] \in S
  BY ElementOfSeq
<1> QED  BY <1>1, SubSeqProperties

\* The greatest of finitely many numbers.
LEMMA MaxIsIn ==
  ASSUME NEW N \in Nat, NEW S \in SUBSET (0..N), S # {}
  PROVE  Max(S) \in S /\ \A k \in S : Max(S) >= k
<1> DEFINE T == {N - k : k \in S}
<1>1. T \in SUBSET Nat /\ T # {}
  <2>1. \A k \in S : N - k \in Nat
    OBVIOUS
  <2>2. PICK k \in S : TRUE
    OBVIOUS
  <2>3. N - k \in T
    OBVIOUS
  <2> QED  BY <2>1, <2>3
<1> HIDE DEF T
<1>2. PICK m \in T : \A k \in T : m <= k
  BY <1>1, LeastNumber
<1>3. PICK x \in S : m = N - x
  BY <1>2 DEF T
<1>4. \A k \in S : x >= k
  <2> SUFFICES ASSUME NEW k \in S PROVE x >= k
    OBVIOUS
  <2>1. N - k \in T
    BY DEF T
  <2>2. m <= N - k /\ x \in 0..N /\ k \in 0..N
    BY <1>2, <2>1
  <2> QED  BY <1>3, <2>2
<1> QED  BY <1>4 DEF Max

-----------------------------------------------------------------------------
(* DenseStore: the budget holds whatever the threads do.                   *)

\* The sum of the bytes of a list of blocks, block by block.
LEMMA BytesIs ==
  ASSUME NEW s \in Seq(Blocks)
  PROVE  \E f \in [0..Len(s) -> Nat] :
           /\ Bytes(s) = f[Len(s)] /\ f[0] = 0
           /\ \A n \in 1..Len(s) : f[n] = f[n - 1] + BlockBytes[s[n]]
<1> DEFINE N == Len(s)
           step == [n \in 1..N |-> [a \in Nat |-> a + BlockBytes[s[n]]]]
<1>1. N \in Nat /\ \A n \in 1..N : s[n] \in Blocks /\ BlockBytes[s[n]] \in Nat
  BY BytesAssumption
<1>2. step \in [1..N -> [Nat -> Nat]]
  <2>1. \A n \in 1..N : [a \in Nat |-> a + BlockBytes[s[n]]] \in [Nat -> Nat]
    BY <1>1
  <2> QED  BY <2>1
<1>3. \A n \in 1..N : \A a \in Nat : step[n][a] = a + BlockBytes[s[n]]
  OBVIOUS
<1> HIDE DEF step, N
<1>4. PICK f \in [0..N -> Nat] : Recurs(f, N, 0, step)
  BY <1>1, <1>2, Recursion
<1>5. f[0] = 0 /\ \A n \in 1..N : f[n] = f[n - 1] + BlockBytes[s[n]]
  <2>1. \A n \in 1..N : n - 1 \in 0..N
    BY <1>1
  <2> QED  BY <1>3, <1>4, <2>1 DEF Recurs
<1>6. f = [n \in 0..N |-> IF n = 0 THEN 0 ELSE f[n - 1] + BlockBytes[s[n]]]
  <2>1. \A n \in 0..N : n = 0 \/ n \in 1..N
    BY <1>1
  <2>2. f = [n \in 0..N |-> f[n]]
    BY <1>4 DEF Recurs
  <2> QED  BY <1>5, <2>1, <2>2
<1> DEFINE g == CHOOSE g : g = [n \in 0..N |-> IF n = 0 THEN 0 ELSE g[n - 1] + BlockBytes[s[n]]]
<1>7. Bytes(s) = g[N]
  BY DEF Bytes, N
<1>8. g = [n \in 0..N |-> IF n = 0 THEN 0 ELSE g[n - 1] + BlockBytes[s[n]]]
  BY <1>6
<1> HIDE DEF g
<1>9. g[0] = 0 /\ \A n \in 1..N : g[n] = g[n - 1] + BlockBytes[s[n]]
  <2>1. 0 \in 0..N /\ \A n \in 1..N : n \in 0..N /\ n # 0
    BY <1>1
  <2> QED  BY <1>8, <2>1
<1>10. \A n \in 0..N : g[n] \in Nat
  <2> DEFINE P == {n \in 0..N : g[n] \in Nat}
  <2>1. 0 \in P
    BY <1>1, <1>9
  <2>2. ASSUME NEW n \in 1..N, n - 1 \in P PROVE n \in P
    <3>1. n \in 0..N /\ g[n - 1] \in Nat /\ BlockBytes[s[n]] \in Nat
      BY <1>1, <2>2
    <3> QED  BY <1>9, <3>1
  <2>3. \A n \in 0..N : n \in P
    <3> HIDE DEF P
    <3> QED  BY <1>1, <2>1, <2>2, UpTo
  <2> QED  BY <2>3
<1>11. g \in [0..N -> Nat]
  <2>1. g = [n \in 0..N |-> g[n]]
    BY <1>8
  <2> QED  BY <1>10, <2>1
<1> QED  BY <1>7, <1>9, <1>11 DEF N

LEMMA BytesTyped ==
  ASSUME NEW s \in Seq(Blocks)
  PROVE  Bytes(s) \in Nat
<1>1. PICK f \in [0..Len(s) -> Nat] : Bytes(s) = f[Len(s)]
  BY BytesIs
<1>2. Len(s) \in 0..Len(s)
  OBVIOUS
<1> QED  BY <1>1, <1>2

LEMMA BytesOfNone == Bytes(<<>>) = 0
<1>1. <<>> \in Seq(Blocks) /\ Len(<<>>) = 0
  OBVIOUS
<1> QED  BY <1>1, BytesIs

LEMMA BytesOfOne ==
  ASSUME NEW b \in Blocks
  PROVE  Bytes(<<b>>) = BlockBytes[b]
<1> DEFINE s == <<b>>
<1>1. s \in Seq(Blocks) /\ Len(s) = 1 /\ s[1] = b
  OBVIOUS
<1> HIDE DEF s
<1>2. PICK f \in [0..1 -> Nat] : /\ Bytes(s) = f[1] /\ f[0] = 0
                                /\ \A n \in 1..1 : f[n] = f[n - 1] + BlockBytes[s[n]]
  BY <1>1, BytesIs
<1>3. 1 \in 1..1 /\ 1 - 1 = 0 /\ BlockBytes[b] \in Nat
  BY BytesAssumption
<1>4. f[1] = 0 + BlockBytes[b]
  BY <1>1, <1>2, <1>3
<1> QED  BY <1>2, <1>3, <1>4 DEF s

LEMMA BytesOfBoth ==
  ASSUME NEW a \in Seq(Blocks), NEW b \in Seq(Blocks)
  PROVE  Bytes(a \o b) = Bytes(a) + Bytes(b)
<1> DEFINE c == a \o b
           A == Len(a)
           B == Len(b)
<1>1. c \in Seq(Blocks) /\ Len(c) = A + B /\ A \in Nat /\ B \in Nat
      /\ (\A n \in 1..A : c[n] = a[n]) /\ (\A n \in 1..B : c[A + n] = b[n])
  BY ConcatProperties
<1>2. PICK fa \in [0..A -> Nat] : /\ Bytes(a) = fa[A] /\ fa[0] = 0
                                 /\ \A n \in 1..A : fa[n] = fa[n - 1] + BlockBytes[a[n]]
  BY BytesIs
<1>3. PICK fb \in [0..B -> Nat] : /\ Bytes(b) = fb[B] /\ fb[0] = 0
                                 /\ \A n \in 1..B : fb[n] = fb[n - 1] + BlockBytes[b[n]]
  BY BytesIs
<1> HIDE DEF c, A, B
<1>4. PICK fc \in [0..A + B -> Nat] :
         /\ Bytes(c) = fc[A + B] /\ fc[0] = 0
         /\ \A n \in 1..A + B : fc[n] = fc[n - 1] + BlockBytes[c[n]]
  <2>1. \E f \in [0..Len(c) -> Nat] :
           /\ Bytes(c) = f[Len(c)] /\ f[0] = 0
           /\ \A n \in 1..Len(c) : f[n] = f[n - 1] + BlockBytes[c[n]]
    BY <1>1, BytesIs
  <2> QED  BY <1>1, <2>1
<1>5. \A n \in 1..B : BlockBytes[b[n]] \in Nat
  BY BytesAssumption DEF B
<1>6. fc[A] = fa[A]
  <2> DEFINE P == {n \in 0..A : fc[n] = fa[n]}
  <2>1. 0 \in P
    BY <1>1, <1>2, <1>4
  <2>2. ASSUME NEW n \in 1..A, n - 1 \in P PROVE n \in P
    <3>1. n \in 0..A /\ n \in 1..A + B
      BY <1>1
    <3>2. fc[n - 1] = fa[n - 1] /\ c[n] = a[n]
      BY <1>1, <2>2
    <3> QED  BY <1>2, <1>4, <3>1, <3>2
  <2>3. \A n \in 0..A : n \in P
    <3> HIDE DEF P
    <3> QED  BY <1>1, <2>1, <2>2, UpTo
  <2> QED  BY <1>1, <2>3
<1>7. fc[A + B] = fa[A] + fb[B]
  <2> DEFINE P == {n \in 0..B : fc[A + n] = fa[A] + fb[n]}
  <2>0. fa[A] \in Nat
    BY <1>1, <1>2
  <2>1. 0 \in P
    BY <1>1, <1>3, <1>6, <2>0
  <2>2. ASSUME NEW n \in 1..B, n - 1 \in P PROVE n \in P
    <3>1. n \in 0..B /\ A + n \in 1..A + B /\ (A + n) - 1 = A + (n - 1) /\ n - 1 \in 0..B
      <4>1. A \in Nat /\ B \in Nat /\ n \in 1..B
        BY <1>1, <2>2
      <4> HIDE DEF A, B
      <4> QED  BY <4>1
    <3>2. fc[A + (n - 1)] = fa[A] + fb[n - 1] /\ c[A + n] = b[n]
      BY <1>1, <2>2
    <3>3. fc[A + n] = fc[A + (n - 1)] + BlockBytes[b[n]]
      BY <1>4, <3>1, <3>2
    <3>4. fb[n] = fb[n - 1] + BlockBytes[b[n]] /\ fb[n - 1] \in Nat /\ BlockBytes[b[n]] \in Nat
      BY <1>3, <1>5, <3>1
    <3>5. fc[A + n] = fa[A] + fb[n]
      BY <2>0, <3>2, <3>3, <3>4
    <3> QED  BY <3>1, <3>5
  <2>3. \A n \in 0..B : n \in P
    <3> HIDE DEF P
    <3> QED  BY <1>1, <2>1, <2>2, UpTo
  <2> QED  BY <1>1, <2>3
<1> QED  BY <1>2, <1>3, <1>4, <1>7 DEF c

LEMMA BytesOfMore ==
  ASSUME NEW s \in Seq(Blocks), NEW b \in Blocks
  PROVE  Bytes(Append(s, b)) = Bytes(s) + BlockBytes[b]
<1>1. Append(s, b) = s \o <<b>> /\ <<b>> \in Seq(Blocks)
  BY AppendIsConcat
<1> QED  BY <1>1, BytesOfBoth, BytesOfOne

\* Moving a block to the end changes nothing but the order.
LEMMA MovedToEnd ==
  ASSUME NEW s \in Seq(Blocks), NEW k \in 1..Len(s)
  PROVE  LET t == Append(RemoveAt(s, k), s[k])
         IN /\ t \in Seq(Blocks)
            /\ Bytes(t) = Bytes(s)
            /\ ToSet(t) = ToSet(s)
            /\ IsInjective(s) => IsInjective(t)
<1> DEFINE N == Len(s)
           a == SubSeq(s, 1, k - 1)
           b == SubSeq(s, k + 1, N)
           i == s[k]
           t == Append(RemoveAt(s, k), i)
<1>1. N \in Nat /\ k \in 1..N /\ i \in Blocks
  OBVIOUS
<1>2. /\ a \in Seq(Blocks) /\ Len(a) = k - 1
      /\ \A j \in 1..k - 1 : a[j] = s[j]
  <2>1. /\ a \in Seq(Blocks) /\ Len(a) = IF 1 <= k - 1 THEN (k - 1) - 1 + 1 ELSE 0
        /\ \A j \in 1..(k - 1) - 1 + 1 : a[j] = s[1 + j - 1]
    BY <1>1, Middle
  <2> HIDE DEF a
  <2> QED  BY <1>1, <2>1
<1>3. /\ b \in Seq(Blocks) /\ Len(b) = N - k
      /\ \A j \in 1..N - k : b[j] = s[k + j]
  <2>1. /\ b \in Seq(Blocks) /\ Len(b) = IF k + 1 <= N THEN N - (k + 1) + 1 ELSE 0
        /\ \A j \in 1..N - (k + 1) + 1 : b[j] = s[(k + 1) + j - 1]
    BY <1>1, Middle
  <2> HIDE DEF b
  <2> QED  BY <1>1, <2>1
<1>4. t = Append(a \o b, i)
  BY DEF RemoveAt
<1>5. s = a \o (<<i>> \o b)
  <2>1. SubSeq(s, 1, k - 1) \o SubSeq(s, (k - 1) + 1, N) = SubSeq(s, 1, N)
    <3>1. 1 \in 1..Len(s) + 1 /\ k - 1 \in 1 - 1..Len(s) /\ N \in k - 1..Len(s)
      BY <1>1
    <3> QED  BY <3>1, ConcatAdjacentSubSeq
  <2>2. SubSeq(s, k, N) = <<s[k]>> \o SubSeq(s, k + 1, N)
    <3>1. k \in 1..Len(s) /\ N \in k..Len(s)
      BY <1>1
    <3> QED  BY <3>1, SubSeqRecursiveFirst
  <2>3. (k - 1) + 1 = k /\ SubSeq(s, 1, N) = s
    BY <1>1, SubSeqFull
  <2> QED  BY <2>1, <2>2, <2>3
<1> HIDE DEF a, b, t, N
<1>6. /\ a \o b \in Seq(Blocks) /\ Len(a \o b) = N - 1
      /\ \A j \in 1..N - 1 : (a \o b)[j] = IF j < k THEN s[j] ELSE s[j + 1]
  <2>1. /\ a \o b \in Seq(Blocks) /\ Len(a \o b) = (k - 1) + (N - k)
        /\ (\A j \in 1..k - 1 : (a \o b)[j] = a[j]) /\ (\A j \in 1..N - k : (a \o b)[(k - 1) + j] = b[j])
    <3>1. /\ a \o b \in Seq(Blocks) /\ Len(a \o b) = Len(a) + Len(b)
          /\ \A j \in 1..Len(a) : (a \o b)[j] = a[j]
          /\ \A j \in 1..Len(b) : (a \o b)[Len(a) + j] = b[j]
      <4>1. a \in Seq(Blocks) /\ b \in Seq(Blocks)
        BY <1>2, <1>3
      <4> QED  BY <4>1, ConcatProperties
    <3> QED  BY <1>2, <1>3, <3>1
  <2>2. ASSUME NEW j \in 1..N - 1, ~(j < k) PROVE (a \o b)[j] = s[j + 1]
    <3>1. j - (k - 1) \in 1..N - k /\ (k - 1) + (j - (k - 1)) = j /\ k + (j - (k - 1)) = j + 1
      BY <1>1, <2>2
    <3> QED  BY <1>3, <2>1, <3>1
  <2>3. ASSUME NEW j \in 1..N - 1, j < k PROVE (a \o b)[j] = s[j]
    <3>1. j \in 1..k - 1
      BY <1>1, <2>3
    <3> QED  BY <1>2, <2>1, <3>1
  <2>4. (k - 1) + (N - k) = N - 1
    BY <1>1
  <2> QED  BY <2>1, <2>2, <2>3, <2>4
<1>7. /\ t \in Seq(Blocks) /\ Len(t) = N /\ t[N] = i
      /\ \A j \in 1..N - 1 : t[j] = IF j < k THEN s[j] ELSE s[j + 1]
  <2>1. /\ t \in Seq(Blocks) /\ Len(t) = (N - 1) + 1 /\ t[(N - 1) + 1] = i
        /\ \A j \in 1..N - 1 : t[j] = (a \o b)[j]
    <3> DEFINE ab == a \o b
    <3>1. ab \in Seq(Blocks) /\ Len(ab) = N - 1 /\ t = Append(ab, i)
      BY <1>4, <1>6
    <3> HIDE DEF ab
    <3>2. /\ t \in Seq(Blocks) /\ Len(t) = Len(ab) + 1 /\ t[Len(ab) + 1] = i
          /\ \A j \in 1..Len(ab) : t[j] = ab[j]
      BY <1>1, <3>1, AppendProperties
    <3> QED  BY <3>1, <3>2 DEF ab
  <2>2. (N - 1) + 1 = N
    BY <1>1 DEF N
  <2> QED  BY <1>6, <2>1, <2>2
<1>8. Bytes(t) = Bytes(s)
  <2>1. Bytes(t) = (Bytes(a) + Bytes(b)) + BlockBytes[i]
    <3>1. Bytes(a \o b) = Bytes(a) + Bytes(b)
      BY <1>2, <1>3, BytesOfBoth
    <3>2. a \o b \in Seq(Blocks) /\ i \in Blocks /\ t = Append(a \o b, i)
      BY <1>1, <1>4, <1>6
    <3> HIDE DEF a, b, t
    <3>3. Bytes(t) = Bytes(a \o b) + BlockBytes[i]
      BY <3>2, BytesOfMore
    <3> QED  BY <3>1, <3>3
  <2>2. Bytes(s) = Bytes(a) + (BlockBytes[i] + Bytes(b))
    <3>1. <<i>> \in Seq(Blocks) /\ <<i>> \o b \in Seq(Blocks)
      BY <1>1, <1>3, ConcatProperties
    <3>2. Bytes(<<i>> \o b) = BlockBytes[i] + Bytes(b)
      BY <1>1, <1>3, <3>1, BytesOfBoth, BytesOfOne
    <3> QED  BY <1>2, <1>5, <3>1, <3>2, BytesOfBoth
  <2>3. Bytes(a) \in Nat /\ Bytes(b) \in Nat /\ BlockBytes[i] \in Nat
    BY <1>1, <1>2, <1>3, BytesTyped, BytesAssumption
  <2> QED  BY <2>1, <2>2, <2>3
<1> DEFINE from(j) == IF j = N THEN k ELSE IF j < k THEN j ELSE j + 1
<1>9. DOMAIN s = 1..N /\ DOMAIN t = 1..N
  BY <1>7 DEF N
<1>10. \A j \in 1..N : from(j) \in 1..N /\ t[j] = s[from(j)]
  <2> SUFFICES ASSUME NEW j \in 1..N PROVE from(j) \in 1..N /\ t[j] = s[from(j)]
    OBVIOUS
  <2>1. CASE j = N
    BY <1>1, <1>7, <2>1
  <2>2. CASE j # N
    <3>1. j \in 1..N - 1
      BY <1>1, <2>2
    <3> QED  BY <1>1, <1>7, <2>2, <3>1
  <2> QED  BY <2>1, <2>2
<1>11. \A j, m \in 1..N : from(j) = from(m) => j = m
  BY <1>1
<1>12. \A m \in 1..N : \E j \in 1..N : from(j) = m
  <2> SUFFICES ASSUME NEW m \in 1..N PROVE \E j \in 1..N : from(j) = m
    OBVIOUS
  <2>1. CASE m < k
    <3>1. from(m) = m
      BY <1>1, <2>1
    <3> QED  BY <3>1
  <2>2. CASE m = k
    <3>1. from(N) = m /\ N \in 1..N
      BY <1>1, <2>2
    <3> QED  BY <3>1
  <2>3. CASE m > k
    <3>1. from(m - 1) = m /\ m - 1 \in 1..N
      BY <1>1, <2>3
    <3> QED  BY <3>1
  <2> QED  BY <1>1, <2>1, <2>2, <2>3
<1> HIDE DEF from
<1>13. ToSet(t) = ToSet(s)
  BY <1>9, <1>10, <1>12 DEF ToSet
<1>14. IsInjective(s) => IsInjective(t)
  BY <1>9, <1>10, <1>11 DEF IsInjective
<1> QED  BY <1>7, <1>8, <1>13, <1>14 DEF t

-----------------------------------------------------------------------------
(* DenseStore: the budget of the resident blocks.                          *)

\* The types, with the sequences that ToSet hides.
DenseTyped ==
  /\ DenseTypeOK
  /\ resident \in Seq(Blocks)
  /\ queue \in Seq(Blocks \cup {Stop})
  /\ \A r \in Readers : reader[r].pc # "idle" => reader[r].block \in Blocks
  /\ worker.pc = "load" => worker.block \in Blocks

DenseInv == DenseTyped /\ WithinBudget /\ NothingUncounted

LEMMA RangeTyped ==
  ASSUME NEW S, NEW s \in Seq(S)
  PROVE  ToSet(s) \subseteq S /\ ToSet(s) = {s[j] : j \in 1..Len(s)}
<1>1. DOMAIN s = 1..Len(s)
  OBVIOUS
<1> QED  BY <1>1 DEF ToSet

LEMMA RangeOfMore ==
  ASSUME NEW S, NEW s \in Seq(S), NEW e \in S
  PROVE  /\ ToSet(Append(s, e)) = ToSet(s) \cup {e}
         /\ IsInjective(s) /\ e \notin ToSet(s) => IsInjective(Append(s, e))
<1> DEFINE t == Append(s, e)
           n == Len(s) + 1
<1>1. /\ t \in [1..n -> S] /\ Len(t) = n /\ n \in 1..n
      /\ t[n] = e
      /\ \A i \in 1..n : i # n => t[i] = s[i]
  BY AppendIs
<1>2. DOMAIN s = 1..Len(s) /\ DOMAIN t = 1..n
  BY <1>1
<1>3. \A i \in 1..n : i # n <=> i \in 1..Len(s)
  OBVIOUS
<1>3a. 1..Len(s) \subseteq 1..n
  OBVIOUS
<1> HIDE DEF t, n
<1>4. ToSet(t) = ToSet(s) \cup {e}
  <2>1. ASSUME NEW x \in ToSet(t) PROVE x \in ToSet(s) \cup {e}
    <3>1. PICK i \in 1..n : x = t[i]
      BY <1>2, <2>1 DEF ToSet
    <3> QED  BY <1>1, <1>2, <1>3, <3>1 DEF ToSet
  <2>2. ASSUME NEW x \in ToSet(s) PROVE x \in ToSet(t)
    <3>1. PICK i \in 1..Len(s) : x = s[i]
      BY <1>2, <2>2 DEF ToSet
    <3> QED  BY <1>1, <1>2, <1>3, <1>3a, <3>1 DEF ToSet
  <2>3. e \in ToSet(t)
    BY <1>1, <1>2 DEF ToSet
  <2> QED  BY <2>1, <2>2, <2>3
<1>5. ASSUME IsInjective(s), e \notin ToSet(s) PROVE IsInjective(t)
  <2>1. \A i, j \in 1..Len(s) : s[i] = s[j] => i = j
    BY <1>2, <1>5 DEF IsInjective
  <2>2. \A i \in 1..Len(s) : s[i] # e
    BY <1>2, <1>5 DEF ToSet
  <2>3. \A i, j \in 1..n : t[i] = t[j] => i = j
    BY <1>1, <1>3, <2>1, <2>2
  <2> QED  BY <1>2, <2>3 DEF IsInjective
<1> QED  BY <1>4, <1>5 DEF t

\* What move_to_end leaves.
LEMMA TouchKeeps ==
  ASSUME DenseInv, NEW i, Touch(i)
  PROVE  /\ resident' \in Seq(Blocks) /\ IsInjective(resident')
         /\ Resident' = Resident /\ Bytes(resident') = Bytes(resident)
         /\ UNCHANGED <<cache, entry>>
<1>1. resident \in Seq(Blocks) /\ IsInjective(resident)
  BY DEF DenseInv, DenseTyped, DenseTypeOK
<1>2. PICK k \in DOMAIN resident : resident[k] = i /\ resident' = Append(RemoveAt(resident, k), i)
  BY DEF Touch
<1>3. k \in 1..Len(resident)
  BY <1>1
<1>4. LET t == Append(RemoveAt(resident, k), resident[k])
      IN /\ t \in Seq(Blocks)
         /\ Bytes(t) = Bytes(resident)
         /\ ToSet(t) = ToSet(resident)
         /\ IsInjective(resident) => IsInjective(t)
  BY <1>1, <1>3, MovedToEnd
<1> QED  BY <1>1, <1>2, <1>4 DEF Touch, Resident

\* What survives an admission: the most recent blocks, and either the new one
\* fits beside them or there are none left.
LEMMA SurvivorsAre ==
  ASSUME resident \in Seq(Blocks), IsInjective(resident), NEW i \in Blocks
  PROVE  /\ Survivors(i) \in Seq(Blocks) /\ IsInjective(Survivors(i))
         /\ ToSet(Survivors(i)) \subseteq Resident
         /\ FitsBudget(Survivors(i), i) \/ Survivors(i) = <<>>
<1> DEFINE N == Len(resident)
           K == {k \in 0..N : k = 0 \/ FitsBudget(Recent(k), i)}
           m == Max(K)
           s == SubSeq(resident, N - m + 1, N)
<1>1. N \in Nat /\ DOMAIN resident = 1..N
  OBVIOUS
<1>2. K \in SUBSET (0..N) /\ 0 \in K
  BY <1>1
<1>3. m \in K
  <2> HIDE DEF K
  <2> QED  BY <1>1, <1>2, MaxIsIn
<1>4. m \in 0..N /\ (m = 0 \/ FitsBudget(Recent(m), i))
  BY <1>3
<1>5. Survivors(i) = Recent(m) /\ Recent(m) = s
  BY DEF Survivors, Recent
<1> HIDE DEF m, K, N
<1>6. s \in Seq(Blocks) /\ Len(s) = m /\ \A j \in 1..m : s[j] = resident[N - m + j]
  <2>1. N - m + 1 \in Nat \ {0} /\ N <= Len(resident)
    BY <1>1, <1>4 DEF N
  <2>2. /\ s \in Seq(Blocks)
        /\ Len(s) = IF N - m + 1 <= N THEN N - (N - m + 1) + 1 ELSE 0
        /\ \A j \in 1..N - (N - m + 1) + 1 : s[j] = resident[(N - m + 1) + j - 1]
    BY <1>1, <2>1, Middle
  <2> HIDE DEF s
  <2>3. N - (N - m + 1) + 1 = m /\ (~(N - m + 1 <= N) => m = 0) /\ \A j \in 1..m : (N - m + 1) + j - 1 = N - m + j
    BY <1>1, <1>4
  <2> QED  BY <2>2, <2>3
<1> HIDE DEF s
<1>7. DOMAIN s = 1..m
  BY <1>6
<1>8. \A j \in 1..m : N - m + j \in 1..N
  BY <1>1, <1>4
<1>9. IsInjective(s)
  <2> SUFFICES ASSUME NEW j \in 1..m, NEW k \in 1..m, s[j] = s[k] PROVE j = k
    BY <1>7 DEF IsInjective
  <2>1. N - m + j = N - m + k
    BY <1>1, <1>6, <1>8 DEF IsInjective
  <2> QED  BY <1>1, <1>4, <2>1
<1>10. ToSet(s) \subseteq Resident
  BY <1>1, <1>6, <1>7, <1>8 DEF ToSet, Resident
<1>11. m = 0 => s = <<>>
  BY <1>6
<1> QED  BY <1>4, <1>5, <1>6, <1>9, <1>10, <1>11

\* An admission keeps the budget and leaves no module uncounted.
LEMMA AdmitKeeps ==
  ASSUME DenseInv, NEW i \in Blocks, i \notin Resident, Admit(i)
  PROVE  /\ resident' \in Seq(Blocks) /\ IsInjective(resident')
         /\ cache' \subseteq Blocks /\ entry' \in [Blocks -> {"module", "placeholder"}]
         /\ WithinBudget' /\ NothingUncounted'
<1> DEFINE kept == Survivors(i)
           evicted == Resident \ ToSet(kept)
<1>1. resident \in Seq(Blocks) /\ IsInjective(resident) /\ cache \subseteq Blocks
      /\ entry \in [Blocks -> {"module", "placeholder"}]
  BY DEF DenseInv, DenseTyped, DenseTypeOK
<1>2. /\ kept \in Seq(Blocks) /\ IsInjective(kept) /\ ToSet(kept) \subseteq Resident
      /\ FitsBudget(kept, i) \/ kept = <<>>
  BY <1>1, SurvivorsAre
<1>3. /\ resident' = IF FitsBudget(kept, i) THEN Append(kept, i) ELSE kept
      /\ cache' = (cache \ evicted) \cup {i}
      /\ entry' = [b \in Blocks |-> IF b = i THEN "module"
                                    ELSE IF b \in evicted THEN "placeholder"
                                    ELSE entry[b]]
  BY DEF Admit
<1> HIDE DEF kept
<1>4. cache' \subseteq Blocks /\ entry' \in [Blocks -> {"module", "placeholder"}]
  BY <1>1, <1>3
<1>5. BlockBytes[i] \in Nat /\ CapacityBytes \in Nat
  BY BytesAssumption, CapacityAssumption
<1>6. CASE FitsBudget(kept, i)
  <2>1. resident' \in Seq(Blocks)
    BY <1>2, <1>3, <1>6, AppendProperties
  <2>2. Resident' = ToSet(kept) \cup {i} /\ IsInjective(resident')
    BY <1>2, <1>3, <1>6, RangeOfMore DEF Resident
  <2>3. WithinBudget'
    BY <1>2, <1>3, <1>6, BytesOfMore DEF WithinBudget, FitsBudget
  <2>4. NothingUncounted'
    BY <1>3, <2>2 DEF DenseInv, NothingUncounted
  <2> QED  BY <1>4, <2>1, <2>2, <2>3, <2>4
<1>7. CASE ~FitsBudget(kept, i)
  <2>1. kept = <<>> /\ resident' = <<>> /\ Resident' = {} /\ ToSet(kept) = {}
    BY <1>2, <1>3, <1>7 DEF Resident, ToSet
  <2>2. BlockBytes[i] > CapacityBytes
    BY <1>5, <1>7, <2>1, BytesOfNone DEF FitsBudget
  <2>3. resident' \in Seq(Blocks) /\ IsInjective(resident')
    BY <1>2, <2>1
  <2>4. WithinBudget'
    BY <1>5, <2>1, BytesOfNone DEF WithinBudget
  <2>5. NothingUncounted'
    BY <1>3, <2>1, <2>2 DEF DenseInv, NothingUncounted
  <2> QED  BY <1>4, <2>3, <2>4, <2>5
<1> QED  BY <1>6, <1>7

LEMMA DenseStart == DenseInit => DenseInv
<1> SUFFICES ASSUME DenseInit PROVE DenseInv
  OBVIOUS
<1>1. resident = <<>> /\ resident \in Seq(Blocks) /\ Resident = {} /\ IsInjective(resident)
  BY DEF DenseInit, Resident, ToSet, IsInjective
<1>2. queue = <<>> /\ queue \in Seq(Blocks \cup {Stop}) /\ ToSet(queue) = {}
  BY DEF DenseInit, ToSet
<1>3. DenseTyped
  BY <1>1, <1>2, OverlapAssumption, RequestsAssumption DEF DenseInit, DenseTyped, DenseTypeOK, Nothing
<1>4. WithinBudget
  BY <1>1, BytesOfNone, CapacityAssumption DEF WithinBudget
<1>5. NothingUncounted
  BY DEF DenseInit, NothingUncounted
<1> QED  BY <1>3, <1>4, <1>5 DEF DenseInv

\* The part of the types that the readers and the prefetch thread own.
Threads ==
  /\ reader \in [Readers -> [pc : {"idle", "load", "advise", "put"},
                             block : Blocks \cup {Nothing}]]
  /\ held \in [Readers -> Blocks \cup {Nothing}]
  /\ queue \in Seq(Blocks \cup {Stop})
  /\ worker \in [pc : {"get", "load", "stopped"}, block : Blocks \cup {Nothing}]
  /\ mode \in {"open", "closing", "closed"}
  /\ requests \in 0..MaxRequests
  /\ \A r \in Readers : reader[r].pc # "idle" => reader[r].block \in Blocks
  /\ worker.pc = "load" => worker.block \in Blocks

\* The part that the critical sections keep.
Kept ==
  /\ resident \in Seq(Blocks) /\ IsInjective(resident)
  /\ cache \subseteq Blocks /\ entry \in [Blocks -> {"module", "placeholder"}]
  /\ WithinBudget /\ NothingUncounted

LEMMA DenseParts == DenseInv <=> Threads /\ Kept
<1>1. DenseInv => Threads /\ Kept
  BY DEF DenseInv, DenseTyped, DenseTypeOK, Threads, Kept
<1>2. ASSUME Threads, Kept PROVE DenseInv
  <2>1. ToSet(queue) \subseteq Blocks \cup {Stop} /\ Resident \subseteq Blocks
    BY <1>2, RangeTyped DEF Threads, Kept, Resident
  <2> QED  BY <1>2, <2>1 DEF DenseInv, DenseTyped, DenseTypeOK, Threads, Kept
<1> QED  BY <1>1, <1>2

LEMMA SectionKeeps ==
  ASSUME DenseInv, NEW i \in Blocks,
         \/ i \in Resident /\ Touch(i)
         \/ i \notin Resident /\ Admit(i)
         \/ UNCHANGED cacheVars
  PROVE  Kept'
<1>1. CASE Touch(i)
  <2>1. /\ resident' \in Seq(Blocks) /\ IsInjective(resident')
        /\ Resident' = Resident /\ Bytes(resident') = Bytes(resident)
        /\ cache' = cache /\ entry' = entry
    BY <1>1, TouchKeeps
  <2> QED  BY <2>1 DEF DenseInv, DenseTyped, DenseTypeOK, Kept, WithinBudget, NothingUncounted
<1>2. CASE i \notin Resident /\ Admit(i)
  BY <1>2, AdmitKeeps DEF Kept
<1>3. CASE UNCHANGED cacheVars
  BY <1>3, DenseParts DEF cacheVars, Kept, WithinBudget, NothingUncounted, Resident
<1> QED  BY <1>1, <1>2, <1>3

LEMMA ThreadsStep ==
  ASSUME DenseInv, DenseNext
  PROVE  Threads'
<1>1. Threads /\ (\A q \in Seq(Blocks \cup {Stop}), b \in Blocks \cup {Stop} : Append(q, b) \in Seq(Blocks \cup {Stop}))
  BY DenseParts
<1> DEFINE places == [pc : {"idle", "load", "advise", "put"}, block : Blocks \cup {Nothing}]
<1>2. ASSUME NEW r \in Readers, NEW p \in places, p.pc # "idle" => p.block \in Blocks,
             reader' = [reader EXCEPT ![r] = p]
      PROVE  /\ reader' \in [Readers -> places]
             /\ \A s \in Readers : reader'[s].pc # "idle" => reader'[s].block \in Blocks
  BY <1>1, <1>2 DEF Threads
<1>3. \A at \in {"idle", "load", "advise", "put"}, b \in Blocks \cup {Nothing} : [pc |-> at, block |-> b] \in places
  OBVIOUS
<1> HIDE DEF places
<1>4. ASSUME NEW r \in Readers, NEW i \in Blocks, Request(r, i) PROVE Threads'
  <2>1. requests' \in 0..MaxRequests
    BY <1>1, <1>4, RequestsAssumption DEF Request, Threads
  <2>2. \E at \in {"advise", "load"} : reader' = [reader EXCEPT ![r] = [pc |-> at, block |-> i]]
    BY <1>4 DEF Request
  <2>3. /\ reader' \in [Readers -> places]
        /\ \A s \in Readers : reader'[s].pc # "idle" => reader'[s].block \in Blocks
    BY <1>2, <1>3, <2>2
  <2>4. held' \in [Readers -> Blocks \cup {Nothing}]
    BY <1>1, <1>4 DEF Request, Threads
  <2> QED  BY <1>1, <1>4, <2>1, <2>3, <2>4 DEF Request, Threads, places
<1>5. ASSUME NEW r \in Readers, Loaded(r) PROVE Threads'
  <2>1. reader[r] \in places /\ reader[r].block \in Blocks
    BY <1>1, <1>5 DEF Threads, Loaded, At, places
  <2>2. reader' = [reader EXCEPT ![r] = [pc |-> "advise", block |-> reader[r].block]]
    <3>1. \A p \in places : [p EXCEPT !.pc = "advise"] = [pc |-> "advise", block |-> p.block]
      BY DEF places
    <3>2. reader' = [reader EXCEPT ![r] = [reader[r] EXCEPT !.pc = "advise"]]
      BY <1>5 DEF Loaded
    <3> QED  BY <2>1, <3>1, <3>2
  <2>3. /\ reader' \in [Readers -> places]
        /\ \A s \in Readers : reader'[s].pc # "idle" => reader'[s].block \in Blocks
    BY <1>2, <1>3, <2>1, <2>2
  <2>4. held' \in [Readers -> Blocks \cup {Nothing}]
    BY <1>1, <1>5, <2>1 DEF Loaded, Threads
  <2> QED  BY <1>1, <1>5, <2>3, <2>4 DEF Loaded, Threads, places
<1>6. ASSUME NEW r \in Readers, LoadFails(r) \/ Put(r) PROVE Threads'
  <2>1. reader' = [reader EXCEPT ![r] = [pc |-> "idle", block |-> Nothing]]
    BY <1>6 DEF LoadFails, Put
  <2>2. /\ reader' \in [Readers -> places]
        /\ \A s \in Readers : reader'[s].pc # "idle" => reader'[s].block \in Blocks
    BY <1>2, <1>3, <2>1
  <2>3. held' \in [Readers -> Blocks \cup {Nothing}]
    BY <1>1, <1>6 DEF LoadFails, Put, Threads
  <2>4. queue' \in Seq(Blocks \cup {Stop})
    <3>1. CASE Put(r)
      BY <1>1, <3>1 DEF Put, Threads, At
    <3>2. CASE LoadFails(r)
      BY <1>1, <3>2 DEF LoadFails, Threads
    <3> QED  BY <1>6, <3>1, <3>2
  <2>5. UNCHANGED <<worker, mode, requests>>
    BY <1>6 DEF LoadFails, Put
  <2> QED  BY <1>1, <2>2, <2>3, <2>4, <2>5 DEF Threads, places
<1>7. ASSUME NEW r \in Readers, Advise(r) PROVE Threads'
  <2>1. \E p \in places : /\ p.pc # "idle" => p.block \in Blocks
                          /\ reader' = [reader EXCEPT ![r] = p]
    <3> DEFINE next == reader[r].block + 1
    <3>1. CASE next \in Blocks /\ reader' = [reader EXCEPT ![r] = [pc |-> "put", block |-> next]]
      <4> HIDE DEF next
      <4> DEFINE p == [pc |-> "put", block |-> next]
      <4>1. p \in places /\ p.block \in Blocks
        BY <1>3, <3>1
      <4> QED  BY <3>1, <4>1
    <3>2. CASE reader' = [reader EXCEPT ![r] = [pc |-> "idle", block |-> Nothing]]
      <4> DEFINE p == [pc |-> "idle", block |-> Nothing]
      <4>1. p \in places /\ p.pc = "idle"
        BY <1>3
      <4> QED  BY <3>2, <4>1
    <3> QED  BY <1>7, <3>1, <3>2 DEF Advise
  <2>2. /\ reader' \in [Readers -> places]
        /\ \A s \in Readers : reader'[s].pc # "idle" => reader'[s].block \in Blocks
    BY <1>2, <2>1
  <2> QED  BY <1>1, <1>7, <2>2 DEF Advise, Threads, places
<1>8. ASSUME NEW r \in Readers, Drop(r) PROVE Threads'
  BY <1>1, <1>8 DEF Drop, Threads
<1>9. CASE WorkerTakes
  <2>1. Head(queue) \in Blocks \cup {Stop} /\ Tail(queue) \in Seq(Blocks \cup {Stop})
    BY <1>1, <1>9, HeadTailProperties DEF WorkerTakes, Threads
  <2>2. /\ worker' \in [pc : {"get", "load", "stopped"}, block : Blocks \cup {Nothing}]
        /\ worker'.pc = "load" => worker'.block \in Blocks
    BY <1>1, <1>9, <2>1 DEF WorkerTakes, Threads
  <2> QED  BY <1>1, <1>9, <2>1, <2>2 DEF WorkerTakes, Threads
<1>10. CASE WorkerLoaded \/ WorkerFails \/ WorkerOrphaned
  <2>1. /\ worker' \in [pc : {"get", "load", "stopped"}, block : Blocks \cup {Nothing}]
        /\ worker'.pc # "load"
    BY <1>10 DEF WorkerLoaded, WorkerFails, WorkerOrphaned
  <2>2. UNCHANGED <<reader, held, queue, mode, requests>>
    BY <1>10 DEF WorkerLoaded, WorkerFails, WorkerOrphaned
  <2> QED  BY <1>1, <2>1, <2>2 DEF Threads
<1>11. CASE Close \/ Joined
  BY <1>1, <1>11 DEF Close, Joined, Threads
<1> QED  BY <1>4, <1>5, <1>6, <1>7, <1>8, <1>9, <1>10, <1>11 DEF DenseNext, ReaderStep, WorkerStep

LEMMA KeptStep ==
  ASSUME DenseInv, DenseNext
  PROVE  Kept'
<1>1. Threads /\ Kept
  BY DenseParts
<1>2. 0 \in Blocks
  BY BlocksAssumption DEF Blocks
<1>3. ASSUME NEW r \in Readers, NEW i \in Blocks, Request(r, i) PROVE Kept'
  BY <1>3, SectionKeeps DEF Request
<1>4. ASSUME NEW r \in Readers, Loaded(r) PROVE Kept'
  <2>1. reader[r].block \in Blocks
    BY <1>1, <1>4 DEF Threads, Loaded, At
  <2> QED  BY <1>4, <2>1, SectionKeeps DEF Loaded
<1>5. CASE WorkerLoaded
  <2>1. worker.block \in Blocks
    BY <1>1, <1>5 DEF Threads, WorkerLoaded
  <2> QED  BY <1>5, <2>1, SectionKeeps DEF WorkerLoaded
<1>6. ASSUME NEW r \in Readers, LoadFails(r) \/ Advise(r) \/ Put(r) \/ Drop(r) PROVE Kept'
  <2>1. UNCHANGED cacheVars
    BY <1>6 DEF LoadFails, Advise, Put, Drop
  <2> QED  BY <1>2, <2>1, SectionKeeps
<1>7. CASE WorkerTakes \/ WorkerFails \/ WorkerOrphaned \/ Close \/ Joined
  <2>1. UNCHANGED cacheVars
    BY <1>7 DEF WorkerTakes, WorkerFails, WorkerOrphaned, Close, Joined
  <2> QED  BY <1>2, <2>1, SectionKeeps
<1> QED  BY <1>3, <1>4, <1>5, <1>6, <1>7 DEF DenseNext, ReaderStep, WorkerStep

LEMMA DenseInvariant == DenseSpec => []DenseInv
<1>1. DenseInv /\ [DenseNext]_denseVars => DenseInv'
  <2> SUFFICES ASSUME DenseInv, [DenseNext]_denseVars PROVE DenseInv'
    OBVIOUS
  <2>1. CASE DenseNext
    <3>1. Threads' /\ Kept'
      BY <2>1, ThreadsStep, KeptStep
    <3>2. Threads' /\ Kept' => DenseInv'
      BY DenseParts, PTL
    <3> QED  BY <3>1, <3>2
  <2>2. CASE UNCHANGED denseVars
    BY <2>2 DEF denseVars, cacheVars, DenseInv, DenseTyped, DenseTypeOK, Resident, WithinBudget, NothingUncounted
  <2> QED  BY <2>1, <2>2
<1> QED  BY <1>1, DenseStart, PTL DEF DenseSpec

\* Every variable of the block list keeps its type, and no block is charged twice
\* (the ordered dictionary _resident of DenseStreamList).
THEOREM DenseTypeCorrect == DenseSpec => []DenseTypeOK
<1>1. DenseInv => DenseTypeOK
  BY DEF DenseInv, DenseTyped
<1> QED  BY <1>1, DenseInvariant, PTL

\* However many readers and whatever the blocks weigh, the blocks charged to the
\* budget stay within it (_admit and _evict of DenseStreamList).
THEOREM DenseBudgetRespected == DenseSpec => []WithinBudget
<1>1. DenseInv => WithinBudget
  BY DEF DenseInv
<1> QED  BY <1>1, DenseInvariant, PTL

\* Every module the list keeps is charged to the budget unless it alone exceeds it
\* (the two sections of _ensure_resident, and _worker).
THEOREM DenseCountsAll == DenseSpec => []NothingUncounted
<1>1. DenseInv => NothingUncounted
  BY DEF DenseInv
<1> QED  BY <1>1, DenseInvariant, PTL

-----------------------------------------------------------------------------
(* CacheStorage: the pages of a cache.                                     *)

\* Where a page begins, the first one being page 0.
Base(k) == k * PageSize

LEMMA BaseStep ==
  ASSUME NEW k \in Int
  PROVE  Base(k) \in Int /\ Base(k + 1) = Base(k) + PageSize /\ Base(0) = 0
BY SizesAssumption DEF Base

LEMMA BaseTyped ==
  ASSUME NEW k \in Int
  PROVE  Base(k) \in Int
BY SizesAssumption DEF Base

LEMMA BaseGrows ==
  ASSUME NEW k \in Int, NEW m \in Int, k <= m
  PROVE  Base(k) <= Base(m)
<1>1. m - k \in Nat /\ Base(m) = Base(k) + Base(m - k)
  BY SizesAssumption DEF Base
<1>2. Base(m - k) >= 0
  BY <1>1, SizesAssumption DEF Base
<1> QED  BY <1>1, <1>2, BaseStep

\* The page of a position and its place there.
PageAt(p) == p \div PageSize
PlaceAt(p) == p % PageSize

LEMMA CellOf ==
  ASSUME NEW p \in Nat
  PROVE  PageAt(p) \in Nat /\ PlaceAt(p) \in 0..PageSize - 1 /\ p = Base(PageAt(p)) + PlaceAt(p)
<1> DEFINE k == PageAt(p)
           o == PlaceAt(p)
<1>1. PageSize \in Nat \ {0}
  BY SizesAssumption
<1>2. k \in Int /\ o \in 0..PageSize - 1 /\ PageSize * k + o = p
  BY <1>1 DEF PageAt, PlaceAt
<1> HIDE DEF k, o
<1>4. PageSize * k = k * PageSize
  BY <1>1, <1>2
<1>5. p = Base(k) + o
  BY <1>2, <1>4 DEF Base
<1>6. k \in Nat
  <2> SUFFICES ASSUME k <= -1 PROVE FALSE
    BY <1>2
  <2>1. Base(k + 1) <= 0 /\ Base(k + 1) = Base(k) + PageSize
    <3>1. k + 1 \in Int /\ 0 \in Int /\ k + 1 <= 0
      BY <1>2
    <3>2. Base(k + 1) <= Base(0)
      BY <3>1, BaseGrows
    <3> QED  BY <1>2, <3>2, BaseStep
  <2>2. Base(k) \in Int
    BY <1>2, BaseStep
  <2>3. o < PageSize /\ o \in Int /\ PageSize \in Int
    BY <1>1, <1>2
  <2> QED  BY <1>5, <2>1, <2>2, <2>3
<1> QED  BY <1>2, <1>5, <1>6 DEF k, o

\* Positions of one page are told apart by their place, and a page ends where
\* the next one begins.
LEMMA CellUnique ==
  ASSUME NEW k \in Int, NEW m \in Int, NEW o \in 0..PageSize - 1, NEW r \in 0..PageSize - 1,
         Base(k) + o = Base(m) + r
  PROVE  k = m /\ o = r
<1>0. Base(k) \in Int /\ Base(m) \in Int /\ o \in Int /\ r \in Int /\ PageSize \in Nat
  BY BaseStep, SizesAssumption
<1>1. ASSUME k < m PROVE FALSE
  <2>1. Base(k + 1) <= Base(m) /\ Base(k + 1) = Base(k) + PageSize
    BY <1>1, BaseGrows, BaseStep
  <2>2. o <= PageSize - 1 /\ r >= 0
    BY SizesAssumption
  <2> QED  BY <1>0, <2>1, <2>2
<1>2. ASSUME m < k PROVE FALSE
  <2>1. Base(m + 1) <= Base(k) /\ Base(m + 1) = Base(m) + PageSize
    BY <1>2, BaseGrows, BaseStep
  <2>2. r <= PageSize - 1 /\ o >= 0
    BY SizesAssumption
  <2> QED  BY <1>0, <2>1, <2>2
<1>3. k = m
  BY <1>1, <1>2
<1> QED  BY <1>0, <1>3

\* A round stays in its page and before the end.
LEMMA TakeBounds ==
  ASSUME NEW p \in Nat, NEW to \in Nat, p <= to
  PROVE  /\ Take(p, to) \in Nat /\ p + Take(p, to) <= to
         /\ (p % PageSize) + Take(p, to) <= PageSize
         /\ p < to => Take(p, to) >= 1
<1> DEFINE r == p % PageSize
<1>1. r \in 0..PageSize - 1 /\ PageSize \in Nat
  BY CellOf, SizesAssumption DEF PlaceAt
<1>2. Take(p, to) = IF to - p <= PageSize - r THEN to - p ELSE PageSize - r
  <2>1. to - p \in Int /\ PageSize - r \in Int
    BY <1>1
  <2> HIDE DEF r
  <2>2. Take(p, to) = Min({to - p, PageSize - r})
    BY DEF Take, r
  <2> QED  BY <2>1, <2>2, MinOfTwo
<1> HIDE DEF r
<1>3. Take(p, to) \in Nat /\ p + Take(p, to) <= to /\ r + Take(p, to) <= PageSize
  BY <1>1, <1>2
<1>4. p < to => Take(p, to) >= 1
  BY <1>1, <1>2
<1> QED  BY <1>3, <1>4 DEF r

\* A function that satisfies the equation of a recursive definition.
Solves(g, N, A, base, step) ==
  /\ g = [n \in 0..N |-> g[n]] /\ g[0] = base
  /\ \A n \in 1..N : g[n - 1] \in A => g[n] = step[n][g[n - 1]]

LEMMA Unrolled ==
  ASSUME NEW N \in Nat, NEW A, NEW base \in A, NEW step \in [1..N -> [A -> A]],
         NEW g, Solves(g, N, A, base, step)
  PROVE  g \in [0..N -> A]
<1>0. /\ g = [n \in 0..N |-> g[n]] /\ g[0] = base
      /\ \A n \in 1..N : g[n - 1] \in A => g[n] = step[n][g[n - 1]]
  BY DEF Solves
<1> DEFINE P == {n \in 0..N : g[n] \in A}
<1>1. 0 \in P
  BY <1>0
<1>2. ASSUME NEW n \in 1..N, n - 1 \in P PROVE n \in P
  <2>1. n \in 0..N /\ g[n - 1] \in A /\ step[n] \in [A -> A]
    BY <1>2
  <2> QED  BY <1>0, <2>1
<1>3. \A n \in 0..N : n \in P
  <2> HIDE DEF P
  <2> QED  BY <1>1, <1>2, UpTo
<1>4. \A n \in 0..N : g[n] \in A
  BY <1>3
<1> QED  BY <1>0, <1>4

\* The positions where the rounds over N positions begin.
Begins(at, from, N, to) ==
  /\ at \in [0..N -> from..to] /\ at[0] = from /\ at[N] = to
  /\ \A n \in 1..N : at[n] = at[n - 1] + Take(at[n - 1], to)

LEMMA RoundsAre ==
  ASSUME NEW from \in Nat, NEW N \in Nat, NEW to \in Nat, to = from + N
  PROVE  Begins(Rounds(from, to), from, N, to)
<1> DEFINE A == from..to
           step == [n \in 1..N |-> [a \in A |-> a + Take(a, to)]]
           at == Rounds(from, to)
<1>1. N \in Nat /\ from \in A /\ to - from = N
  OBVIOUS
<1>2. \A a \in A : a \in Nat /\ a <= to /\ a + Take(a, to) \in A
  <2> SUFFICES ASSUME NEW a \in A PROVE a \in Nat /\ a <= to /\ a + Take(a, to) \in A
    OBVIOUS
  <2>1. a \in Nat /\ a <= to
    OBVIOUS
  <2>2. Take(a, to) \in Nat /\ a + Take(a, to) <= to
    BY <2>1, TakeBounds
  <2> QED  BY <2>1, <2>2
<1>3. step \in [1..N -> [A -> A]] /\ \A n \in 1..N : \A a \in A : step[n][a] = a + Take(a, to)
  <2>1. [a \in A |-> a + Take(a, to)] \in [A -> A]
    BY <1>2
  <2> QED  BY <2>1
<1> HIDE DEF step, A
<1>4. PICK f \in [0..N -> A] : Recurs(f, N, from, step)
  BY <1>1, <1>3, Recursion
<1>5. f = [n \in 0..N |-> IF n = 0 THEN from ELSE LET p == f[n - 1] IN p + Take(p, to)]
  <2>1. \A n \in 0..N : n = 0 \/ n \in 1..N
    BY <1>1
  <2>2. \A n \in 1..N : n - 1 \in 0..N
    BY <1>1
  <2>3. \A n \in 1..N : f[n] = f[n - 1] + Take(f[n - 1], to)
    BY <1>3, <1>4, <2>2 DEF Recurs
  <2> QED  BY <1>4, <2>1, <2>3 DEF Recurs
<1>6. at = [n \in 0..N |-> IF n = 0 THEN from ELSE LET p == at[n - 1] IN p + Take(p, to)]
  <2> DEFINE g == CHOOSE g : g = [n \in 0..N |-> IF n = 0 THEN from ELSE LET p == g[n - 1] IN p + Take(p, to)]
  <2>1. at = g
    BY <1>1 DEF Rounds
  <2>2. g = [n \in 0..N |-> IF n = 0 THEN from ELSE LET p == g[n - 1] IN p + Take(p, to)]
    BY <1>5
  <2> HIDE DEF g, at
  <2> QED  BY <2>1, <2>2
<1> HIDE DEF at
<1>7. /\ at = [n \in 0..N |-> at[n]] /\ at[0] = from
      /\ \A n \in 1..N : at[n] = at[n - 1] + Take(at[n - 1], to)
  <2>1. 0 \in 0..N /\ \A n \in 1..N : n \in 0..N /\ n # 0
    BY <1>1
  <2> QED  BY <1>6, <2>1
<1>8. at \in [0..N -> A]
  <2>1. \A n \in 1..N : at[n - 1] \in A => at[n] = step[n][at[n - 1]]
    BY <1>3, <1>7
  <2>2. step \in [1..N -> [A -> A]]
    BY <1>3
  <2>3. at = [n \in 0..N |-> at[n]]
    BY <1>7
  <2>4. at[0] = from
    BY <1>7
  <2>5. Solves(at, N, A, from, step)
    BY <2>1, <2>3, <2>4 DEF Solves
  <2> QED  BY <1>1, <2>2, <2>5, Unrolled
<1>9. at[N] = to
  <2> DEFINE P == {n \in 0..N : at[n] = to \/ at[n] >= from + n}
  <2>1. 0 \in P
    BY <1>1, <1>7
  <2>2. ASSUME NEW n \in 1..N, n - 1 \in P PROVE n \in P
    <3> DEFINE p == at[n - 1]
    <3>1. n \in 0..N /\ n \in Nat /\ n - 1 \in 0..N /\ N \in Nat
      BY <1>1
    <3>2. p \in A /\ at[n] \in A
      BY <1>8, <3>1
    <3>3. p \in Nat /\ p <= to /\ at[n] <= to /\ at[n] \in Nat
      BY <3>2 DEF A
    <3>4. at[n] = p + Take(p, to)
      BY <1>7
    <3>5. p = to \/ p >= from + (n - 1)
      BY <2>2
    <3> HIDE DEF p
    <3>6. Take(p, to) \in Nat /\ (p < to => Take(p, to) >= 1)
      BY <3>3, TakeBounds
    <3>7. at[n] = to \/ at[n] >= from + n
      BY <3>1, <3>3, <3>4, <3>5, <3>6
    <3> QED  BY <3>1, <3>7
  <2>3. \A n \in 0..N : n \in P
    <3> HIDE DEF P
    <3> QED  BY <1>1, <2>1, <2>2, UpTo
  <2>4. N \in 0..N /\ at[N] \in A /\ from + N = to
    BY <1>1, <1>8
  <2>5. at[N] = to \/ at[N] >= to
    BY <2>3, <2>4
  <2>6. at[N] \in Nat /\ at[N] <= to
    BY <2>4 DEF A
  <2> QED  BY <2>5, <2>6
<1> QED  BY <1>7, <1>8, <1>9 DEF at, A, Begins

Book == [Layers -> [1..PageSize -> Entries]]

\* The position of a place of a page, both counted from 1; what is stored there.
Spot(page, place) == Base(page - 1) + place - 1
Between(x, from, to) == x \in from..to - 1
Given(x) == chunk[x - pos + 1]

LEMMA SpotTyped ==
  ASSUME NEW L \in Nat, NEW page \in 1..L, NEW place \in 1..PageSize
  PROVE  Spot(page, place) \in Int
<1>1. page - 1 \in Int /\ place \in Int
  OBVIOUS
<1>2. Base(page - 1) \in Int
  BY <1>1, BaseTyped
<1> QED  BY <1>1, <1>2 DEF Spot

\* The pages w are the pages a, but for the chunk at positions from..to - 1 of
\* one layer.
Stored(w, a, L, l, from, to) ==
  \A k \in 1..L, q \in Layers, o \in 1..PageSize :
    w[k][q][o] = IF q = l /\ Between(Spot(k, o), from, to) THEN Given(Spot(k, o)) ELSE a[k][q][o]

LEMMA StoredNone ==
  ASSUME NEW w, NEW L \in Nat, NEW l, NEW m \in Int
  PROVE  Stored(w, w, L, l, m, m)
<1>1. \A x : ~ Between(x, m, m)
  BY DEF Between
<1> QED  BY <1>1 DEF Stored

LEMMA StoredMore ==
  ASSUME NEW w, NEW b, NEW a, NEW L \in Nat, NEW l \in Layers,
         NEW n \in Int, NEW p \in Int, NEW m \in Int, n <= p, p <= m,
         Stored(w, b, L, l, p, m), Stored(b, a, L, l, n, p)
  PROVE  Stored(w, a, L, l, n, m)
<1>1. ASSUME NEW x \in Int
      PROVE  Between(x, n, m) <=> Between(x, n, p) \/ Between(x, p, m)
  BY DEF Between
<1>2. \A k \in 1..L, o \in 1..PageSize :
        Between(Spot(k, o), n, m) <=> Between(Spot(k, o), n, p) \/ Between(Spot(k, o), p, m)
  BY <1>1, SpotTyped
<1> QED  BY <1>2 DEF Stored

\* A position in the round at p is in the page of p.
LEMMA InRound ==
  ASSUME NEW p \in Nat, NEW to \in Nat, p <= to, NEW k \in Int, NEW o \in 0..PageSize - 1,
         Base(k) + o \in p..p + Take(p, to) - 1
  PROVE  k = PageAt(p) /\ o - PlaceAt(p) = Base(k) + o - p
<1> DEFINE K == PageAt(p)
           r == PlaceAt(p)
           t == Take(p, to)
           x == Base(k) + o
<1>1. K \in Int /\ r \in 0..PageSize - 1 /\ p = Base(K) + r /\ PageSize \in Nat
  BY CellOf, SizesAssumption
<1>2. t \in Nat /\ r + t <= PageSize
  BY TakeBounds DEF PlaceAt
<1>3. x \in p..p + t - 1 /\ Base(k) \in Int /\ Base(K) \in Int
  BY <1>1, BaseTyped
<1> HIDE DEF K, r, t
<1>4. x - Base(K) \in 0..PageSize - 1 /\ Base(K) + (x - Base(K)) = Base(k) + o
  <2> HIDE DEF x
  <2>1. x \in Int /\ x >= p /\ x <= p + t - 1
    BY <1>2, <1>3
  <2>2. x - Base(K) >= 0 /\ x - Base(K) <= PageSize - 1
    BY <1>1, <1>2, <1>3, <2>1
  <2>3. Base(K) + (x - Base(K)) = x
    BY <1>3, <2>1
  <2> QED  BY <1>3, <2>1, <2>2, <2>3 DEF x
<1>5. K = k
  <2> HIDE DEF x
  <2> QED  BY <1>1, <1>4, CellUnique
<1>6. o - r = x - p
  BY <1>1, <1>3, <1>5
<1> QED  BY <1>1, <1>3, <1>5, <1>6 DEF K, r

LEMMA PageInside ==
  ASSUME NEW p \in Nat, NEW L \in Nat, p < Base(L)
  PROVE  PageAt(p) + 1 \in 1..L
<1>1. PageAt(p) \in Nat /\ PlaceAt(p) \in Nat /\ p = Base(PageAt(p)) + PlaceAt(p)
  <2>1. PlaceAt(p) \in 0..PageSize - 1
    BY CellOf
  <2> QED  BY <2>1, CellOf
<1> DEFINE K == PageAt(p)
           r == PlaceAt(p)
<1> HIDE DEF K, r
<1>2. ASSUME K >= L PROVE FALSE
  <2>1. Base(L) <= Base(K) /\ Base(L) \in Int /\ Base(K) \in Int
    BY <1>1, <1>2, BaseGrows, BaseStep DEF K
  <2>2. p = Base(K) + r /\ r \in Nat
    BY <1>1 DEF K, r
  <2> QED  BY <2>1, <2>2
<1>3. K \in Nat
  BY <1>1 DEF K
<1> QED  BY <1>2, <1>3 DEF K

\* One round of _write: it stores its part of the chunk and nothing else.
LEMMA RoundIs ==
  ASSUME pos \in Nat, chunk \in Seq(Vocabulary), NEW l \in Layers, NEW L \in Nat,
         NEW a \in [1..L -> Book], NEW end \in Nat, end = pos + Len(chunk), end <= Base(L),
         NEW p \in pos..end - 1
  PROVE  /\ WriteRound(a, l, p) \in [1..L -> Book]
         /\ Stored(WriteRound(a, l, p), a, L, l, p, p + Take(p, end))
<1> DEFINE K == PageAt(p)
           r == PlaceAt(p)
           t == Take(p, end)
           row == [o \in 1..PageSize |-> IF o \in r + 1..r + t THEN chunk[p - pos + o - r] ELSE a[K + 1][l][o]]
           w == WriteRound(a, l, p)
<1>1. p \in Nat /\ p <= end /\ p < Base(L) /\ PageSize \in Nat /\ Base(L) \in Int
  <2>1. p \in Nat /\ p <= end /\ p < end
    OBVIOUS
  <2>2. Base(L) \in Int
    BY BaseTyped
  <2> QED  BY <2>1, <2>2, SizesAssumption
<1>2. K \in Nat /\ r \in 0..PageSize - 1 /\ p = Base(K) + r /\ Base(K) \in Int
  BY <1>1, CellOf, BaseTyped
<1>3. t \in Nat /\ p + t <= end /\ r + t <= PageSize
  BY <1>1, TakeBounds DEF PlaceAt
<1>4. K + 1 \in 1..L
  BY <1>1, PageInside
<1>5. w = [a EXCEPT ![K + 1] = [a[K + 1] EXCEPT ![l] = row]]
  BY DEF WriteRound, PageAt, PlaceAt
<1> HIDE DEF K, r, t, w
<1>6. row \in [1..PageSize -> Entries]
  <2> SUFFICES ASSUME NEW o \in 1..PageSize
               PROVE  (IF o \in r + 1..r + t THEN chunk[p - pos + o - r] ELSE a[K + 1][l][o]) \in Entries
    OBVIOUS
  <2>1. CASE o \in r + 1..r + t
    <3>1. p - pos + o - r \in 1..Len(chunk)
      <4>1. o - r \in 1..t /\ p + t <= pos + Len(chunk) /\ p >= pos /\ r \in Int
        BY <1>1, <1>2, <1>3, <2>1
      <4>2. p - pos + o - r = p - pos + (o - r)
        BY <1>1, <4>1
      <4>3. p \in Int /\ pos \in Int /\ Len(chunk) \in Int /\ t \in Int
        BY <1>1, <1>3
      <4> QED  BY <4>1, <4>2, <4>3
    <3>2. chunk[p - pos + o - r] \in Vocabulary
      BY <3>1
    <3> QED  BY <2>1, <3>2 DEF Entries
  <2>2. CASE o \notin r + 1..r + t
    <3>1. a[K + 1] \in [Layers -> [1..PageSize -> Entries]]
      BY <1>4 DEF Book
    <3>2. a[K + 1][l][o] \in Entries
      BY <3>1
    <3> QED  BY <2>2, <3>2
  <2> QED  BY <2>1, <2>2
<1>7. [a[K + 1] EXCEPT ![l] = row] \in Book /\ a[K + 1] \in Book
  BY <1>4, <1>6 DEF Book
<1>8. w \in [1..L -> Book]
  <2> DEFINE b == [a[K + 1] EXCEPT ![l] = row]
  <2> HIDE DEF b
  <2> QED  BY <1>4, <1>5, <1>7 DEF b
<1>9. ASSUME NEW k \in 1..L, NEW q \in Layers, NEW o \in 1..PageSize
      PROVE  w[k][q][o] = IF q = l /\ Between(Spot(k, o), p, p + t) THEN Given(Spot(k, o)) ELSE a[k][q][o]
  <2> DEFINE x == Spot(k, o)
  <2>1. /\ k - 1 \in Int /\ o - 1 \in 0..PageSize - 1 /\ o \in Int /\ Base(k - 1) \in Int
        /\ x = Base(k - 1) + (o - 1)
    <3>1. k - 1 \in Int /\ o - 1 \in 0..PageSize - 1 /\ o \in Int
      BY <1>1
    <3>2. Base(k - 1) \in Int
      BY <3>1, BaseTyped
    <3> QED  BY <3>1, <3>2 DEF Spot
  <2> HIDE DEF x
  <2>2. CASE k = K + 1 /\ q = l
    <3>1. w[k][q] = row
      <4>1. w[K + 1] = [a[K + 1] EXCEPT ![l] = row]
        BY <1>4, <1>5
      <4>2. a[K + 1] \in Book /\ DOMAIN a[K + 1] = Layers
        BY <1>7 DEF Book
      <4> QED  BY <2>2, <4>1, <4>2
    <3>2. w[k][q][o] = IF o \in r + 1..r + t THEN chunk[p - pos + o - r] ELSE a[K + 1][l][o]
      BY <3>1
    <3>3. x = Base(K) + (o - 1) /\ x - p = o - 1 - r /\ r \in Int /\ t \in Int /\ p \in Int /\ x \in Int
      <4>1. k - 1 = K
        BY <1>2, <2>2
      <4>2. x = Base(K) + (o - 1)
        BY <2>1, <4>1
      <4>3. r \in Int /\ t \in Int /\ p \in Int /\ o \in Int /\ Base(K) \in Int
        BY <1>1, <1>2, <1>3, <2>1
      <4>4. p = Base(K) + r
        BY <1>2
      <4>5. x \in Int
        BY <4>2, <4>3
      <4>6. x - p = o - 1 - r
        BY <4>2, <4>3, <4>4
      <4> QED  BY <4>2, <4>3, <4>5, <4>6
    <3>4. o \in r + 1..r + t <=> x \in p..p + t - 1
      BY <2>1, <3>3
    <3>5. p - pos + o - r = x - pos + 1
      <4>1. pos \in Int /\ o \in Int /\ p \in Int /\ r \in Int /\ x \in Int /\ x - p = o - 1 - r
        BY <2>1, <3>3
      <4>2. \A a1, b1, c1, d1, e1 \in Int : a1 - b1 = c1 - 1 - d1 => b1 - e1 + c1 - d1 = a1 - e1 + 1
        OBVIOUS
      <4> HIDE DEF x, r
      <4> QED  BY <4>1, <4>2
    <3>6. w[k][q][o] = IF x \in p..p + t - 1 THEN chunk[x - pos + 1] ELSE a[k][q][o]
      BY <2>2, <3>2, <3>4, <3>5
    <3>7. w[k][q][o] = IF Between(x, p, p + t) THEN Given(x) ELSE a[k][q][o]
      <4>1. Given(x) = chunk[x - pos + 1]
        BY DEF Given
      <4>2. Between(x, p, p + t) <=> x \in p..p + t - 1
        BY <3>3 DEF Between
      <4> QED  BY <3>6, <4>1, <4>2
    <3> QED  BY <2>2, <3>7 DEF x
  <2>3. CASE ~(k = K + 1 /\ q = l)
    <3>1. w[k][q] = a[k][q]
      <4>1. CASE k # K + 1
        BY <1>5, <4>1
      <4>2. CASE k = K + 1 /\ q # l
        <5>1. w[K + 1] = [a[K + 1] EXCEPT ![l] = row]
          BY <1>4, <1>5
        <5>2. DOMAIN a[K + 1] = Layers
          BY <1>7 DEF Book
        <5> QED  BY <4>2, <5>1, <5>2
      <4> QED  BY <2>3, <4>1, <4>2
    <3>2. q = l => ~ Between(x, p, p + t)
      <4> SUFFICES ASSUME q = l, Between(x, p, p + t) PROVE FALSE
        OBVIOUS
      <4>1. Base(k - 1) + (o - 1) \in p..p + Take(p, end) - 1
        <5>1. x \in p..p + t - 1
          <6>1. x \in p..(p + t) - 1
            BY DEF Between
          <6> QED  BY <1>1, <1>3, <6>1
        <5> QED  BY <2>1, <5>1 DEF t
      <4>2. k - 1 = K
        BY <1>1, <2>1, <4>1, InRound DEF K
      <4> QED  BY <1>2, <2>3, <4>2
    <3> QED  BY <3>1, <3>2 DEF x
  <2> QED  BY <2>2, <2>3
<1>10. Stored(w, a, L, l, p, p + t)
  BY <1>9 DEF Stored
<1> QED  BY <1>8, <1>10 DEF w, t

\* What _write leaves: the chunk at its positions of one layer.
LEMMA WriteIs ==
  ASSUME pos \in Nat, chunk \in Seq(Vocabulary), NEW l \in Layers, NEW L \in Nat,
         NEW into \in [1..L -> Book], NEW end \in Nat, end = pos + Len(chunk), end <= Base(L)
  PROVE  /\ Write(into, l) \in [1..L -> Book]
         /\ Stored(Write(into, l), into, L, l, pos, end)
<1> DEFINE N == Len(chunk)
           A == [1..L -> Book]
           at == Rounds(pos, end)
           Next_(n, a) == IF at[n - 1] = end THEN a ELSE WriteRound(a, l, at[n - 1])
           step == [n \in 1..N |-> [a \in A |-> Next_(n, a)]]
           w == Write(into, l)
<1>1. N \in Nat /\ end - pos = N /\ into \in A /\ pos <= end
  OBVIOUS
<1>2. /\ at \in [0..N -> pos..end] /\ at[0] = pos /\ at[N] = end
      /\ \A n \in 1..N : at[n] = at[n - 1] + Take(at[n - 1], end)
  <2>1. pos \in Nat /\ end \in Nat /\ end = pos + N
    OBVIOUS
  <2> HIDE DEF N, at
  <2>2. Begins(at, pos, N, end)
    BY <1>1, <2>1, RoundsAre DEF at
  <2> QED  BY <2>2 DEF Begins
<1> HIDE DEF at, N
<1>3. \A n \in 1..N : n - 1 \in 0..N /\ n \in 0..N /\ n # 0 /\ at[n - 1] \in pos..end
  <2>1. \A n \in 1..N : n - 1 \in 0..N /\ n \in 0..N /\ n # 0
    BY <1>1
  <2> QED  BY <1>2, <2>1
<1>4. \A n \in 1..N : \A a \in A :
         /\ Next_(n, a) \in A
         /\ Stored(Next_(n, a), a, L, l, at[n - 1], at[n])
  <2> SUFFICES ASSUME NEW n \in 1..N, NEW a \in A
               PROVE  Next_(n, a) \in A /\ Stored(Next_(n, a), a, L, l, at[n - 1], at[n])
    OBVIOUS
  <2>1. PICK p \in pos..end : p = at[n - 1]
    BY <1>3
  <2>2. at[n] = p + Take(p, end)
    BY <1>2, <2>1
  <2>3. CASE p = end
    <3>1. Next_(n, a) = a
      BY <2>1, <2>3
    <3>2. p \in Nat /\ Take(p, end) \in Nat /\ p + Take(p, end) <= end
      BY <2>3, TakeBounds
    <3>3. at[n] = p
      BY <2>2, <2>3, <3>2
    <3>4. Stored(a, a, L, l, p, p)
      BY <3>2, StoredNone
    <3> QED  BY <2>1, <3>1, <3>3, <3>4
  <2>4. CASE p # end
    <3>1. Next_(n, a) = WriteRound(a, l, p)
      BY <2>1, <2>4
    <3>2. p \in pos..end - 1
      BY <1>1, <2>4
    <3>3. WriteRound(a, l, p) \in A /\ Stored(WriteRound(a, l, p), a, L, l, p, p + Take(p, end))
      BY <3>2, RoundIs
    <3> HIDE DEF Next_
    <3> QED  BY <2>1, <2>2, <3>1, <3>3
  <2> QED  BY <2>3, <2>4
<1> HIDE DEF A, Next_
<1>6. step \in [1..N -> [A -> A]] /\ \A n \in 1..N : \A a \in A : step[n][a] = Next_(n, a)
  <2>1. \A n \in 1..N : [a \in A |-> Next_(n, a)] \in [A -> A]
    BY <1>4
  <2> QED  BY <2>1
<1> HIDE DEF step
<1>7. PICK f \in [0..N -> A] : Recurs(f, N, into, step)
  BY <1>1, <1>6, Recursion
<1>8. f = [n \in 0..N |-> IF n = 0 THEN into ELSE Next_(n, f[n - 1])]
  <2>1. \A n \in 0..N : n = 0 \/ n \in 1..N
    BY <1>1
  <2>2. \A n \in 1..N : f[n] = Next_(n, f[n - 1])
    BY <1>3, <1>6, <1>7 DEF Recurs
  <2> QED  BY <1>7, <2>1, <2>2 DEF Recurs
<1> DEFINE g == CHOOSE g : g = [n \in 0..N |-> IF n = 0 THEN into ELSE Next_(n, g[n - 1])]
<1>9. w = g[N]
  BY DEF Write, Next_, at, N
<1>10. g = [n \in 0..N |-> IF n = 0 THEN into ELSE Next_(n, g[n - 1])]
  BY <1>8
<1> HIDE DEF g, w
<1>11. g[0] = into /\ (\A n \in 1..N : g[n] = Next_(n, g[n - 1])) /\ g = [n \in 0..N |-> g[n]]
  <2>1. 0 \in 0..N
    BY <1>1
  <2> QED  BY <1>3, <1>10, <2>1
<1>12. g \in [0..N -> A]
  <2>1. \A n \in 1..N : g[n - 1] \in A => g[n] = step[n][g[n - 1]]
    BY <1>6, <1>11
  <2>2. Solves(g, N, A, into, step)
    BY <1>11, <2>1 DEF Solves
  <2>3. step \in [1..N -> [A -> A]]
    BY <1>6
  <2> QED  BY <1>1, <2>2, <2>3, Unrolled
<1> DEFINE P == {n \in 0..N : Stored(g[n], into, L, l, pos, at[n])}
<1>13. 0 \in P
  <2>1. 0 \in 0..N /\ Stored(into, into, L, l, pos, pos)
    BY <1>1, StoredNone
  <2> QED  BY <1>2, <1>11, <2>1
<1>14. ASSUME NEW n \in 1..N, n - 1 \in P PROVE n \in P
  <2>1. PICK a \in A : a = g[n - 1]
    BY <1>3, <1>12
  <2>2. PICK p \in pos..end : p = at[n - 1]
    BY <1>3
  <2>3. PICK m \in pos..end : m = at[n]
    BY <1>2, <1>3
  <2>4. g[n] = Next_(n, a) /\ Stored(g[n], a, L, l, p, m)
    BY <1>4, <1>11, <2>1, <2>2, <2>3
  <2>5. Stored(a, into, L, l, pos, p)
    BY <1>14, <2>1, <2>2
  <2>6. m = p + Take(p, end)
    BY <1>2, <2>2, <2>3
  <2>7. p \in Nat /\ p <= end /\ pos <= p /\ m \in Int
    OBVIOUS
  <2>8. Take(p, end) \in Nat
    BY <2>7, TakeBounds
  <2>9. p <= m
    BY <2>6, <2>7, <2>8
  <2>10. Stored(g[n], into, L, l, pos, m)
    BY <2>4, <2>5, <2>7, <2>9, StoredMore
  <2> QED  BY <1>3, <2>3, <2>10
<1>15. \A n \in 0..N : n \in P
  <2> HIDE DEF P
  <2> QED  BY <1>1, <1>13, <1>14, UpTo
<1>16. N \in 0..N
  BY <1>1
<1>17. Stored(w, into, L, l, pos, end)
  BY <1>2, <1>9, <1>15, <1>16
<1>18. w \in A
  BY <1>9, <1>12, <1>16
<1> QED  BY <1>17, <1>18 DEF w, A

LEMMA SpotNatural ==
  ASSUME NEW L \in Nat, NEW page \in 1..L, NEW place \in 1..PageSize
  PROVE  Spot(page, place) \in Nat
<1>1. page - 1 \in Int /\ 0 \in Int /\ 0 <= page - 1 /\ place \in Int /\ place >= 1
  OBVIOUS
<1>2. Base(0) <= Base(page - 1) /\ Base(page - 1) \in Int
  BY <1>1, BaseGrows, BaseTyped
<1>3. Base(0) = 0
  BY SizesAssumption DEF Base
<1> QED  BY <1>1, <1>2, <1>3 DEF Spot

\* The first m entries of g are those of the first m places of the pages.
Reads(g, from, L, l, m) ==
  \A k \in 1..L, o \in 1..PageSize : Spot(k, o) < m => g[Spot(k, o) + 1] = from[k][l][o]

\* One round of _gather.
LEMMA PieceIs ==
  ASSUME NEW L \in Nat, NEW from \in [1..L -> Book], NEW l \in Layers,
         NEW end \in Nat, end <= Base(L), NEW p \in 0..end - 1
  PROVE  /\ Piece(from, l, p, end) \in Seq(Entries)
         /\ Len(Piece(from, l, p, end)) = Take(p, end)
         /\ \A i \in 1..Take(p, end) : Piece(from, l, p, end)[i] = from[PageAt(p) + 1][l][PlaceAt(p) + i]
<1> DEFINE K == PageAt(p)
           r == PlaceAt(p)
           t == Take(p, end)
           row == from[K + 1][l]
           s == Piece(from, l, p, end)
<1>1. p \in Nat /\ p <= end /\ p < Base(L) /\ PageSize \in Nat
  <2>1. p \in Nat /\ p <= end /\ p < end
    OBVIOUS
  <2>2. Base(L) \in Int
    BY BaseTyped
  <2> QED  BY <2>1, <2>2, SizesAssumption
<1>2. r \in 0..PageSize - 1 /\ K + 1 \in 1..L
  BY <1>1, CellOf, PageInside
<1>3. t \in Nat /\ r + t <= PageSize
  BY <1>1, TakeBounds DEF PlaceAt
<1>4. s = SubSeq(row, r + 1, r + t)
  BY DEF Piece, PageAt, PlaceAt
<1> HIDE DEF K, r, t, s
<1>5. row \in [1..PageSize -> Entries]
  BY <1>2 DEF Book
<1> HIDE DEF row
<1>6. row \in Seq(Entries) /\ Len(row) = PageSize
  BY <1>1, <1>5
<1>7. r + 1 \in Nat \ {0} /\ r + t \in Int /\ r + t <= Len(row)
  BY <1>1, <1>2, <1>3, <1>6
<1>8. /\ s \in Seq(Entries)
      /\ Len(s) = IF r + 1 <= r + t THEN (r + t) - (r + 1) + 1 ELSE 0
      /\ \A i \in 1..(r + t) - (r + 1) + 1 : s[i] = row[(r + 1) + i - 1]
  BY <1>4, <1>6, <1>7, Middle
<1>9. (r + t) - (r + 1) + 1 = t /\ (~(r + 1 <= r + t) => t = 0) /\ \A i \in 1..t : (r + 1) + i - 1 = r + i
  BY <1>2, <1>3
<1>10. s \in Seq(Entries) /\ Len(s) = t /\ \A i \in 1..t : s[i] = row[r + i]
  BY <1>8, <1>9
<1> QED  BY <1>10 DEF s, t, row, K, r

LEMMA ReadsMore ==
  ASSUME NEW L \in Nat, NEW from \in [1..L -> Book], NEW l \in Layers,
         NEW end \in Nat, end <= Base(L), NEW p \in 0..end - 1,
         NEW g \in Seq(Entries), Len(g) = p, Reads(g, from, L, l, p)
  PROVE  LET h == g \o Piece(from, l, p, end)
         IN /\ h \in Seq(Entries) /\ Len(h) = p + Take(p, end)
            /\ Reads(h, from, L, l, p + Take(p, end))
<1> DEFINE K == PageAt(p)
           r == PlaceAt(p)
           t == Take(p, end)
           s == Piece(from, l, p, end)
           h == g \o s
<1>1. p \in Nat /\ p <= end
  OBVIOUS
<1>2. t \in Nat /\ r \in Int /\ K \in Int
  BY <1>1, TakeBounds, CellOf
<1>3. s \in Seq(Entries) /\ Len(s) = t /\ \A i \in 1..t : s[i] = from[K + 1][l][r + i]
  BY PieceIs
<1> HIDE DEF s, t, K, r
<1>4. /\ h \in Seq(Entries) /\ Len(h) = p + t
      /\ \A i \in 1..p + t : h[i] = IF i <= p THEN g[i] ELSE s[i - p]
  <2>1. /\ h \in Seq(Entries) /\ Len(h) = Len(g) + Len(s)
        /\ \A i \in 1..Len(g) + Len(s) : h[i] = IF i <= Len(g) THEN g[i] ELSE s[i - Len(g)]
    BY <1>3, ConcatProperties
  <2> HIDE DEF h
  <2> QED  BY <1>3, <2>1
<1> HIDE DEF h
<1>5. ASSUME NEW k \in 1..L, NEW o \in 1..PageSize, Spot(k, o) < p + t
      PROVE  h[Spot(k, o) + 1] = from[k][l][o]
  <2> DEFINE x == Spot(k, o)
  <2>1. x \in Nat /\ x < p + t
    BY <1>5, SpotNatural
  <2>2. x < p => g[x + 1] = from[k][l][o]
    BY DEF Reads
  <2>3. /\ k - 1 \in Int /\ o - 1 \in 0..PageSize - 1 /\ o \in Int /\ Base(k - 1) \in Int
        /\ x = Base(k - 1) + (o - 1)
    <3>1. k - 1 \in Int /\ o - 1 \in 0..PageSize - 1 /\ o \in Int
      BY SizesAssumption
    <3>2. Base(k - 1) \in Int
      BY <3>1, BaseTyped
    <3> QED  BY <3>1, <3>2 DEF Spot
  <2> HIDE DEF x
  <2>4. x + 1 \in 1..p + t
    BY <1>1, <1>2, <2>1
  <2>5. h[x + 1] = IF x + 1 <= p THEN g[x + 1] ELSE s[(x + 1) - p]
    BY <1>4, <2>4
  <2>6. CASE x < p
    <3>1. x + 1 <= p
      BY <1>1, <2>1, <2>6
    <3> QED  BY <2>2, <2>5, <2>6, <3>1 DEF x
  <2>7. CASE ~(x < p)
    <3>1. ~(x + 1 <= p) /\ (x + 1) - p \in 1..t
      BY <1>1, <1>2, <2>1, <2>7
    <3>2. x \in p..(p + t) - 1
      BY <1>1, <1>2, <2>1, <2>7
    <3>3. k - 1 = K /\ (o - 1) - r = Base(k - 1) + (o - 1) - p
      <4>1. Base(k - 1) + (o - 1) \in p..p + Take(p, end) - 1
        BY <1>1, <1>2, <2>3, <3>2 DEF t
      <4> QED  BY <1>1, <2>3, <4>1, InRound DEF K, r
    <3>4. r + ((x + 1) - p) = o /\ K + 1 = k
      <4>1. PICK b \in Int : b = Base(k - 1)
        BY <2>3
      <4>2. x = b + (o - 1) /\ k - 1 = K /\ (o - 1) - r = b + (o - 1) - p
        BY <2>3, <3>3, <4>1
      <4>3. p \in Int /\ r \in Int /\ o \in Int /\ k \in Int /\ x \in Int
        BY <1>1, <1>2, <2>1, <2>3
      <4> QED  BY <4>2, <4>3
    <3>5. s[(x + 1) - p] = from[K + 1][l][r + ((x + 1) - p)]
      BY <1>3, <3>1
    <3> QED  BY <2>5, <3>1, <3>4, <3>5 DEF x
  <2> QED  BY <2>6, <2>7
<1>6. Reads(h, from, L, l, p + t)
  BY <1>5 DEF Reads
<1> QED  BY <1>4, <1>6 DEF h, s, t

LEMMA GatherIs ==
  ASSUME NEW L \in Nat, NEW from \in [1..L -> Book], NEW l \in Layers,
         NEW end \in Nat, end <= Base(L)
  PROVE  /\ Gather(from, l, end) \in Seq(Entries) /\ Len(Gather(from, l, end)) = end
         /\ Reads(Gather(from, l, end), from, L, l, end)
<1> DEFINE A == Seq(Entries)
           at == Rounds(0, end)
           Next_(n, a) == IF at[n - 1] = end THEN a ELSE a \o Piece(from, l, at[n - 1], end)
           step == [n \in 1..end |-> [a \in A |-> Next_(n, a)]]
           w == Gather(from, l, end)
           base == <<>>
<1>1. base \in A
  OBVIOUS
<1>2. /\ at \in [0..end -> 0..end] /\ at[0] = 0 /\ at[end] = end
      /\ \A n \in 1..end : at[n] = at[n - 1] + Take(at[n - 1], end)
  <2>1. Begins(at, 0, end, end)
    BY RoundsAre
  <2> QED  BY <2>1 DEF Begins
<1> HIDE DEF at, base
<1>3. \A n \in 1..end : n - 1 \in 0..end /\ n \in 0..end /\ n # 0 /\ at[n - 1] \in 0..end
  <2>1. \A n \in 1..end : n - 1 \in 0..end /\ n \in 0..end /\ n # 0
    OBVIOUS
  <2> QED  BY <1>2, <2>1
<1>4. \A n \in 1..end : \A a \in A : Next_(n, a) \in A
  <2> SUFFICES ASSUME NEW n \in 1..end, NEW a \in A PROVE Next_(n, a) \in A
    OBVIOUS
  <2>1. PICK p \in 0..end : p = at[n - 1]
    BY <1>3
  <2>2. CASE p = end
    BY <2>1, <2>2
  <2>3. CASE p # end
    <3>1. p \in 0..end - 1
      BY <2>3
    <3>2. Piece(from, l, p, end) \in A
      BY <3>1, PieceIs
    <3>3. a \o Piece(from, l, p, end) \in A
      BY <3>2, ConcatProperties
    <3> QED  BY <2>1, <2>3, <3>3
  <2> QED  BY <2>2, <2>3
<1> HIDE DEF A, Next_
<1>6. step \in [1..end -> [A -> A]] /\ \A n \in 1..end : \A a \in A : step[n][a] = Next_(n, a)
  <2>1. \A n \in 1..end : [a \in A |-> Next_(n, a)] \in [A -> A]
    BY <1>4
  <2> QED  BY <2>1
<1> HIDE DEF step
<1>7. PICK f \in [0..end -> A] : Recurs(f, end, base, step)
  BY <1>1, <1>6, Recursion
<1>8. f = [n \in 0..end |-> IF n = 0 THEN base ELSE Next_(n, f[n - 1])]
  <2>1. \A n \in 0..end : n = 0 \/ n \in 1..end
    OBVIOUS
  <2>2. \A n \in 1..end : f[n] = Next_(n, f[n - 1])
    BY <1>3, <1>6, <1>7 DEF Recurs
  <2> QED  BY <1>7, <2>1, <2>2 DEF Recurs
<1> DEFINE g == CHOOSE g : g = [n \in 0..end |-> IF n = 0 THEN base ELSE Next_(n, g[n - 1])]
<1>9. w = g[end]
  BY DEF Gather, Next_, at, base
<1>10. g = [n \in 0..end |-> IF n = 0 THEN base ELSE Next_(n, g[n - 1])]
  BY <1>8
<1> HIDE DEF g, w
<1>11. g[0] = base /\ (\A n \in 1..end : g[n] = Next_(n, g[n - 1])) /\ g = [n \in 0..end |-> g[n]]
  <2>1. 0 \in 0..end
    OBVIOUS
  <2> QED  BY <1>3, <1>10, <2>1
<1>12. g \in [0..end -> A]
  <2>1. \A n \in 1..end : g[n - 1] \in A => g[n] = step[n][g[n - 1]]
    BY <1>6, <1>11
  <2>2. Solves(g, end, A, base, step)
    BY <1>11, <2>1 DEF Solves
  <2>3. step \in [1..end -> [A -> A]]
    BY <1>6
  <2> QED  BY <1>1, <2>2, <2>3, Unrolled
<1> DEFINE P == {n \in 0..end : Len(g[n]) = at[n] /\ Reads(g[n], from, L, l, at[n])}
<1>13. 0 \in P
  <2>1. 0 \in 0..end /\ Len(base) = 0
    BY DEF base
  <2>2. Reads(base, from, L, l, 0)
    <3>1. \A k \in 1..L, o \in 1..PageSize : ~(Spot(k, o) < 0)
      BY SpotNatural
    <3> QED  BY <3>1 DEF Reads
  <2> QED  BY <1>2, <1>11, <2>1, <2>2
<1>14. ASSUME NEW n \in 1..end, n - 1 \in P PROVE n \in P
  <2>1. PICK a \in A : a = g[n - 1]
    BY <1>3, <1>12
  <2>2. PICK p \in 0..end : p = at[n - 1]
    BY <1>3
  <2>3. g[n] = Next_(n, a) /\ Len(a) = p /\ Reads(a, from, L, l, p) /\ at[n] = p + Take(p, end)
    BY <1>2, <1>11, <1>14, <2>1, <2>2
  <2>4. CASE p = end
    <3>1. g[n] = a
      BY <2>2, <2>3, <2>4 DEF Next_
    <3>2. Take(p, end) \in Nat /\ p + Take(p, end) <= end
      BY <2>4, TakeBounds
    <3>3. at[n] = p
      BY <2>3, <2>4, <3>2
    <3> QED  BY <1>3, <2>3, <3>1, <3>3
  <2>5. CASE p # end
    <3>1. g[n] = a \o Piece(from, l, p, end)
      BY <2>2, <2>3, <2>5 DEF Next_
    <3>2. p \in 0..end - 1
      BY <2>5
    <3>3. /\ Len(a \o Piece(from, l, p, end)) = p + Take(p, end)
          /\ Reads(a \o Piece(from, l, p, end), from, L, l, p + Take(p, end))
      BY <2>3, <3>2, ReadsMore DEF A
    <3> QED  BY <1>3, <2>3, <3>1, <3>3
  <2> QED  BY <2>4, <2>5
<1>15. \A n \in 0..end : n \in P
  <2> HIDE DEF P
  <2> QED  BY <1>13, <1>14, UpTo
<1>16. end \in 0..end
  OBVIOUS
<1>17. Len(w) = end /\ Reads(w, from, L, l, end)
  BY <1>2, <1>9, <1>15, <1>16
<1>18. w \in A
  BY <1>9, <1>12, <1>16
<1> QED  BY <1>17, <1>18 DEF w, A

\* Every position before the end of the pages has a place.
LEMMA PlaceOf ==
  ASSUME NEW L \in Nat, NEW x \in Nat, x < Base(L)
  PROVE  \E k \in 1..L, o \in 1..PageSize : Spot(k, o) = x
<1> DEFINE k == PageAt(x) + 1
           o == PlaceAt(x) + 1
<1>1. k \in 1..L
  BY PageInside
<1>2. PageAt(x) \in Nat /\ PlaceAt(x) \in 0..PageSize - 1 /\ x = Base(PageAt(x)) + PlaceAt(x)
  BY CellOf
<1>3. o \in 1..PageSize /\ k - 1 = PageAt(x)
  BY <1>2, SizesAssumption
<1>4. Base(PageAt(x)) \in Int
  BY <1>2, BaseTyped
<1>5. Spot(k, o) = Base(k - 1) + o - 1
  BY DEF Spot
<1> HIDE DEF k, o
<1>6. Spot(k, o) = Base(PageAt(x)) + o - 1
  BY <1>3, <1>5
<1>7. o = PlaceAt(x) + 1
  BY DEF o
<1>8. Spot(k, o) = x
  BY <1>2, <1>4, <1>6, <1>7
<1> QED  BY <1>1, <1>3, <1>8

\* A place before a multiple of the page size is on a page before it.
LEMMA PageBefore ==
  ASSUME NEW L \in Nat, NEW k \in Nat \ {0}, NEW o \in 1..PageSize, Spot(k, o) < Base(L)
  PROVE  k \in 1..L
<1> SUFFICES ASSUME L <= k - 1 PROVE FALSE
  OBVIOUS
<1>1. Base(L) <= Base(k - 1) /\ Base(k - 1) \in Int /\ Base(L) \in Int
  BY BaseGrows, BaseTyped
<1>2. o \in Int /\ o >= 1
  BY SizesAssumption
<1> QED  BY <1>1, <1>2 DEF Spot

\* What layer l holds of a cache of kind kd with tensors K and pages P begins
\* with the entries s; the first m entries, as the code reads them.
Agrees(kd, K, P, l, s) ==
  IF kd = "paged" THEN Len(s) <= Base(Len(P)) /\ Reads(s, P, Len(P), l, Len(s))
  ELSE Len(s) <= Len(K[l]) /\ \A i \in 1..Len(s) : K[l][i] = s[i]

ReadOf(kd, K, P, l, m) == IF kd = "paged" THEN Gather(P, l, m) ELSE SubSeq(K[l], 1, m)

LEMMA ReadBack ==
  ASSUME NEW kd, NEW K \in [Layers -> Seq(Entries)], NEW P \in Seq(Book), NEW l \in Layers,
         NEW s \in Seq(Entries), Agrees(kd, K, P, l, s)
  PROVE  ReadOf(kd, K, P, l, Len(s)) = s
<1> DEFINE m == Len(s)
<1>1. m \in Nat
  OBVIOUS
<1>2. CASE kd = "paged"
  <2> DEFINE L == Len(P)
             g == Gather(P, l, m)
  <2>1. L \in Nat /\ P \in [1..L -> Book]
    BY LenProperties
  <2>2. m <= Base(L) /\ Reads(s, P, L, l, m)
    BY <1>2 DEF Agrees
  <2>3. ReadOf(kd, K, P, l, m) = g
    BY <1>2 DEF ReadOf
  <2> HIDE DEF L, m
  <2>4. g \in Seq(Entries) /\ Len(g) = m /\ Reads(g, P, L, l, m)
    BY <1>1, <2>1, <2>2, GatherIs
  <2> HIDE DEF g
  <2>5. ASSUME NEW i \in 1..m PROVE g[i] = s[i]
    <3>1. i - 1 \in Nat /\ i - 1 < m /\ (i - 1) + 1 = i
      BY <1>1
    <3>2. i - 1 < Base(L)
      <4>1. Base(L) \in Int
        BY <2>1, BaseTyped
      <4> QED  BY <1>1, <2>2, <3>1, <4>1
    <3>3. PICK k \in 1..L, o \in 1..PageSize : Spot(k, o) = i - 1
      BY <2>1, <3>1, <3>2, PlaceOf
    <3>4. g[(i - 1) + 1] = P[k][l][o] /\ s[(i - 1) + 1] = P[k][l][o]
      BY <2>2, <2>4, <3>1, <3>3 DEF Reads
    <3> QED  BY <3>1, <3>4
  <2>6. g = s
    BY <2>4, <2>5, SeqEqual DEF m
  <2> QED  BY <2>3, <2>6 DEF m
<1>3. CASE kd # "paged"
  <2> DEFINE row == K[l]
             g == SubSeq(row, 1, m)
  <2>1. row \in Seq(Entries) /\ m <= Len(row) /\ \A i \in 1..m : row[i] = s[i]
    BY <1>3 DEF Agrees
  <2>2. ReadOf(kd, K, P, l, m) = g
    BY <1>3 DEF ReadOf
  <2> HIDE DEF row
  <2>3. g \in Seq(Entries) /\ Len(g) = (IF 1 <= m THEN m - 1 + 1 ELSE 0)
        /\ \A i \in 1..m - 1 + 1 : g[i] = row[1 + i - 1]
    BY <1>1, <2>1, Middle
  <2> HIDE DEF g
  <2>4. Len(g) = m /\ \A i \in 1..m : g[i] = row[i]
    BY <1>1, <2>3
  <2>5. g = s
    BY <2>1, <2>3, <2>4, SeqEqual DEF m
  <2> QED  BY <2>2, <2>5 DEF m
<1> QED  BY <1>2, <1>3

\* The beginning of what a layer holds.
LEMMA AgreesPrefix ==
  ASSUME NEW kd, NEW K, NEW P \in Seq(Book), NEW l, NEW s \in Seq(Entries), NEW c \in Seq(Entries),
         kd = "paged" \/ Len(K[l]) \in Nat, Agrees(kd, K, P, l, s \o c)
  PROVE  Agrees(kd, K, P, l, s)
<1> DEFINE t == s \o c
<1>1. /\ t \in Seq(Entries) /\ Len(t) = Len(s) + Len(c)
      /\ \A i \in 1..Len(s) + Len(c) : t[i] = IF i <= Len(s) THEN s[i] ELSE c[i - Len(s)]
  BY ConcatProperties
<1>2. Len(s) \in Nat /\ Len(c) \in Nat /\ Len(P) \in Nat /\ Agrees(kd, K, P, l, t)
  OBVIOUS
<1> HIDE DEF t
<1>3. Len(s) <= Len(t) /\ Len(t) \in Nat /\ \A i \in 1..Len(s) : t[i] = s[i] /\ i \in 1..Len(t)
  BY <1>1, <1>2
<1>4. CASE kd = "paged"
  <2>1. Len(t) <= Base(Len(P)) /\ Reads(t, P, Len(P), l, Len(t)) /\ Base(Len(P)) \in Int
    BY <1>2, <1>4, BaseTyped DEF Agrees
  <2>2. ASSUME NEW k \in 1..Len(P), NEW o \in 1..PageSize, Spot(k, o) < Len(s)
        PROVE  s[Spot(k, o) + 1] = P[k][l][o]
    <3>1. PICK x \in Nat : x = Spot(k, o)
      BY <1>2, SpotNatural
    <3>2. x < Len(t) /\ x + 1 \in 1..Len(s)
      BY <1>2, <1>3, <2>2, <3>1
    <3>3. t[x + 1] = P[k][l][o]
      BY <2>1, <3>1, <3>2 DEF Reads
    <3>4. t[x + 1] = s[x + 1]
      BY <1>3, <3>2
    <3> QED  BY <3>1, <3>3, <3>4
  <2>3. Reads(s, P, Len(P), l, Len(s))
    BY <2>2 DEF Reads
  <2>4. Len(s) <= Base(Len(P))
    BY <1>2, <1>3, <2>1
  <2> QED  BY <1>4, <2>3, <2>4 DEF Agrees
<1>5. CASE kd # "paged"
  <2>1. Len(t) <= Len(K[l]) /\ \A i \in 1..Len(t) : K[l][i] = t[i]
    BY <1>2, <1>5 DEF Agrees
  <2>2. Len(s) <= Len(K[l])
    BY <1>2, <1>3, <1>5, <2>1
  <2> QED  BY <1>3, <1>5, <2>1, <2>2 DEF Agrees
<1> QED  BY <1>4, <1>5

LEMMA AgreesNone ==
  ASSUME NEW kd, NEW K, NEW P \in Seq(Book), NEW l, kd = "paged" \/ Len(K[l]) \in Nat
  PROVE  Agrees(kd, K, P, l, <<>>)
<1>1. Len(P) \in Nat /\ Len(<<>>) = 0
  OBVIOUS
<1>2. 0 <= Base(Len(P))
  BY <1>1, BaseGrows, BaseStep
<1>3. Reads(<<>>, P, Len(P), l, 0)
  <2>1. \A k \in 1..Len(P), o \in 1..PageSize : ~(Spot(k, o) < 0)
    BY <1>1, SpotNatural
  <2> QED  BY <2>1 DEF Reads
<1> QED  BY <1>1, <1>2, <1>3 DEF Agrees

\* Pages for so many positions hold them, and are as few as they can be.
LEMMA PagesForIs ==
  ASSUME NEW n \in Nat
  PROVE  /\ PagesFor(n) \in Nat
         /\ n <= Base(PagesFor(n)) /\ Base(PagesFor(n)) < n + PageSize
<1> DEFINE x == (n + PageSize) - 1
<1>1. x \in Nat /\ PagesFor(n) = PageAt(x)
  BY SizesAssumption DEF PagesFor, PageAt
<1>2. PageAt(x) \in Nat /\ PlaceAt(x) \in 0..PageSize - 1 /\ x = Base(PageAt(x)) + PlaceAt(x)
  BY <1>1, CellOf
<1>3. Base(PageAt(x)) \in Int
  BY <1>2, BaseTyped
<1>4. n <= Base(PageAt(x)) /\ Base(PageAt(x)) < n + PageSize
  BY <1>2, <1>3, SizesAssumption
<1> QED  BY <1>1, <1>2, <1>4

LEMMA PagesForGrows ==
  ASSUME NEW n \in Nat, NEW m \in Nat, n <= m
  PROVE  PagesFor(n) <= PagesFor(m)
<1> SUFFICES ASSUME PagesFor(m) + 1 <= PagesFor(n) PROVE FALSE
  BY PagesForIs
<1> DEFINE a == PagesFor(m)
           b == PagesFor(n)
<1>1. a \in Nat /\ b \in Nat /\ m <= Base(a) /\ Base(b) < n + PageSize
  BY PagesForIs
<1> HIDE DEF a, b
<1>2. a + 1 <= b
  BY DEF a, b
<1>3. Base(a + 1) <= Base(b) /\ Base(a + 1) = Base(a) + PageSize
  BY <1>1, <1>2, BaseGrows, BaseStep
<1>4. Base(a) \in Int /\ Base(b) \in Int /\ PageSize \in Int
  BY <1>1, BaseTyped, SizesAssumption
<1> QED  BY <1>1, <1>3, <1>4

CacheTyped ==
  /\ kind \in {"static", "dynamic", "paged"}
  /\ keys \in [Layers -> Seq(Entries)] /\ pages \in Seq(Book)
  /\ pos \in Nat /\ chunk \in Seq(Vocabulary) /\ layer \in 0..NumLayers
  /\ answer \in Seq(Vocabulary)

\* The room each kind has, and what a pass asks of it.
CacheRoom ==
  /\ \A l \in Layers : Len(keys[l]) = Size
  /\ kind = "static" => Size = Window
  /\ kind = "dynamic" => Size <= Window
  /\ kind = "paged" => Size = 0
  /\ kind # "paged" => pages = <<>>
  /\ Len(pages) <= PagesFor(Window)
  /\ pos + Len(chunk) <= Window /\ Len(chunk) <= MaxChunk /\ Len(answer) <= Window
  /\ layer > 0 => chunk # <<>>

\* Each layer begins with the text, and those the pass went through go on with
\* its chunk: the entries of an aborted pass are beyond.
CacheText ==
  /\ Text \in Seq(Vocabulary) /\ Len(Text) = pos
  /\ \A l \in Layers : Agrees(kind, keys, pages, l, Text)
  /\ \A l \in 1..layer : Agrees(kind, keys, pages, l, Text \o chunk)

CacheInv == CacheTyped /\ CacheRoom /\ CacheText

LEMMA TextIsRead == Text = ReadOf(kind, keys, pages, 1, pos)
BY DEF Text, ReadOf

LEMMA EntriesOfTokens == \A s \in Seq(Vocabulary) : s \in Seq(Entries)
<1>1. Vocabulary \subseteq Entries
  BY DEF Entries
<1> QED  BY <1>1, SeqMonotonic

LEMMA FirstLayer == 1 \in Layers
BY SizesAssumption DEF Layers

LEMMA MaxOfThree ==
  ASSUME NEW a \in Int, NEW b \in Int, NEW c \in Int
  PROVE  Max({a, b, c}) \in {a, b, c} /\ Max({a, b, c}) >= a /\ Max({a, b, c}) >= b /\ Max({a, b, c}) >= c
<1>1. \E x \in {a, b, c} : \A y \in {a, b, c} : x >= y
  <2>1. (a >= b /\ a >= c) \/ (b >= a /\ b >= c) \/ (c >= a /\ c >= b)
    OBVIOUS
  <2> QED  BY <2>1
<1> QED  BY <1>1 DEF Max

LEMMA GrownIs ==
  ASSUME CacheTyped, CacheRoom, kind # "paged", NEW n \in Nat, n <= Window
  PROVE  /\ Grown(n) \in Nat /\ n <= Grown(n) /\ Size <= Grown(n) /\ Grown(n) <= Window
         /\ kind = "static" => Grown(n) = Window
<1>1. Size \in Nat /\ Window \in Nat /\ FirstSize \in Nat
  BY FirstLayer, SizesAssumption DEF CacheTyped, Size
<1>2. Size <= Window /\ kind \in {"static", "dynamic"}
  BY <1>1 DEF CacheTyped, CacheRoom
<1>3. CASE kind = "dynamic" /\ n > Size
  <2> DEFINE most == Max({n, FirstSize, 2 * Size})
  <2>1. PICK d \in Nat : d = 2 * Size
    BY <1>1
  <2>2. Max({n, FirstSize, d}) \in {n, FirstSize, d} /\ Max({n, FirstSize, d}) >= n
        /\ Max({n, FirstSize, d}) >= d
    <3>1. n \in Int /\ FirstSize \in Int /\ d \in Int
      BY <1>1
    <3> QED  BY <3>1, MaxOfThree
  <2>3. most \in Nat /\ most >= n /\ most >= Size
    BY <1>1, <2>1, <2>2
  <2> HIDE DEF most
  <2>4. Min({Window, most}) = IF Window <= most THEN Window ELSE most
    BY <1>1, <2>3, MinOfTwo
  <2>5. Grown(n) = Min({Window, most})
    BY <1>3 DEF Grown, most
  <2> QED  BY <1>1, <1>2, <1>3, <2>3, <2>4, <2>5
<1>4. CASE ~(kind = "dynamic" /\ n > Size)
  <2>1. Grown(n) = Size
    BY <1>4 DEF Grown
  <2>2. CASE kind = "static"
    BY <1>1, <2>1, <2>2 DEF CacheRoom
  <2>3. CASE kind = "dynamic"
    BY <1>1, <1>2, <1>4, <2>1, <2>3
  <2> QED  BY <1>2, <2>2, <2>3
<1> QED  BY <1>3, <1>4

\* The text with the chunk after it.
LEMMA GoesOn ==
  ASSUME CacheInv
  PROVE  /\ Text \in Seq(Entries) /\ chunk \in Seq(Entries)
         /\ Text \o chunk \in Seq(Vocabulary) /\ Text \o chunk \in Seq(Entries)
         /\ Len(Text \o chunk) = pos + Len(chunk)
         /\ \A i \in 1..pos + Len(chunk) : (Text \o chunk)[i] = IF i <= pos THEN Text[i] ELSE chunk[i - pos]
<1>1. Text \in Seq(Vocabulary) /\ chunk \in Seq(Vocabulary) /\ Len(Text) = pos
  BY DEF CacheInv, CacheTyped, CacheText
<1>2. /\ Text \o chunk \in Seq(Vocabulary) /\ Len(Text \o chunk) = Len(Text) + Len(chunk)
      /\ \A i \in 1..Len(Text) + Len(chunk) :
           (Text \o chunk)[i] = IF i <= Len(Text) THEN Text[i] ELSE chunk[i - Len(Text)]
  BY <1>1, ConcatProperties
<1> QED  BY <1>1, <1>2, EntriesOfTokens

\* update() of a static or dynamic cache.
LEMMA KeysUpdated ==
  ASSUME CacheInv, kind # "paged", layer < NumLayers, UpdateKeys(layer + 1)
  PROVE  /\ keys' \in [Layers -> Seq(Entries)]
         /\ \A m \in Layers : Len(keys'[m]) = Grown(pos + Len(chunk))
         /\ \A m \in Layers : Agrees(kind, keys', pages, m, Text)
         /\ \A m \in 1..layer + 1 : Agrees(kind, keys', pages, m, Text \o chunk)
         /\ answer' = ReadOf(kind, keys', pages, layer + 1, pos + Len(chunk))
<1> DEFINE end == pos + Len(chunk)
           size == Grown(end)
           l == layer + 1
           t == Text \o chunk
           cell(m, i) == IF m = l /\ i \in pos + 1..end THEN chunk[i - pos]
                         ELSE IF i <= Size THEN keys[m][i] ELSE Zero
<1>1. CacheTyped /\ CacheRoom /\ CacheText
  BY DEF CacheInv
<1>2. pos \in Nat /\ Len(chunk) \in Nat /\ end \in Nat /\ layer \in 0..NumLayers /\ end <= Window
  BY <1>1 DEF CacheTyped, CacheRoom
<1>3. l \in Layers /\ \A m \in 1..l : m \in Layers /\ (m # l => m \in 1..layer)
  BY <1>2, SizesAssumption DEF Layers
<1>4. Size \in Nat /\ \A m \in Layers : keys[m] \in Seq(Entries) /\ Len(keys[m]) = Size
  BY <1>1, FirstLayer DEF CacheTyped, CacheRoom, Size
<1>5. size \in Nat /\ end <= size /\ Size <= size
  BY <1>1, <1>2, GrownIs
<1>6. keys' = [m \in Layers |-> [i \in 1..size |-> cell(m, i)]]
      /\ answer' = SubSeq(keys'[l], 1, end)
  BY DEF UpdateKeys
<1>7. /\ t \in Seq(Entries) /\ Len(t) = end /\ Text \in Seq(Entries) /\ Len(Text) = pos
      /\ chunk \in Seq(Entries)
      /\ \A i \in 1..end : t[i] = IF i <= pos THEN Text[i] ELSE chunk[i - pos]
  BY <1>1, GoesOn DEF CacheText
<1>8. \A i \in pos + 1..end : i - pos \in 1..Len(chunk) /\ chunk[i - pos] \in Entries
  <2>1. \A i \in pos + 1..end : i - pos \in 1..Len(chunk)
    BY <1>2
  <2> QED  BY <1>7, <2>1, ElementOfSeq
<1>9. /\ \A m \in Layers : \A i \in 1..Len(Text) : Text[i] = keys[m][i]
      /\ \A m \in 1..layer : \A i \in 1..Len(t) : t[i] = keys[m][i]
      /\ pos <= Size /\ (1 \in 1..layer => end <= Size)
  BY <1>1, <1>4, <1>7, FirstLayer DEF CacheText, Agrees, Size
<1> HIDE DEF end, size, t
<1>10. \A m \in Layers : \A i \in 1..size : cell(m, i) \in Entries
  <2> SUFFICES ASSUME NEW m \in Layers, NEW i \in 1..size PROVE cell(m, i) \in Entries
    OBVIOUS
  <2>1. ASSUME i <= Size PROVE keys[m][i] \in Entries
    <3>1. i \in 1..Len(keys[m])
      BY <1>4, <1>5, <2>1
    <3> QED  BY <1>4, <3>1, ElementOfSeq
  <2> QED  BY <1>8, <2>1 DEF Entries
<1> HIDE DEF cell
<1>11. \A m \in Layers : keys'[m] = [i \in 1..size |-> cell(m, i)]
  BY <1>6
<1>12. \A m \in Layers : keys'[m] \in Seq(Entries) /\ Len(keys'[m]) = size
  <2> SUFFICES ASSUME NEW m \in Layers
               PROVE  keys'[m] \in Seq(Entries) /\ Len(keys'[m]) = size
    OBVIOUS
  <2>1. keys'[m] \in [1..size -> Entries]
    BY <1>10, <1>11
  <2> QED  BY <1>5, <2>1
<1>13. \A m \in Layers : \A i \in 1..size : keys'[m][i] = cell(m, i)
  BY <1>11
<1>14. ASSUME NEW m \in Layers PROVE Agrees(kind, keys', pages, m, Text)
  <2>1. pos <= size
    BY <1>2, <1>4, <1>5, <1>9
  <2>2. ASSUME NEW i \in 1..pos PROVE keys'[m][i] = Text[i]
    <3>1. i \in 1..size /\ i <= Size /\ i \notin pos + 1..end
      BY <1>2, <1>4, <1>5, <1>9
    <3>2. cell(m, i) = keys[m][i]
      BY <3>1 DEF cell
    <3> QED  BY <1>7, <1>9, <1>13, <3>1, <3>2
  <2> QED  BY <1>7, <1>12, <2>1, <2>2 DEF Agrees
<1>15. ASSUME NEW m \in 1..l PROVE Agrees(kind, keys', pages, m, t)
  <2>1. m \in Layers
    BY <1>3
  <2>2. ASSUME NEW i \in 1..end PROVE keys'[m][i] = t[i]
    <3>1. i \in 1..size
      BY <1>2, <1>5
    <3>2. CASE m = l
      <4>1. CASE i <= pos
        <5>1. i \in 1..pos
          BY <1>2, <4>1
        <5> QED  BY <1>7, <1>12, <1>14, <2>1, <4>1, <5>1 DEF Agrees
      <4>2. CASE ~(i <= pos)
        <5>1. i \in pos + 1..end
          BY <1>2, <4>2 DEF end
        <5> QED  BY <1>7, <1>13, <2>1, <3>1, <3>2, <4>2, <5>1 DEF cell
      <4> QED  BY <4>1, <4>2
    <3>3. CASE m # l
      <4>1. m \in 1..layer /\ 1 \in 1..layer
        BY <1>2, <1>3, <3>3
      <4>2. i <= Size
        BY <1>2, <1>4, <1>9, <4>1
      <4>3. cell(m, i) = keys[m][i]
        BY <3>3, <4>2 DEF cell
      <4> QED  BY <1>7, <1>9, <1>13, <2>1, <3>1, <4>1, <4>3
    <3> QED  BY <3>2, <3>3
  <2> QED  BY <1>5, <1>7, <1>12, <2>1, <2>2 DEF Agrees
<1>16. keys' \in [Layers -> Seq(Entries)]
  BY <1>6, <1>11, <1>12
<1>17. answer' = ReadOf(kind, keys', pages, l, end)
  <2>1. answer' = SubSeq(keys'[l], 1, end)
    BY <1>6
  <2> QED  BY <2>1 DEF ReadOf
<1> QED  BY <1>12, <1>14, <1>15, <1>16, <1>17 DEF size, end, t

LEMMA EnsuredIs ==
  ASSUME CacheTyped, NEW n \in Nat
  PROVE  /\ Ensured(n) \in Seq(Book)
         /\ Len(pages) <= Len(Ensured(n)) /\ n <= Base(Len(Ensured(n)))
         /\ Len(Ensured(n)) \in {Len(pages), PagesFor(n)}
         /\ \A k \in 1..Len(pages) : Ensured(n)[k] = pages[k]
<1> DEFINE need == PagesFor(n)
           L == Len(pages)
           more == Max({0, need - L})
           blank == [l \in Layers |-> Zeros(PageSize)]
           rest == [k \in 1..more |-> blank]
           all == pages \o rest
<1>1. pages \in Seq(Book) /\ L \in Nat
  BY DEF CacheTyped
<1>2. need \in Nat /\ n <= Base(need)
  BY PagesForIs
<1>3. blank \in Book
  <2>1. Zeros(PageSize) \in [1..PageSize -> Entries]
    BY DEF Zeros, Entries
  <2> QED  BY <2>1 DEF Book
<1> HIDE DEF need, L, blank
<1>4. more \in Nat /\ more = IF need > L THEN need - L ELSE 0
  <2>1. PICK d \in Int : d = need - L
    BY <1>1, <1>2
  <2>2. Max({0, d}) \in {0, d} /\ Max({0, d}) >= 0 /\ Max({0, d}) >= d
    BY MaxOfTwo
  <2>3. more \in {0, d} /\ more >= 0 /\ more >= d
    BY <2>1, <2>2
  <2> HIDE DEF more
  <2> QED  BY <1>1, <1>2, <2>1, <2>3
<1> HIDE DEF more
<1>5. rest \in Seq(Book) /\ Len(rest) = more
  <2>1. rest \in [1..more -> Book]
    BY <1>3
  <2> HIDE DEF rest
  <2> QED  BY <1>4, <2>1
<1> HIDE DEF rest
<1>6. /\ all \in Seq(Book) /\ Len(all) = L + more
      /\ \A k \in 1..L + more : all[k] = IF k <= L THEN pages[k] ELSE rest[k - L]
  <2>1. /\ all \in Seq(Book) /\ Len(all) = Len(pages) + Len(rest)
        /\ \A k \in 1..Len(pages) + Len(rest) :
             all[k] = IF k <= Len(pages) THEN pages[k] ELSE rest[k - Len(pages)]
    BY <1>1, <1>5, ConcatProperties
  <2> HIDE DEF all
  <2> QED  BY <1>5, <2>1 DEF L
<1>7. Ensured(n) = all
  BY DEF Ensured, all, rest, blank, more, need, L
<1> HIDE DEF all
<1>8. L <= Len(all) /\ need <= Len(all) /\ Len(all) \in {L, need}
  BY <1>1, <1>2, <1>4, <1>6
<1>9. \A k \in 1..L : all[k] = pages[k]
  <2>1. \A k \in 1..L : k \in 1..L + more /\ k <= L
    BY <1>1, <1>4
  <2> HIDE DEF all
  <2> QED  BY <1>6, <2>1
<1>10. n <= Base(Len(all))
  <2>1. Len(all) \in Int /\ need \in Int
    BY <1>2, <1>6
  <2>2. Base(need) <= Base(Len(all)) /\ Base(need) \in Int /\ Base(Len(all)) \in Int
    BY <1>8, <2>1, BaseGrows, BaseTyped
  <2> QED  BY <1>2, <2>2
<1> QED  BY <1>6, <1>7, <1>8, <1>9, <1>10 DEF L, need

\* update() of a paged cache.
LEMMA PagesUpdated ==
  ASSUME CacheInv, kind = "paged", layer < NumLayers, UpdatePages(layer + 1)
  PROVE  /\ pages' \in Seq(Book) /\ Len(pages') <= PagesFor(Window)
         /\ \A m \in Layers : Agrees(kind, keys, pages', m, Text)
         /\ \A m \in 1..layer + 1 : Agrees(kind, keys, pages', m, Text \o chunk)
         /\ answer' = ReadOf(kind, keys, pages', layer + 1, pos + Len(chunk))
<1> DEFINE end == pos + Len(chunk)
           l == layer + 1
           t == Text \o chunk
           into == Ensured(end)
           L == Len(into)
           O == Len(pages)
<1>1. CacheTyped /\ CacheRoom /\ CacheText
  BY DEF CacheInv
<1>2. pos \in Nat /\ Len(chunk) \in Nat /\ end \in Nat /\ layer \in 0..NumLayers /\ end <= Window
      /\ chunk \in Seq(Vocabulary) /\ pages \in Seq(Book) /\ O \in Nat /\ Window \in Nat
  BY <1>1, SizesAssumption DEF CacheTyped, CacheRoom
<1>3. l \in Layers /\ \A m \in 1..l : m \in Layers /\ (m # l => m \in 1..layer)
  BY <1>2, SizesAssumption DEF Layers
<1>4. /\ t \in Seq(Entries) /\ Len(t) = end /\ Text \in Seq(Entries) /\ Len(Text) = pos
      /\ \A i \in 1..end : t[i] = IF i <= pos THEN Text[i] ELSE chunk[i - pos]
  BY <1>1, GoesOn DEF CacheText
<1>5. /\ \A m \in Layers : pos <= Base(O) /\ Reads(Text, pages, O, m, pos)
      /\ \A m \in 1..layer : end <= Base(O) /\ Reads(t, pages, O, m, end)
  BY <1>1, <1>4 DEF CacheText, Agrees
<1> HIDE DEF t
<1>6. /\ into \in Seq(Book) /\ O <= L /\ end <= Base(L) /\ L \in {O, PagesFor(end)}
      /\ \A k \in 1..O : into[k] = pages[k]
  BY <1>1, <1>2, EnsuredIs
<1>7. pages' = Write(into, l) /\ answer' = Gather(pages', l, end)
  BY DEF UpdatePages
<1> HIDE DEF into, end
<1>8. into \in [1..L -> Book] /\ L \in Nat
  BY <1>6, LenProperties
<1> HIDE DEF L
<1>9. Write(into, l) \in [1..L -> Book] /\ Stored(Write(into, l), into, L, l, pos, end)
  <2>1. end = pos + Len(chunk)
    BY DEF end
  <2> HIDE DEF l
  <2> QED  BY <1>2, <1>3, <1>6, <1>8, <2>1, WriteIs
<1>10. PICK w \in [1..L -> Book] : w = pages'
  BY <1>7, <1>9
<1>11. w \in Seq(Book) /\ Len(w) = L
  BY <1>8
<1>12. \A k \in 1..L, q \in Layers, o \in 1..PageSize :
         w[k][q][o] = IF q = l /\ Between(Spot(k, o), pos, end) THEN Given(Spot(k, o)) ELSE into[k][q][o]
  BY <1>7, <1>9, <1>10 DEF Stored
<1> HIDE DEF O, l
<1>13. L <= PagesFor(Window)
  <2>1. O <= PagesFor(Window)
    BY <1>1 DEF CacheRoom, O
  <2>2. PagesFor(end) <= PagesFor(Window)
    BY <1>2, PagesForGrows
  <2> QED  BY <1>6, <2>1, <2>2
<1>14. \A k \in 1..L, o \in 1..PageSize, m \in Nat :
         Spot(k, o) < m /\ m <= Base(O) => k \in 1..O /\ into[k] = pages[k]
  <2> SUFFICES ASSUME NEW k \in 1..L, NEW o \in 1..PageSize, NEW m \in Nat,
                      Spot(k, o) < m, m <= Base(O)
               PROVE  k \in 1..O /\ into[k] = pages[k]
    OBVIOUS
  <2>1. k \in Nat \ {0}
    BY <1>8
  <2>2. Spot(k, o) < Base(O)
    <3>1. Spot(k, o) \in Int
      BY <1>8, SpotTyped
    <3>2. Base(O) \in Int
      BY <1>2, BaseTyped
    <3> QED  BY <3>1, <3>2
  <2>3. k \in 1..O
    BY <1>2, <2>1, <2>2, PageBefore
  <2> QED  BY <1>6, <2>3
<1>15. ASSUME NEW m \in Layers PROVE Agrees(kind, keys, w, m, Text)
  <2>1. pos <= Base(L)
    <3>1. pos <= end
      BY <1>2 DEF end
    <3>2. Base(L) \in Int
      BY <1>8, BaseTyped
    <3> QED  BY <1>2, <1>6, <3>1, <3>2
  <2>2. ASSUME NEW k \in 1..L, NEW o \in 1..PageSize, Spot(k, o) < pos
        PROVE  Text[Spot(k, o) + 1] = w[k][m][o]
    <3>1. k \in 1..O /\ into[k] = pages[k]
      BY <1>2, <1>5, <1>14, <2>2
    <3>2. ~ Between(Spot(k, o), pos, end)
      <4>1. Spot(k, o) \in Int
        BY <1>8, SpotTyped
      <4> QED  BY <1>2, <2>2, <4>1 DEF Between
    <3>3. w[k][m][o] = pages[k][m][o]
      BY <1>12, <3>1, <3>2
    <3> QED  BY <1>5, <2>2, <3>1, <3>3 DEF Reads
  <2>3. Reads(Text, w, L, m, pos)
    BY <2>2 DEF Reads
  <2> QED  BY <1>4, <1>11, <2>1, <2>3 DEF Agrees
<1>16. ASSUME NEW m \in 1..l PROVE Agrees(kind, keys, w, m, t)
  <2>1. m \in Layers
    BY <1>3
  <2>2. ASSUME NEW k \in 1..L, NEW o \in 1..PageSize, Spot(k, o) < end
        PROVE  t[Spot(k, o) + 1] = w[k][m][o]
    <3>1. PICK x \in Nat : x = Spot(k, o)
      BY <1>8, SpotNatural
    <3>2. CASE m # l
      <4>1. m \in 1..layer
        BY <1>3, <3>2
      <4>2. end <= Base(O) /\ Reads(t, pages, O, m, end)
        BY <1>5, <4>1
      <4>3. k \in 1..O /\ into[k] = pages[k]
        BY <1>2, <1>14, <2>2, <4>2
      <4>4. w[k][m][o] = pages[k][m][o]
        BY <1>12, <2>1, <3>2, <4>3
      <4> QED  BY <2>2, <4>2, <4>3, <4>4 DEF Reads
    <3>3. CASE m = l /\ x < pos
      <4>1. Text[x + 1] = w[k][m][o]
        <5>1. Reads(Text, w, L, m, pos)
          BY <1>4, <1>11, <1>15, <2>1 DEF Agrees
        <5> QED  BY <3>1, <3>3, <5>1 DEF Reads
      <4>2. x + 1 \in 1..end /\ x + 1 <= pos
        BY <1>2, <3>3 DEF end
      <4> QED  BY <1>4, <3>1, <4>1, <4>2
    <3>4. CASE m = l /\ ~(x < pos)
      <4>1. x \in pos..end - 1 /\ x + 1 \in 1..end /\ ~(x + 1 <= pos) /\ (x + 1) - pos = x - pos + 1
        BY <1>2, <2>2, <3>1, <3>4
      <4>2. Between(x, pos, end)
        BY <4>1 DEF Between
      <4>3. w[k][m][o] = chunk[x - pos + 1]
        BY <1>12, <2>1, <3>1, <3>4, <4>2 DEF Given
      <4>4. t[x + 1] = chunk[(x + 1) - pos]
        BY <1>4, <4>1
      <4> QED  BY <3>1, <4>1, <4>3, <4>4
    <3> QED  BY <3>2, <3>3, <3>4
  <2>3. Reads(t, w, L, m, end)
    BY <2>2 DEF Reads
  <2> QED  BY <1>4, <1>6, <1>11, <2>3 DEF Agrees
<1>17. answer' = ReadOf(kind, keys, w, l, end)
  BY <1>7, <1>10 DEF ReadOf
<1> QED  BY <1>10, <1>11, <1>13, <1>15, <1>16, <1>17 DEF l, t, end

LEMMA CacheStart == CacheInit => CacheInv /\ Cache!Init
<1> SUFFICES ASSUME CacheInit PROVE CacheInv /\ Cache!Init
  OBVIOUS
<1>1. Zeros(Window) \in Seq(Entries) /\ Len(Zeros(Window)) = Window
  <2>1. Zeros(Window) \in [1..Window -> Entries]
    BY DEF Zeros, Entries
  <2> QED  BY <2>1, SizesAssumption
<1>2. /\ kind \in {"static", "dynamic", "paged"} /\ pages = <<>> /\ pos = 0
      /\ chunk = <<>> /\ layer = 0 /\ answer = <<>>
      /\ keys \in [Layers -> Seq(Entries)]
      /\ \A l \in Layers : Len(keys[l]) = IF kind = "static" THEN Window ELSE 0
  <2>1. <<>> \in Seq(Entries) /\ Len(<<>>) = 0
    OBVIOUS
  <2> QED  BY <1>1, <2>1 DEF CacheInit
<1>3. pages \in Seq(Book) /\ Len(pages) = 0 /\ <<>> \in Seq(Vocabulary) /\ <<>> \in Seq(Entries)
      /\ Len(<<>>) = 0 /\ Window \in Nat
  BY <1>2, SizesAssumption
<1>4. \A l \in Layers : Agrees(kind, keys, pages, l, <<>>)
  <2> SUFFICES ASSUME NEW l \in Layers PROVE Agrees(kind, keys, pages, l, <<>>)
    OBVIOUS
  <2>1. Len(keys[l]) \in Nat
    BY <1>2, <1>3
  <2> QED  BY <1>3, <2>1, AgreesNone
<1>5. Text = <<>>
  <2>1. ReadOf(kind, keys, pages, 1, Len(<<>>)) = <<>>
    BY <1>2, <1>3, <1>4, FirstLayer, ReadBack
  <2> QED  BY <1>2, <1>3, <2>1, TextIsRead
<1>6. CacheTyped
  BY <1>2, <1>3, SizesAssumption DEF CacheTyped
<1>7. CacheRoom
  <2>1. Size = IF kind = "static" THEN Window ELSE 0
    BY <1>2, FirstLayer DEF Size
  <2>2. PagesFor(Window) \in Nat
    BY <1>3, PagesForIs
  <2> QED  BY <1>2, <1>3, <2>1, <2>2, SizesAssumption DEF CacheRoom
<1>8. CacheText
  <2>1. \A l \in 1..layer : FALSE
    BY <1>2
  <2> QED  BY <1>2, <1>3, <1>4, <1>5, <2>1 DEF CacheText
<1> QED  BY <1>2, <1>5, <1>6, <1>7, <1>8 DEF CacheInv, Cache!Init

\* The steps that touch neither tensors nor pages, nor the tokens before the pass.
LEMMA TextStays ==
  ASSUME UNCHANGED <<kind, keys, pages, pos>>
  PROVE  Text' = Text /\ Size' = Size
BY DEF Text, Size

LEMMA BeginKeeps ==
  ASSUME CacheInv, Begin
  PROVE  CacheInv' /\ Cache!Begin
<1>1. CacheTyped /\ CacheRoom /\ CacheText
  BY DEF CacheInv
<1>2. PICK n \in 1..MaxChunk : pos + n <= Window /\ chunk' \in [1..n -> Vocabulary]
  BY DEF Begin
<1>3. chunk = <<>> /\ UNCHANGED <<kind, keys, pages, pos, layer, answer>>
  BY DEF Begin
<1>4. n \in Nat /\ n <= MaxChunk
  BY SizesAssumption
<1>5. chunk' \in Seq(Vocabulary) /\ Len(chunk') = n
  BY <1>2, <1>4
<1>6. Text' = Text /\ Size' = Size
  BY <1>3, TextStays
<1>7. layer = 0
  BY <1>1, <1>3 DEF CacheTyped, CacheRoom
<1>8. CacheTyped'
  BY <1>1, <1>3, <1>5 DEF CacheTyped
<1>9. CacheRoom'
  BY <1>1, <1>2, <1>3, <1>4, <1>5, <1>6, <1>7 DEF CacheRoom
<1>10. CacheText'
  <2>1. \A l \in 1..layer' : FALSE
    BY <1>3, <1>7
  <2> QED  BY <1>1, <1>3, <1>6, <2>1 DEF CacheText
<1>11. Cache!Begin
  <2>1. chunk' \in Cache!Chunks
    BY <1>2 DEF Cache!Chunks
  <2>2. Len(Text) + Len(chunk') <= Window
    BY <1>1, <1>2, <1>5 DEF CacheText
  <2> QED  BY <1>3, <1>6, <2>1, <2>2 DEF Cache!Begin
<1> QED  BY <1>8, <1>9, <1>10, <1>11 DEF CacheInv

LEMMA UpdateKeeps ==
  ASSUME CacheInv, Update
  PROVE  CacheInv' /\ Cache!Update
<1> DEFINE end == pos + Len(chunk)
           l == layer + 1
           t == Text \o chunk
<1>1. CacheTyped /\ CacheRoom /\ CacheText
  BY DEF CacheInv
<1>2. chunk # <<>> /\ layer < NumLayers /\ layer' = l /\ UNCHANGED <<kind, pos, chunk>>
  BY DEF Update
<1>3. l \in 1..NumLayers /\ end \in Nat /\ end <= Window /\ pos \in Nat /\ l \in Layers /\ layer \in 0..NumLayers
  BY <1>1, <1>2, SizesAssumption DEF CacheTyped, CacheRoom, Layers
<1>4. Text \in Seq(Entries) /\ Len(Text) = pos /\ t \in Seq(Vocabulary) /\ t \in Seq(Entries) /\ Len(t) = end
  BY <1>1, GoesOn DEF CacheText
<1> HIDE DEF end, l, t
<1>5. /\ keys' \in [Layers -> Seq(Entries)] /\ pages' \in Seq(Book)
      /\ Len(pages') <= PagesFor(Window) /\ (kind # "paged" => pages' = <<>>)
      /\ \A m \in Layers : Agrees(kind, keys', pages', m, Text)
      /\ \A m \in 1..l : Agrees(kind, keys', pages', m, t)
      /\ answer' = ReadOf(kind, keys', pages', l, end)
      /\ \A m \in Layers : Len(keys'[m]) = IF kind = "paged" THEN 0 ELSE Grown(end)
  <2>1. CASE kind = "paged"
    <3>1. UpdatePages(layer + 1) /\ UNCHANGED keys
      BY <2>1 DEF Update, UpdatePages
    <3>2. \A m \in Layers : Len(keys[m]) = 0
      BY <1>1, <2>1 DEF CacheRoom
    <3> QED  BY <1>1, <1>2, <2>1, <3>1, <3>2, PagesUpdated DEF CacheTyped, end, l, t
  <2>2. CASE kind # "paged"
    <3>1. UpdateKeys(layer + 1) /\ UNCHANGED pages
      BY <2>2 DEF Update, UpdateKeys
    <3> QED  BY <1>1, <1>2, <2>2, <3>1, KeysUpdated DEF CacheTyped, CacheRoom, end, l, t
  <2> QED  BY <2>1, <2>2
<1>6. Text' = Text
  <2>1. ReadOf(kind, keys', pages', 1, Len(Text)) = Text
    BY <1>4, <1>5, FirstLayer, ReadBack
  <2>2. Text' = ReadOf(kind', keys', pages', 1, pos')
    BY DEF Text, ReadOf
  <2> QED  BY <1>2, <1>4, <2>1, <2>2
<1>7. answer' = t
  <2>1. l \in 1..l
    BY <1>3
  <2>2. ReadOf(kind, keys', pages', l, Len(t)) = t
    BY <1>3, <1>4, <1>5, <2>1, ReadBack
  <2> QED  BY <1>4, <1>5, <2>2
<1>8. Size' = IF kind = "paged" THEN 0 ELSE Grown(end)
  <2>1. Size' = Len(keys'[1])
    BY DEF Size
  <2> QED  BY <1>5, <2>1, FirstLayer
<1>9. kind # "paged" => Grown(end) <= Window /\ (kind = "static" => Grown(end) = Window)
  BY <1>1, <1>3, GrownIs
<1>10. CacheTyped'
  BY <1>1, <1>2, <1>3, <1>4, <1>5, <1>7 DEF CacheTyped
<1>11. CacheRoom'
  <2>1. (\A m \in Layers : Len(keys[m]) = Size)'
    BY <1>5, <1>8
  <2>2. pos' + Len(chunk') <= Window /\ Len(chunk') <= MaxChunk /\ Len(answer') <= Window
    BY <1>1, <1>2, <1>3, <1>4, <1>7 DEF CacheRoom
  <2> QED  BY <1>2, <1>5, <1>8, <1>9, <2>1, <2>2 DEF CacheRoom
<1>12. CacheText'
  BY <1>1, <1>2, <1>4, <1>5, <1>6 DEF CacheText, t
<1>13. Cache!Update
  BY <1>2, <1>6, <1>7 DEF Cache!Update, t, l
<1> QED  BY <1>10, <1>11, <1>12, <1>13 DEF CacheInv

LEMMA AdvanceKeeps ==
  ASSUME CacheInv, Advance
  PROVE  CacheInv' /\ Cache!Advance
<1> DEFINE end == pos + Len(chunk)
           t == Text \o chunk
<1>1. CacheTyped /\ CacheRoom /\ CacheText
  BY DEF CacheInv
<1>2. /\ chunk # <<>> /\ layer = NumLayers /\ pos' = end /\ chunk' = <<>> /\ layer' = 0
      /\ UNCHANGED <<kind, keys, pages, answer>>
  BY DEF Advance
<1>3. t \in Seq(Vocabulary) /\ t \in Seq(Entries) /\ Len(t) = end /\ end \in Nat /\ end <= Window
  BY <1>1, GoesOn DEF CacheTyped, CacheRoom
<1>4. \A m \in Layers : Agrees(kind, keys, pages, m, t)
  BY <1>1, <1>2 DEF CacheText, Layers
<1> HIDE DEF end, t
<1>5. Text' = t
  <2>1. ReadOf(kind, keys, pages, 1, Len(t)) = t
    BY <1>1, <1>3, <1>4, FirstLayer, ReadBack DEF CacheTyped
  <2>2. Text' = ReadOf(kind', keys', pages', 1, pos')
    BY DEF Text, ReadOf
  <2> QED  BY <1>2, <1>3, <2>1, <2>2
<1>6. Size' = Size /\ <<>> \in Seq(Vocabulary) /\ Len(<<>>) = 0 /\ 0 \in 0..NumLayers
      /\ MaxChunk \in Nat
  BY <1>2, SizesAssumption DEF Size
<1>7. CacheTyped'
  BY <1>1, <1>2, <1>3, <1>6 DEF CacheTyped
<1>8. CacheRoom'
  BY <1>1, <1>2, <1>3, <1>6 DEF CacheRoom
<1>9. CacheText'
  <2>1. \A l \in 1..layer' : FALSE
    BY <1>2
  <2> QED  BY <1>2, <1>3, <1>4, <1>5, <2>1 DEF CacheText
<1>10. Cache!Advance
  BY <1>2, <1>5 DEF Cache!Advance, t
<1> QED  BY <1>7, <1>8, <1>9, <1>10 DEF CacheInv

LEMMA AbortKeeps ==
  ASSUME CacheInv, Abort
  PROVE  CacheInv' /\ Cache!Abort
<1>1. CacheTyped /\ CacheRoom /\ CacheText
  BY DEF CacheInv
<1>2. chunk # <<>> /\ chunk' = <<>> /\ layer' = 0 /\ UNCHANGED <<kind, keys, pages, pos, answer>>
  BY DEF Abort
<1>3. Text' = Text /\ Size' = Size /\ <<>> \in Seq(Vocabulary) /\ Len(<<>>) = 0 /\ 0 \in 0..NumLayers
      /\ MaxChunk \in Nat
  BY <1>2, TextStays, SizesAssumption
<1>4. CacheTyped'
  BY <1>1, <1>2, <1>3 DEF CacheTyped
<1>5. CacheRoom'
  <2>1. pos + 0 <= Window
    <3>1. pos \in Nat /\ Len(chunk) \in Nat /\ pos + Len(chunk) <= Window /\ Window \in Nat
      BY <1>1, SizesAssumption DEF CacheTyped, CacheRoom
    <3> QED  BY <3>1
  <2> QED  BY <1>1, <1>2, <1>3, <2>1 DEF CacheRoom
<1>6. CacheText'
  <2>1. \A l \in 1..layer' : FALSE
    BY <1>2
  <2> QED  BY <1>1, <1>2, <1>3, <2>1 DEF CacheText
<1>7. Cache!Abort
  BY <1>2, <1>3 DEF Cache!Abort
<1> QED  BY <1>4, <1>5, <1>6, <1>7 DEF CacheInv

LEMMA ResetKeeps ==
  ASSUME CacheInv, Reset
  PROVE  CacheInv' /\ Cache!Reset
<1>1. CacheTyped /\ CacheRoom /\ CacheText
  BY DEF CacheInv
<1>2. chunk = <<>> /\ pos' = 0 /\ pages' = <<>> /\ UNCHANGED <<kind, keys, chunk, layer, answer>>
  BY DEF Reset
<1>3. layer = 0 /\ pages' \in Seq(Book) /\ Len(<<>>) = 0 /\ Size' = Size
      /\ <<>> \in Seq(Entries) /\ <<>> \in Seq(Vocabulary)
  BY <1>1, <1>2 DEF CacheTyped, CacheRoom, Size
<1>4. keys' \in [Layers -> Seq(Entries)] /\ \A l \in Layers : Len(keys'[l]) \in Nat
  BY <1>1, <1>2 DEF CacheTyped
<1>5. \A l \in Layers : Agrees(kind', keys', pages', l, <<>>)
  <2> SUFFICES ASSUME NEW l \in Layers PROVE Agrees(kind', keys', pages', l, <<>>)
    OBVIOUS
  <2> QED  BY <1>3, <1>4, AgreesNone
<1>6. Text' = <<>>
  <2>1. ReadOf(kind', keys', pages', 1, Len(<<>>)) = <<>>
    BY <1>3, <1>4, <1>5, FirstLayer, ReadBack
  <2>2. Text' = ReadOf(kind', keys', pages', 1, pos')
    BY DEF Text, ReadOf
  <2> QED  BY <1>2, <1>3, <2>1, <2>2
<1>7. CacheTyped'
  BY <1>1, <1>2, <1>3, <1>4 DEF CacheTyped
<1>8. CacheRoom'
  <2>1. PagesFor(Window) \in Nat /\ Window \in Nat
    BY PagesForIs, SizesAssumption
  <2> QED  BY <1>1, <1>2, <1>3, <2>1 DEF CacheRoom
<1>9. CacheText'
  <2>1. \A l \in 1..layer' : FALSE
    BY <1>2, <1>3
  <2> QED  BY <1>2, <1>3, <1>5, <1>6, <2>1 DEF CacheText
<1>10. Cache!Reset
  BY <1>2, <1>6 DEF Cache!Reset
<1> QED  BY <1>7, <1>8, <1>9, <1>10 DEF CacheInv

LEMMA CacheStep == CacheInv /\ [CacheNext]_storageVars => CacheInv' /\ [Cache!Next]_(Cache!vars)
<1> SUFFICES ASSUME CacheInv, [CacheNext]_storageVars
             PROVE  CacheInv' /\ [Cache!Next]_(Cache!vars)
  OBVIOUS
<1>1. CASE Begin
  BY <1>1, BeginKeeps DEF Cache!Next
<1>2. CASE Update
  BY <1>2, UpdateKeeps DEF Cache!Next
<1>3. CASE Advance
  BY <1>3, AdvanceKeeps DEF Cache!Next
<1>4. CASE Abort
  BY <1>4, AbortKeeps DEF Cache!Next
<1>5. CASE Reset
  BY <1>5, ResetKeeps DEF Cache!Next
<1>6. CASE UNCHANGED storageVars
  <2>1. /\ kind' = kind /\ keys' = keys /\ pages' = pages /\ pos' = pos /\ chunk' = chunk
        /\ layer' = layer /\ answer' = answer
    BY <1>6 DEF storageVars
  <2>2. Text' = Text /\ Size' = Size
    BY <2>1, TextStays
  <2>3. CacheTyped'
    BY <2>1 DEF CacheInv, CacheTyped
  <2>4. CacheRoom'
    BY <2>1, <2>2 DEF CacheInv, CacheRoom
  <2>5. CacheText'
    BY <2>1, <2>2 DEF CacheInv, CacheText
  <2>6. UNCHANGED Cache!vars
    BY <2>1, <2>2 DEF Cache!vars
  <2> QED  BY <2>3, <2>4, <2>5, <2>6 DEF CacheInv
<1> QED  BY <1>1, <1>2, <1>3, <1>4, <1>5, <1>6 DEF CacheNext

LEMMA PassesUseTheCache == ForwardNext => [CacheNext]_storageVars
BY DEF ForwardNext, ForwardBegin, ForwardUpdate, ForwardAdvance, ForwardAbort, ForwardReset, TrainRow,
       CacheNext

LEMMA CacheInvariant == ForwardSpec => []CacheInv
<1>1. ForwardInit => CacheInv
  BY CacheStart DEF ForwardInit
<1>2. CacheInv /\ [ForwardNext]_fvars => CacheInv'
  <2>1. [ForwardNext]_fvars => [CacheNext]_storageVars
    BY PassesUseTheCache DEF fvars
  <2> QED  BY <2>1, CacheStep
<1> QED  BY <1>1, <1>2, PTL DEF ForwardSpec

\* For every window, page size, number of layers and sequence of passes, completed,
\* aborted or after a reset, a static, dynamic or paged cache answers each layer
\* with the text and the chunk, in order: every step is one of KVCache or none
\* (update, advance and reset of models/kv_cache.py).
THEOREM CacheImplementsKVCache == ForwardSpec => ImplementsKVCache
<1>1. ForwardInit => Cache!Init
  BY CacheStart DEF ForwardInit
<1>2. CacheInv /\ [ForwardNext]_fvars => [Cache!Next]_(Cache!vars)
  <2>1. [ForwardNext]_fvars => [CacheNext]_storageVars
    BY PassesUseTheCache DEF fvars
  <2> QED  BY <2>1, CacheStep
<1> QED  BY <1>1, <1>2, CacheInvariant, PTL DEF ForwardSpec, ImplementsKVCache, Cache!Spec

\* The tensors and pages of a cache keep their shape: a dynamic one never grows
\* beyond the window, nor pages beyond it by a whole page (_grow, _ensure_pages).
THEOREM CacheTypeCorrect == ForwardSpec => []StorageTypeOK
<1>1. CacheInv => StorageTypeOK
  <2> SUFFICES ASSUME CacheInv PROVE StorageTypeOK
    OBVIOUS
  <2>1. CacheTyped /\ CacheRoom /\ Size \in Nat /\ Window \in Nat /\ MaxChunk \in Nat
    BY FirstLayer, SizesAssumption DEF CacheInv, CacheTyped, Size
  <2>2. \A l \in Layers : keys[l] \in [1..Size -> Entries]
    BY <2>1, LenProperties DEF CacheTyped, CacheRoom
  <2>3. Size \in (IF kind = "static" THEN {Window} ELSE IF kind = "dynamic" THEN 0..Window ELSE {0})
    BY <2>1 DEF CacheTyped, CacheRoom
  <2>4. Len(pages) \in 0..(IF kind = "paged" THEN PagesFor(Window) ELSE 0)
    <3>1. PagesFor(Window) \in Nat
      BY <2>1, PagesForIs
    <3>2. Len(pages) \in Nat /\ Len(pages) <= PagesFor(Window) /\ (kind # "paged" => Len(pages) = 0)
      BY <2>1 DEF CacheTyped, CacheRoom
    <3> QED  BY <3>1, <3>2
  <2>5. \A n \in DOMAIN pages : pages[n] \in [Layers -> [1..PageSize -> Entries]]
    <3>1. pages \in Seq(Book)
      BY <2>1 DEF CacheTyped
    <3> QED  BY <3>1 DEF Book
  <2>6. pos \in 0..Window /\ Len(chunk) \in 0..MaxChunk /\ Len(answer) \in 0..Window
    BY <2>1 DEF CacheTyped, CacheRoom
  <2>7. ToSet(chunk) \subseteq Vocabulary /\ ToSet(answer) \subseteq Entries
    BY <2>1, RangeTyped DEF CacheTyped, Entries
  <2> QED  BY <2>1, <2>2, <2>3, <2>4, <2>5, <2>6, <2>7 DEF StorageTypeOK, CacheTyped
<1> QED  BY <1>1, CacheInvariant, PTL

-----------------------------------------------------------------------------
(* Forward: what a position attends to.                                     *)

\* The remainder of a division.
LEMMA Remainder ==
  ASSUME NEW n \in Nat \ {0}, NEW m \in Int
  PROVE  m % n \in 0..n - 1
OBVIOUS

\* A layer that slides has a window.
LEMMA SlidingHasWindow ==
  ASSUME NEW m, ModelFits(m), NEW l \in 0..m.num_layers - 1
  PROVE  LayerKind(m, l) = "sliding" => m.sliding_window \in Nat \ {0}
<1> DEFINE pattern == m.layer_pattern  n == Len(pattern)  x == l % n
<1>1. /\ m.num_layers \in Nat \ {0} /\ m.sliding_window \in Nat /\ SpansFit(m)
      /\ pattern \in Seq(LayerKinds)
  BY DEF ModelFits, AttentionFits
<1>2. CASE pattern # <<>>
  <2>1. LayerKind(m, l) = pattern[x + 1]
    BY <1>2 DEF LayerKind
  <2>2. n \in Nat \ {0} /\ l \in Int /\ DOMAIN pattern = 1..n
    BY <1>1, <1>2, EmptySeq
  <2>3. x \in 0..n - 1
    <3> HIDE DEF n
    <3> QED  BY <2>2, Remainder
  <2> HIDE DEF n, x
  <2>4. x + 1 \in DOMAIN pattern
    BY <2>2, <2>3
  <2>5. pattern[x + 1] \in ToSet(pattern)
    BY <2>4 DEF ToSet
  <2> QED  BY <1>1, <2>1, <2>5 DEF SpansFit
<1>3. CASE pattern = <<>>
  <2>1. LayerKind(m, l) = IF m.attention_type = "sparse" THEN "sparse"
                          ELSE IF LayerWindow(m, l) > 0 THEN "sliding" ELSE "full"
    BY <1>3 DEF LayerKind
  <2>2. LayerKind(m, l) = "sliding" => LayerWindow(m, l) > 0
    BY <2>1
  <2>3. LayerWindow(m, l) > 0 => m.sliding_window # 0
    BY <1>1 DEF LayerWindow
  <2> QED  BY <1>1, <2>2, <2>3
<1> QED  BY <1>2, <1>3

\* Without documents, a query attends to what is visible of the text before it,
\* whether or not forward() makes do without a mask.
LEMMA AttendsToVisible ==
  ASSUME NEW m, ModelFits(m), NEW l \in 0..m.num_layers - 1,
         NEW from \in Nat, NEW length \in Nat, NEW i \in 0..length - 1, NEW key
  PROVE  key \in Attends(m, l, from, length, from + length, <<>>, i)
           <=> key \in 0..from + i /\ Visible(AttentionSpec(m, l), from + i, key)
<1> DEFINE spec == AttentionSpec(m, l)
           masked == Masked(m, spec, from, length, <<>>)
<1>1. spec.kind = "sliding" => spec.window = m.sliding_window /\ m.sliding_window \in Nat \ {0}
  BY SlidingHasWindow DEF AttentionSpec
<1> HIDE DEF spec
<1>2. SameDocument(<<>>, from + i, key)
  BY DEF SameDocument
<1>3. key \in Attends(m, l, from, length, from + length, <<>>, i)
        <=> /\ key \in 0..from + length - 1
            /\ IF masked THEN Visible(spec, from + i, key) ELSE from = 0 => key <= i
  BY <1>2 DEF Attends, spec
<1> HIDE DEF masked
<1>4. Visible(spec, from + i, key) => key <= from + i
  BY DEF Visible
<1>5. ASSUME masked
      PROVE  key \in Attends(m, l, from, length, from + length, <<>>, i)
               <=> key \in 0..from + i /\ Visible(spec, from + i, key)
  BY <1>3, <1>4, <1>5
<1>6. ASSUME ~masked
      PROVE  key \in Attends(m, l, from, length, from + length, <<>>, i)
               <=> key \in 0..from + i /\ Visible(spec, from + i, key)
  <2>1. spec.kind # "sparse" /\ ~Windowed(spec, from, length) /\ (from = 0 \/ length = 1)
    BY <1>6 DEF Masked, masked
  <2>2. key \in 0..from + length - 1 /\ (from = 0 => key <= i) <=> key \in 0..from + i
    BY <2>1
  <2>3. ASSUME key \in 0..from + i PROVE Visible(spec, from + i, key)
    <3>1. spec.kind = "sliding" => spec.window > 0 /\ from + length <= spec.window
      BY <1>1, <2>1 DEF Windowed
    <3>2. spec.kind = "sliding" => key > (from + i) - spec.window
      BY <1>1, <2>3, <3>1
    <3>3. key <= from + i
      BY <2>3
    <3> QED  BY <2>1, <3>2, <3>3, Zenon DEF Visible
  <2> QED  BY <1>3, <1>6, <2>2, <2>3
<1> QED  BY <1>5, <1>6 DEF spec

\* Documents of a packed row go up.
LEMMA PackingsGoUp ==
  ASSUME NEW documents \in Packings, NEW j \in 1..Window, NEW k \in 1..Window, j <= k
  PROVE  documents[j] <= documents[k]
<1>0. Window \in Nat \ {0} /\ documents \in [1..Window -> 1..Window]
      /\ \A i \in 2..Window : documents[i] \in {documents[i - 1], documents[i - 1] + 1}
  BY SizesAssumption DEF Packings
<1> DEFINE P == {n \in 0..k - j : documents[j] <= documents[j + n]}
<1>1. k - j \in Nat /\ j \in Nat /\ k \in Nat
  BY <1>0
<1>2. documents[j] \in Int
  BY <1>0
<1>3. 0 \in P
  BY <1>1, <1>2
<1>4. ASSUME NEW n \in 1..k - j, n - 1 \in P PROVE n \in P
  <2>1. documents[j] <= documents[j + (n - 1)]
    BY <1>4
  <2>2. j + n \in 2..Window /\ (j + n) - 1 = j + (n - 1) /\ j + (n - 1) \in 1..Window
    BY <1>0, <1>1
  <2>3. documents[j + n] \in {documents[j + (n - 1)], documents[j + (n - 1)] + 1}
    BY <1>0, <2>2
  <2>4. documents[j + (n - 1)] \in Int /\ n \in 0..k - j
    BY <1>0, <1>1, <2>2
  <2> QED  BY <1>2, <2>1, <2>3, <2>4
<1>5. \A n \in 0..k - j : n \in P
  <2> HIDE DEF P
  <2> QED  BY <1>1, <1>3, <1>4, UpTo
<1>6. k - j \in P /\ j + (k - j) = k
  BY <1>1, <1>5
<1> QED  BY <1>6

\* Where the document of a position of a packed row begins.
BeginOf(documents, i) == Min({k \in 0..i : documents[k + 1] = documents[i + 1]})

LEMMA BeginIs ==
  ASSUME NEW documents \in Packings, NEW i \in 0..Window - 1
  PROVE  /\ BeginOf(documents, i) \in 0..i
         /\ \A key \in 0..Window - 1 : key <= i =>
              (documents[i + 1] = documents[key + 1] <=> key >= BeginOf(documents, i))
<1> DEFINE S == {k \in 0..i : documents[k + 1] = documents[i + 1]}
           start == Min(S)
<1>1. Window \in Nat \ {0} /\ documents \in [1..Window -> 1..Window] /\ i \in Nat
  BY SizesAssumption DEF Packings
<1>2. S \in SUBSET Nat /\ i \in S
  BY <1>1
<1>3. \E x \in S : \A y \in S : x <= y
  <2> HIDE DEF S
  <2>1. S # {}
    BY <1>2
  <2> QED  BY <1>2, <2>1, LeastNumber
<1>4. start \in S /\ \A y \in S : start <= y
  <2> HIDE DEF S
  <2> QED  BY <1>3 DEF Min
<1>5. ASSUME NEW key \in 0..Window - 1, key <= i
      PROVE  documents[i + 1] = documents[key + 1] <=> key >= start
  <2>1. ASSUME documents[i + 1] = documents[key + 1] PROVE key >= start
    <3>1. key \in S
      BY <1>1, <1>5, <2>1
    <3> QED  BY <1>1, <1>2, <1>4, <3>1
  <2>2. ASSUME key >= start PROVE documents[i + 1] = documents[key + 1]
    <3> HIDE DEF start
    <3>1. start \in 0..i /\ documents[start + 1] = documents[i + 1]
      BY <1>4
    <3>2. start + 1 \in 1..Window /\ key + 1 \in 1..Window /\ i + 1 \in 1..Window
          /\ start + 1 <= key + 1 /\ key + 1 <= i + 1
      BY <1>1, <1>5, <2>2, <3>1
    <3>3. documents[start + 1] <= documents[key + 1] /\ documents[key + 1] <= documents[i + 1]
      BY <3>2, PackingsGoUp
    <3>4. documents[key + 1] \in Int /\ documents[i + 1] \in Int
      BY <1>1, <3>2
    <3> QED  BY <3>1, <3>3, <3>4
  <2> QED  BY <2>1, <2>2
<1> HIDE DEF start
<1>6. start \in 0..i
  BY <1>4
<1> QED  BY <1>5, <1>6 DEF start, BeginOf

\* In a packed row, a query attends to what is visible of its document, as if
\* that were a row of its own.
LEMMA AttendsToDocument ==
  ASSUME NEW m, ModelFits(m), NEW l \in 0..m.num_layers - 1, LayerKind(m, l) # "sparse",
         NEW documents \in Packings, NEW i \in 0..Window - 1, NEW key
  PROVE  LET start == BeginOf(documents, i)
         IN /\ start \in 0..i
            /\ key \in Attends(m, l, 0, Window, Window, documents, i)
                 <=> key \in start..i /\ Visible(AttentionSpec(m, l), i - start, key - start)
<1> DEFINE spec == AttentionSpec(m, l)
           start == BeginOf(documents, i)
<1>1. /\ spec.kind = "sliding" => spec.window = m.sliding_window /\ m.sliding_window \in Nat \ {0}
      /\ spec.kind # "sparse"
  BY SlidingHasWindow DEF AttentionSpec
<1>2. /\ start \in 0..i
      /\ \A k \in 0..Window - 1 : k <= i => (documents[i + 1] = documents[k + 1] <=> k >= start)
  BY BeginIs
<1>3. documents # <<>> /\ Window \in Nat \ {0}
  BY SizesAssumption DEF Packings
<1>4. Masked(m, spec, 0, Window, documents)
  BY <1>3 DEF Masked
<1>5. key \in Attends(m, l, 0, Window, Window, documents, i)
        <=> /\ key \in 0..Window - 1
            /\ Visible(spec, 0 + i, key) /\ SameDocument(documents, 0 + i, key)
  BY <1>4 DEF Attends
<1>6. 0 + i = i
  OBVIOUS
<1> HIDE DEF spec, start
<1>7. key \in Attends(m, l, 0, Window, Window, documents, i)
        <=> /\ key \in 0..Window - 1
            /\ key <= i /\ (spec.kind = "sliding" => key > i - spec.window)
            /\ documents[i + 1] = documents[key + 1]
  BY <1>1, <1>3, <1>5, <1>6 DEF Visible, SameDocument
<1>8. key \in 0..Window - 1 /\ key <= i /\ documents[i + 1] = documents[key + 1] <=> key \in start..i
  BY <1>2, <1>3
<1>9. ASSUME key \in start..i
      PROVE  (spec.kind = "sliding" => key > i - spec.window)
               <=> Visible(spec, i - start, key - start)
  <2>1. key - start <= i - start /\ i \in Int /\ start \in Int /\ key \in Int
    BY <1>2, <1>9
  <2>2. spec.kind = "sliding" =>
          (key > i - spec.window <=> key - start > (i - start) - spec.window)
    BY <1>1, <2>1
  <2> QED  BY <1>1, <2>1, <2>2 DEF Visible
<1>10. key \in Attends(m, l, 0, Window, Window, documents, i)
         <=> key \in start..i /\ Visible(spec, i - start, key - start)
  BY <1>7, <1>8, <1>9
<1> QED  BY <1>2, <1>10 DEF spec, start

\* What is mixed, counted from where the text begins.
Shifts(A, B, start) == \A key : key \in A <=> key - start \in B /\ key \in Int
Mixed(row, A) == {<<k, row[k + 1]>> : k \in A}
MixedFrom(row, start, B) == {<<k, row[start + k + 1]>> : k \in B}
Counted(mixes, start) == {<<at[1] - start, at[2]>> : at \in mixes}

LEMMA Shifted ==
  ASSUME NEW row, NEW start \in Nat, NEW A, NEW B \in SUBSET Nat, Shifts(A, B, start)
  PROVE  Counted(Mixed(row, A), start) = MixedFrom(row, start, B)
<1> DEFINE L == {<<at[1] - start, at[2]>> : at \in {<<k, row[k + 1]>> : k \in A}}
           R == {<<k, row[start + k + 1]>> : k \in B}
<1>0. \A key : key \in A <=> key - start \in B /\ key \in Int
  BY DEF Shifts
<1>1. ASSUME NEW x \in L PROVE x \in R
  <2>1. PICK k \in A : x = <<k - start, row[k + 1]>>
    OBVIOUS
  <2>2. k - start \in B /\ k \in Int
    BY <1>0
  <2>3. start + (k - start) + 1 = k + 1
    BY <2>2
  <2>4. x = <<k - start, row[start + (k - start) + 1]>>
    BY <2>1, <2>3
  <2> QED  BY <2>2, <2>4
<1>2. ASSUME NEW x \in R PROVE x \in L
  <2>1. PICK k \in B : x = <<k, row[start + k + 1]>>
    OBVIOUS
  <2>2. k \in Nat /\ (start + k) - start = k /\ start + k \in Int
    OBVIOUS
  <2>3. start + k \in A
    BY <1>0, <2>2
  <2>4. <<start + k, row[(start + k) + 1]>> \in {<<j, row[j + 1]>> : j \in A}
    BY <2>3
  <2>5. x = <<(start + k) - start, row[(start + k) + 1]>>
    BY <2>1, <2>2
  <2> DEFINE at == <<start + k, row[(start + k) + 1]>>
  <2>6. at \in {<<j, row[j + 1]>> : j \in A} /\ x = <<at[1] - start, at[2]>>
    BY <2>4, <2>5
  <2> HIDE DEF at
  <2> QED  BY <2>6
<1> HIDE DEF L, R
<1>3. L = R
  BY <1>1, <1>2
<1> QED  BY <1>3 DEF L, R, Counted, Mixed, MixedFrom

-----------------------------------------------------------------------------
(* Dispatch: an expert's slice is what it is chosen for.                     *)

\* Sequences one after the other.
Joins(g, N, W) ==
  FlattenSeq(W) = g[N] /\ g[0] = <<>> /\ \A n \in 1..N : g[n] = g[n - 1] \o W[n]

LEMMA FlattenIs ==
  ASSUME NEW S, NEW N \in Nat \ {0}, NEW W \in [1..N -> Seq(S)]
  PROVE  \E g \in [0..N -> Seq(S)] : Joins(g, N, W)
<1> DEFINE step == [n \in 1..N |-> [a \in Seq(S) |-> a \o W[n]]]
<1>1. N \in Nat /\ 1 \in 1..N /\ N \in 1..N /\ \A n \in 1..N : W[n] \in Seq(S)
  OBVIOUS
<1>2. step \in [1..N -> [Seq(S) -> Seq(S)]]
  <2>1. \A n \in 1..N : [a \in Seq(S) |-> a \o W[n]] \in [Seq(S) -> Seq(S)]
    BY <1>1, ConcatProperties
  <2> QED  BY <2>1
<1>3. \A n \in 1..N : \A a \in Seq(S) : step[n][a] = a \o W[n]
  OBVIOUS
<1>4. <<>> \in Seq(S)
  OBVIOUS
<1> HIDE DEF step
<1>5. PICK f \in [0..N -> Seq(S)] : Recurs(f, N, <<>>, step)
  BY <1>1, <1>2, <1>4, Recursion
<1>6. f[0] = <<>> /\ \A n \in 1..N : f[n] = f[n - 1] \o W[n]
  <2>1. \A n \in 1..N : n - 1 \in 0..N
    BY <1>1
  <2> QED  BY <1>3, <1>5, <2>1 DEF Recurs
<1>7. Len(W) = N
  <2>1. W \in Seq(Seq(S))
    BY <1>1
  <2> QED  BY <1>1, <2>1, LenProperties
<1> DEFINE h == [n \in 1..N |-> f[n]]
<1>8. h = [i \in 1..N |-> IF i = 1 THEN W[i] ELSE h[i - 1] \o W[i]]
  <2>1. \A n \in 1..N : f[n] = IF n = 1 THEN W[n] ELSE h[n - 1] \o W[n]
    <3> SUFFICES ASSUME NEW n \in 1..N PROVE f[n] = IF n = 1 THEN W[n] ELSE h[n - 1] \o W[n]
      OBVIOUS
    <3>1. CASE n = 1
      <4>1. f[1] = f[1 - 1] \o W[1]
        BY <1>1, <1>6
      <4>2. 1 - 1 = 0 /\ W[1] \in Seq(S)
        BY <1>1
      <4>3. f[1] = <<>> \o W[1]
        BY <1>6, <4>1, <4>2
      <4>4. <<>> \o W[1] = W[1]
        BY <4>2, ConcatEmptySeq
      <4> QED  BY <3>1, <4>3, <4>4
    <3>2. CASE n # 1
      <4>1. n - 1 \in 1..N
        BY <1>1, <3>2
      <4> QED  BY <1>6, <3>2, <4>1
    <3> QED  BY <3>1, <3>2
  <2> QED  BY <2>1
<1> HIDE DEF h
<1> DEFINE g == CHOOSE g : g = [i \in 1..N |-> IF i = 1 THEN W[i] ELSE g[i - 1] \o W[i]]
<1>9. FlattenSeq(W) = g[N]
  BY <1>1, <1>7 DEF FlattenSeq
<1>10. g = [i \in 1..N |-> IF i = 1 THEN W[i] ELSE g[i - 1] \o W[i]]
  BY <1>8
<1> HIDE DEF g
<1> DEFINE P == {n \in 0..N : n > 0 => g[n] = f[n]}
<1>11. \A n \in 0..N : n \in P
  <2>1. 0 \in P
    BY <1>1
  <2>2. ASSUME NEW n \in 1..N, n - 1 \in P PROVE n \in P
    <3>1. n \in 0..N
      BY <1>1
    <3>2. CASE n = 1
      <4>1. g[n] = W[n] /\ h[n] = W[n] /\ h[n] = f[n]
        BY <1>8, <1>10, <3>2 DEF h
      <4> QED  BY <3>1, <4>1
    <3>3. CASE n # 1
      <4>1. n - 1 > 0 /\ g[n - 1] = f[n - 1]
        BY <1>1, <2>2, <3>3
      <4>2. g[n] = g[n - 1] \o W[n]
        BY <1>10, <3>3
      <4> QED  BY <1>6, <3>1, <4>1, <4>2
    <3> QED  BY <3>2, <3>3
  <2> HIDE DEF P
  <2> QED  BY <1>1, <2>1, <2>2, UpTo
<1>12. g[N] = f[N]
  <2>1. N \in P /\ N > 0
    BY <1>1, <1>11
  <2> QED  BY <2>1
<1> QED  BY <1>6, <1>9, <1>12 DEF Joins

\* The numbers of a set up to T, ranked by how many of them there are up to each.
LEMMA Enumerated ==
  ASSUME NEW T \in Nat, NEW H \in SUBSET (1..T)
  PROVE  /\ IsFiniteSet(H) /\ Cardinality(H) \in Nat
         /\ \A k \in 1..Cardinality(H) : \E i \in H : Cardinality(H \cap (1..i)) = k
         /\ \A i \in H : Cardinality(H \cap (1..i)) \in 1..Cardinality(H)
         /\ \A i, j \in H : Cardinality(H \cap (1..i)) = Cardinality(H \cap (1..j)) => i = j
<1> DEFINE c(i) == Cardinality(H \cap (1..i))
           K == Cardinality(H)
<1>1. IsFiniteSet(1..T) /\ \A n \in Nat : IsFiniteSet(1..n)
  BY FS_Interval
<1>2. IsFiniteSet(H) /\ K \in Nat
  BY <1>1, FS_Subset, FS_CardinalityType
<1>3. \A i \in 0..T : IsFiniteSet(H \cap (1..i)) /\ c(i) \in Nat
  <2> SUFFICES ASSUME NEW i \in 0..T PROVE IsFiniteSet(H \cap (1..i)) /\ c(i) \in Nat
    OBVIOUS
  <2>1. H \cap (1..i) \in SUBSET H
    OBVIOUS
  <2> QED  BY <1>2, <2>1, FS_Subset, FS_CardinalityType
<1>4. c(0) = 0
  <2>1. H \cap (1..0) = {}
    OBVIOUS
  <2> QED  BY <2>1, FS_EmptySet
<1>5. c(T) = K
  <2>1. H \cap (1..T) = H
    OBVIOUS
  <2> QED  BY <2>1
<1>6. ASSUME NEW i \in 1..T PROVE c(i) = IF i \in H THEN c(i - 1) + 1 ELSE c(i - 1)
  <2>1. i - 1 \in 0..T /\ i \in Int
    OBVIOUS
  <2>2. CASE i \in H
    <3>1. H \cap (1..i) = (H \cap (1..(i - 1))) \cup {i} /\ i \notin H \cap (1..(i - 1))
      BY <2>1, <2>2
    <3>2. IsFiniteSet(H \cap (1..(i - 1)))
      BY <1>3, <2>1
    <3> HIDE DEF c
    <3>3. Cardinality((H \cap (1..(i - 1))) \cup {i}) = Cardinality(H \cap (1..(i - 1))) + 1
      BY <3>1, <3>2, FS_AddElement
    <3> QED  BY <2>2, <3>1, <3>3 DEF c
  <2>3. CASE i \notin H
    <3>1. H \cap (1..i) = H \cap (1..(i - 1))
      BY <2>1, <2>3
    <3> QED  BY <2>3, <3>1
  <2> QED  BY <2>2, <2>3
<1> HIDE DEF K
<1>7. ASSUME NEW i \in H, NEW j \in H, i < j PROVE c(i) < c(j)
  <2>1. i \in 1..T /\ j \in 1..T /\ j - 1 \in 0..T /\ i <= j - 1 /\ i \in 0..T
    BY <1>7
  <2>2. H \cap (1..i) \in SUBSET (H \cap (1..(j - 1)))
    BY <2>1
  <2>3. IsFiniteSet(H \cap (1..(j - 1)))
    BY <1>3, <2>1
  <2>4. c(i) <= c(j - 1)
    BY <2>2, <2>3, FS_Subset
  <2>5. c(i) \in Nat /\ c(j - 1) \in Nat
    BY <1>3, <2>1
  <2>6. c(j) = c(j - 1) + 1
    BY <1>6, <2>1
  <2> HIDE DEF c
  <2> QED  BY <2>4, <2>5, <2>6
<1>8. ASSUME NEW i \in H PROVE c(i) \in 1..K
  <2>1. i \in 1..T /\ i - 1 \in 0..T /\ i \in 0..T
    OBVIOUS
  <2>2. c(i) = c(i - 1) + 1 /\ c(i - 1) \in Nat
    BY <1>3, <1>6, <2>1
  <2>3. H \cap (1..i) \in SUBSET H
    OBVIOUS
  <2>4. c(i) <= K
    BY <1>2, <2>3, FS_Subset DEF K
  <2> HIDE DEF c
  <2> QED  BY <1>2, <2>2, <2>4
<1>9. ASSUME NEW k \in 1..K PROVE \E i \in H : c(i) = k
  <2> DEFINE R == {i \in 0..T : c(i) >= k}
  <2>1. T \in R /\ R \in SUBSET Nat
    BY <1>2, <1>5
  <2>2. PICK i \in R : \A j \in R : i <= j
    <3> HIDE DEF R
    <3> QED  BY <2>1, LeastNumber
  <2>3. i \in 0..T /\ c(i) >= k
    OBVIOUS
  <2>4. i # 0
    BY <1>2, <1>4, <2>3
  <2>5. i \in 1..T /\ i - 1 \in 0..T /\ i - 1 < i
    BY <2>3, <2>4
  <2>6. ~(c(i - 1) >= k)
    <3>1. i - 1 \notin R
      <4> HIDE DEF R
      <4> QED  BY <2>2, <2>5
    <3> QED  BY <2>5, <3>1
  <2>7. c(i) = IF i \in H THEN c(i - 1) + 1 ELSE c(i - 1)
    BY <1>6, <2>5
  <2> HIDE DEF c
  <2>8. c(i - 1) \in Nat /\ c(i) \in Nat /\ k \in Nat
    <3>1. \A j \in 0..T : c(j) \in Nat
      BY <1>3 DEF c
    <3> QED  BY <1>2, <2>3, <2>5, <3>1
  <2>9. i \in H /\ c(i) = k
    BY <2>3, <2>6, <2>7, <2>8
  <2> QED  BY <2>9
<1>10. ASSUME NEW i \in H, NEW j \in H, c(i) = c(j) PROVE i = j
  <2> SUFFICES ASSUME i # j PROVE FALSE
    OBVIOUS
  <2>1. i \in Int /\ j \in Int /\ c(i) \in Int /\ c(j) \in Int
    BY <1>2, <1>8
  <2>2. i < j \/ j < i
    BY <2>1
  <2>3. c(i) < c(j) \/ c(j) < c(i)
    BY <1>7, <2>2
  <2> HIDE DEF c
  <2> QED  BY <1>10, <2>1, <2>3
<1> QED  BY <1>2, <1>8, <1>9, <1>10 DEF K

\* Lists one after the other, each of entries of one expert: those of an expert
\* are the slice the code takes, that begins where those of lower experts end.
ByExpert(W, N) == \A n \in 1..N : \A k \in 1..Len(W[n]) : W[n][k].expert = n - 1
IndexesOf(s) == {s[k].index : k \in 1..Len(s)}

LEMMA SlicedByExpert ==
  ASSUME NEW S, NEW N \in Nat \ {0}, NEW W \in [1..N -> Seq(S)], ByExpert(W, N),
         NEW e \in 0..N - 1
  PROVE  SliceOf(FlattenSeq(W), e) = IndexesOf(W[e + 1])
<1>0. PICK g \in [0..N -> Seq(S)] : Joins(g, N, W)
  BY FlattenIs
<1>1. FlattenSeq(W) = g[N] /\ g[0] = <<>> /\ \A n \in 1..N : g[n] = g[n - 1] \o W[n]
  BY <1>0 DEF Joins
<1> DEFINE s(n) == Len(g[n])
           pairs == g[N]
<1>2. /\ \A n \in 0..N : g[n] \in Seq(S) /\ s(n) \in Nat
      /\ \A n \in 1..N : W[n] \in Seq(S) /\ Len(W[n]) \in Nat
  OBVIOUS
<1>3. ASSUME NEW n \in 1..N
      PROVE  /\ s(n) = s(n - 1) + Len(W[n])
             /\ \A k \in 1..s(n - 1) : g[n][k] = g[n - 1][k]
             /\ \A k \in 1..Len(W[n]) : g[n][s(n - 1) + k] = W[n][k]
  <2>1. n - 1 \in 0..N /\ g[n] = g[n - 1] \o W[n] /\ g[n - 1] \in Seq(S) /\ W[n] \in Seq(S)
    <3>1. n - 1 \in 0..N
      OBVIOUS
    <3> QED  BY <1>1, <1>2, <3>1
  <2>2. /\ Len(g[n - 1] \o W[n]) = Len(g[n - 1]) + Len(W[n])
        /\ \A k \in 1..Len(g[n - 1]) + Len(W[n]) :
             (g[n - 1] \o W[n])[k] = IF k <= Len(g[n - 1]) THEN g[n - 1][k] ELSE W[n][k - Len(g[n - 1])]
    BY <2>1, ConcatProperties
  <2>3. s(n - 1) \in Nat /\ Len(W[n]) \in Nat
    BY <1>2, <2>1
  <2>4. ASSUME NEW k \in 1..Len(W[n]) PROVE g[n][s(n - 1) + k] = W[n][k]
    <3>1. s(n - 1) + k \in 1..s(n - 1) + Len(W[n]) /\ ~(s(n - 1) + k <= s(n - 1))
          /\ (s(n - 1) + k) - s(n - 1) = k
      BY <2>3
    <3> QED  BY <2>1, <2>2, <3>1
  <2>5. ASSUME NEW k \in 1..s(n - 1) PROVE g[n][k] = g[n - 1][k]
    <3>1. k \in 1..s(n - 1) + Len(W[n]) /\ k <= s(n - 1)
      BY <2>3
    <3> QED  BY <2>1, <2>2, <3>1
  <2> QED  BY <2>1, <2>2, <2>4, <2>5
<1> DEFINE Q == {n \in 0..N :
                   \A j \in 0..n :
                     /\ s(j) <= s(n)
                     /\ \A k \in 1..s(j) : g[n][k] = g[j][k]
                     /\ \A k \in 1..s(n) : g[n][k].expert \in Int /\ (k <= s(j) <=> g[n][k].expert < j)}
<1>4. 0 \in Q
  <2>1. s(0) = 0 /\ 0 \in 0..N /\ \A j \in 0..0 : j = 0
    BY <1>1
  <2> HIDE DEF s
  <2> QED  BY <2>1
<1> HIDE DEF s
<1>5. ASSUME NEW n \in 1..N, n - 1 \in Q PROVE n \in Q
  <2> DEFINE i == n - 1
             x == s(i)
             y == s(n)
             w == Len(W[n])
  <2>1. n \in 0..N /\ i \in 0..N /\ i \in 0..i /\ i \in Int /\ n = i + 1 /\ \A j \in 0..n : j # n => j \in 0..i
    OBVIOUS
  <2>2. x \in Nat /\ y \in Nat /\ w \in Nat /\ y = x + w
    BY <1>2, <1>3, <2>1
  <2>3. \A j \in 0..i : /\ s(j) <= x
                        /\ \A k \in 1..s(j) : g[i][k] = g[j][k]
                        /\ \A k \in 1..x : g[i][k].expert \in Int /\ (k <= s(j) <=> g[i][k].expert < j)
    BY <1>5
  <2>4. \A k \in 1..x : g[n][k] = g[i][k]
    BY <1>3
  <2>5. \A k \in 1..w : g[n][x + k] = W[n][k] /\ W[n][k].expert = i
    BY <1>3 DEF ByExpert
  <2> HIDE DEF i, x, y, w
  <2> SUFFICES ASSUME NEW j \in 0..n
               PROVE  /\ s(j) <= y
                      /\ \A k \in 1..s(j) : g[n][k] = g[j][k]
                      /\ \A k \in 1..y : g[n][k].expert \in Int /\ (k <= s(j) <=> g[n][k].expert < j)
    BY <2>1 DEF y
  <2> DEFINE r == s(j)
  <2>6. r \in Nat /\ j \in Int
    <3>1. j \in 0..N
      BY <2>1
    <3> QED  BY <1>2, <3>1 DEF s
  <2>7. CASE j = n
    <3>1. r = y
      BY <2>7 DEF y
    <3>2. ASSUME NEW k \in 1..y PROVE g[n][k].expert \in Int /\ g[n][k].expert < j
      <4>1. CASE k <= x
        <5>1. k \in 1..x
          BY <2>2, <4>1
        <5>2. g[n][k] = g[i][k] /\ g[i][k].expert \in Int /\ (k <= s(i) <=> g[i][k].expert < i)
          BY <2>1, <2>3, <2>4, <5>1
        <5>3. g[n][k].expert \in Int /\ g[n][k].expert < i
          BY <4>1, <5>2 DEF x
        <5> QED  BY <2>1, <2>7, <5>3
      <4>2. CASE ~(k <= x)
        <5> DEFINE d == k - x
        <5>1. d \in 1..w /\ x + d = k
          BY <2>2, <4>2
        <5> HIDE DEF d
        <5>2. g[n][k].expert = i
          BY <2>5, <5>1
        <5> QED  BY <2>1, <2>7, <5>2
      <4> QED  BY <4>1, <4>2
    <3>3. \A k \in 1..y : k <= r
      BY <2>2, <3>1
    <3> QED  BY <2>2, <2>7, <3>1, <3>2, <3>3
  <2>8. CASE j # n
    <3>1. /\ r <= x
          /\ \A k \in 1..r : g[i][k] = g[j][k]
          /\ \A k \in 1..x : g[i][k].expert \in Int /\ (k <= r <=> g[i][k].expert < j)
      BY <2>1, <2>3, <2>8
    <3> HIDE DEF r
    <3>2. r <= y /\ \A k \in 1..r : k \in 1..x
      BY <2>2, <2>6, <3>1
    <3>3. ASSUME NEW k \in 1..y PROVE g[n][k].expert \in Int /\ (k <= r <=> g[n][k].expert < j)
      <4>1. CASE k <= x
        <5>1. k \in 1..x
          BY <2>2, <4>1
        <5> QED  BY <2>4, <3>1, <5>1
      <4>2. CASE ~(k <= x)
        <5> DEFINE d == k - x
        <5>1. d \in 1..w /\ x + d = k
          BY <2>2, <4>2
        <5> HIDE DEF d
        <5>2. g[n][k].expert = i
          BY <2>5, <5>1
        <5>3. ~(i < j) /\ ~(k <= r)
          BY <2>1, <2>2, <2>6, <2>8, <3>1, <4>2
        <5> QED  BY <2>1, <5>2, <5>3
      <4> QED  BY <4>1, <4>2
    <3> QED  BY <2>4, <3>1, <3>2, <3>3 DEF r
  <2> QED  BY <2>7, <2>8
<1>6. N \in Q
  <2>1. \A n \in 0..N : n \in Q
    <3> HIDE DEF Q
    <3>1. \A n \in 1..N : n - 1 \in Q => n \in Q
      BY <1>5
    <3> QED  BY <1>4, <3>1, UpTo
  <2>2. N \in 0..N
    OBVIOUS
  <2> HIDE DEF Q
  <2> QED  BY <2>1, <2>2
<1> DEFINE c == e + 1
           a == s(e)
           b == s(c)
           M == s(N)
           last == W[c]
           w == Len(last)
<1>7. e \in 0..N /\ c \in 0..N /\ c \in 1..N /\ c - 1 = e /\ e \in Int /\ c = e + 1
  OBVIOUS
<1>8. a \in Nat /\ b \in Nat /\ M \in Nat /\ w \in Nat /\ b = a + w
  <2>1. N \in 0..N
    OBVIOUS
  <2>2. \A n \in 0..N : s(n) \in Nat
    BY <1>2 DEF s
  <2> HIDE DEF c
  <2>3. s(c) = s(c - 1) + Len(W[c])
    BY <1>3, <1>7
  <2> QED  BY <1>2, <1>7, <2>1, <2>2, <2>3
<1>9. \A j \in 0..N : /\ s(j) <= M
                      /\ \A k \in 1..s(j) : pairs[k] = g[j][k]
                      /\ \A k \in 1..M : pairs[k].expert \in Int /\ (k <= s(j) <=> pairs[k].expert < j)
  BY <1>6
<1>10. DOMAIN pairs = 1..M
  <2>1. N \in 0..N
    OBVIOUS
  <2> QED  BY <1>2, <2>1 DEF s
<1>11. \A k \in 1..w : g[c][a + k] = last[k]
  <2> HIDE DEF c
  <2> QED  BY <1>3, <1>7
<1> HIDE DEF Q, M, pairs, c
<1>12. /\ a <= M /\ b <= M
       /\ \A k \in 1..b : pairs[k] = g[c][k]
       /\ \A k \in 1..M : pairs[k].expert \in Int /\ (k <= a <=> pairs[k].expert < e) /\ (k <= b <=> pairs[k].expert < c)
  BY <1>7, <1>9
<1> HIDE DEF a, b, last, w
<1>13. \A k \in 1..M : pairs[k].expert = e <=> (~(k <= a) /\ k <= b)
  <2> SUFFICES ASSUME NEW k \in 1..M PROVE pairs[k].expert = e <=> (~(k <= a) /\ k <= b)
    OBVIOUS
  <2> DEFINE x == pairs[k].expert
  <2>1. x \in Int /\ (k <= a <=> x < e) /\ (k <= b <=> x < c)
    BY <1>12
  <2> HIDE DEF x
  <2>2. x = e <=> ~(k <= a) /\ k <= b
    BY <1>7, <2>1
  <2> QED  BY <2>2 DEF x
<1>14. {k \in DOMAIN pairs : pairs[k].expert < e} = 1..a
  <2>1. \A k \in 1..a : k \in 1..M /\ k <= a
    BY <1>8, <1>12
  <2> QED  BY <1>8, <1>10, <1>12, <2>1
<1>15. {k \in DOMAIN pairs : pairs[k].expert = e} = a + 1..b
  <2>1. \A k : k \in a + 1..b <=> k \in 1..M /\ ~(k <= a) /\ k <= b
    BY <1>8, <1>12
  <2> QED  BY <1>10, <1>13, <2>1
<1>16. Cardinality(1..a) = a /\ Cardinality(a + 1..b) = b - a
  <2>1. a + 1 \in Int /\ b \in Int /\ 1 \in Int /\ a \in Int
    BY <1>8
  <2>2. Cardinality(a + 1..b) = IF a + 1 > b THEN 0 ELSE b - (a + 1) + 1
    BY <2>1, FS_Interval
  <2>3. Cardinality(1..a) = IF 1 > a THEN 0 ELSE a - 1 + 1
    BY <2>1, FS_Interval
  <2> QED  BY <1>8, <2>2, <2>3
<1>17. SliceOf(pairs, e) = {pairs[k].index : k \in a + 1..b}
  <2>1. Count(pairs, e) = b - a
    BY <1>15, <1>16 DEF Count
  <2>2. a + (b - a) = b
    BY <1>8
  <2> QED  BY <1>14, <1>16, <2>1, <2>2 DEF SliceOf
<1>18. \A k \in 1..w : a + k \in a + 1..b /\ pairs[a + k] = last[k]
  <2> SUFFICES ASSUME NEW k \in 1..w PROVE a + k \in a + 1..b /\ pairs[a + k] = last[k]
    OBVIOUS
  <2>1. a + k \in a + 1..b /\ a + k \in 1..b
    BY <1>8
  <2> QED  BY <1>11, <1>12, <2>1
<1>19. \A k \in a + 1..b : k - a \in 1..w /\ a + (k - a) = k
  BY <1>8
<1>20. {pairs[k].index : k \in a + 1..b} = {last[k].index : k \in 1..w}
  <2>1. \A k \in a + 1..b : \E d \in 1..w : pairs[k].index = last[d].index
    BY <1>18, <1>19
  <2>2. \A d \in 1..w : \E k \in a + 1..b : last[d].index = pairs[k].index
    BY <1>8, <1>18
  <2> DEFINE L == {pairs[k].index : k \in a + 1..b}
             R == {last[k].index : k \in 1..w}
  <2>3. ASSUME NEW v \in L PROVE v \in R
    <3>1. PICK k \in a + 1..b : v = pairs[k].index
      OBVIOUS
    <3>2. PICK d \in 1..w : pairs[k].index = last[d].index
      BY <2>1
    <3> QED  BY <3>1, <3>2
  <2>4. ASSUME NEW v \in R PROVE v \in L
    <3>1. PICK d \in 1..w : v = last[d].index
      OBVIOUS
    <3>2. PICK k \in a + 1..b : last[d].index = pairs[k].index
      BY <2>2
    <3> QED  BY <3>1, <3>2
  <2> HIDE DEF L, R
  <2>5. L = R
    BY <2>3, <2>4
  <2> QED  BY <2>5 DEF L, R
<1> QED  BY <1>1, <1>17, <1>20 DEF pairs, last, w, c, IndexesOf

\* The positions an expert is chosen for, and the k-th of them as _pairs finds it.
Hits(m, tokens, e) == {i \in DOMAIN tokens : e \in Chosen(m, tokens[i])}
HitAt(m, tokens, e, k) ==
  CHOOSE i \in DOMAIN tokens :
    /\ e \in Chosen(m, tokens[i])
    /\ k = Cardinality({j \in 1..i : e \in Chosen(m, tokens[j])})
HitsFound(m, tokens, e) ==
  {HitAt(m, tokens, e, k) : k \in 1..Cardinality(Hits(m, tokens, e))}
Lists(m, tokens) ==
  [n \in 1..m.num_experts |->
    [k \in 1..Cardinality(Hits(m, tokens, n - 1)) |->
       [expert |-> n - 1, index |-> HitAt(m, tokens, n - 1, k)]]]

LEMMA HitsEnumerated ==
  ASSUME NEW m, NEW T \in Nat, NEW tokens, DOMAIN tokens = 1..T, NEW e
  PROVE  /\ Hits(m, tokens, e) \in SUBSET (1..T) /\ IsFiniteSet(Hits(m, tokens, e))
         /\ Cardinality(Hits(m, tokens, e)) \in Nat
         /\ HitsFound(m, tokens, e) = Hits(m, tokens, e)
<1> DEFINE H == Hits(m, tokens, e)
           c(i) == Cardinality(H \cap (1..i))
           K == Cardinality(H)
           pick(k) == HitAt(m, tokens, e, k)
<1>1. H \in SUBSET (1..T) /\ \A i \in 1..T : i \in H <=> e \in Chosen(m, tokens[i])
  BY DEF Hits
<1>2. \A i \in 1..T : {j \in 1..i : e \in Chosen(m, tokens[j])} = H \cap (1..i)
  <2> SUFFICES ASSUME NEW i \in 1..T PROVE {j \in 1..i : e \in Chosen(m, tokens[j])} = H \cap (1..i)
    OBVIOUS
  <2>1. \A j \in 1..i : j \in 1..T
    OBVIOUS
  <2> HIDE DEF H
  <2> QED  BY <1>1, <2>1
<1> HIDE DEF H
<1>3. /\ IsFiniteSet(H) /\ K \in Nat
      /\ \A k \in 1..K : \E i \in H : c(i) = k
      /\ \A i \in H : c(i) \in 1..K
      /\ \A i, j \in H : c(i) = c(j) => i = j
  BY <1>1, Enumerated
<1>4. ASSUME NEW k \in 1..K PROVE pick(k) \in H /\ k = c(pick(k))
  <2>1. \E i \in 1..T : e \in Chosen(m, tokens[i]) /\ k = Cardinality({j \in 1..i : e \in Chosen(m, tokens[j])})
    <3>1. PICK i \in H : c(i) = k
      BY <1>3
    <3>2. i \in 1..T /\ e \in Chosen(m, tokens[i])
      BY <1>1, <3>1
    <3>3. k = Cardinality({j \in 1..i : e \in Chosen(m, tokens[j])})
      BY <1>2, <3>1, <3>2
    <3> QED  BY <3>2, <3>3
  <2>2. /\ pick(k) \in 1..T /\ e \in Chosen(m, tokens[pick(k)])
        /\ k = Cardinality({j \in 1..pick(k) : e \in Chosen(m, tokens[j])})
    BY <2>1 DEF HitAt
  <2> HIDE DEF pick
  <2> QED  BY <1>1, <1>2, <2>2
<1>5. ASSUME NEW i \in H PROVE i = pick(c(i)) /\ c(i) \in 1..K
  <2>1. c(i) \in 1..K
    BY <1>3
  <2>2. pick(c(i)) \in H /\ c(i) = c(pick(c(i)))
    BY <1>4, <2>1
  <2> HIDE DEF pick
  <2> QED  BY <1>3, <2>1, <2>2
<1> HIDE DEF pick, c, K
<1>6. {pick(k) : k \in 1..K} = H
  <2>1. \A k \in 1..K : pick(k) \in H
    BY <1>4
  <2>2. \A i \in H : \E k \in 1..K : i = pick(k)
    BY <1>5
  <2> QED  BY <2>1, <2>2
<1> QED  BY <1>1, <1>3, <1>6 DEF H, K, pick, HitsFound

\* The slice of an expert is the positions it is chosen for.
LEMMA SliceIs ==
  ASSUME NEW m, m.num_experts \in Nat \ {0},
         NEW T \in Nat, NEW tokens, DOMAIN tokens = 1..T, NEW e \in Experts(m)
  PROVE  SliceOf(Pairs(m, tokens), e) = Hits(m, tokens, e)
<1> DEFINE N == m.num_experts
           W == Lists(m, tokens)
           S == [expert : Int, index : 1..T]
           K(n) == Cardinality(Hits(m, tokens, n - 1))
<1>1. Pairs(m, tokens) = FlattenSeq(W)
  BY DEF Pairs, Lists, Hits, HitAt
<1>2. ASSUME NEW n \in 1..N
      PROVE  /\ W[n] \in Seq(S) /\ Len(W[n]) = K(n)
             /\ \A k \in 1..K(n) : W[n][k].expert = n - 1 /\ W[n][k].index = HitAt(m, tokens, n - 1, k)
  <2>1. W[n] = [k \in 1..K(n) |-> [expert |-> n - 1, index |-> HitAt(m, tokens, n - 1, k)]]
    BY DEF Lists
  <2>2. K(n) \in Nat /\ \A k \in 1..K(n) : HitAt(m, tokens, n - 1, k) \in 1..T
    <3>1. /\ K(n) \in Nat /\ Hits(m, tokens, n - 1) \in SUBSET (1..T)
          /\ HitsFound(m, tokens, n - 1) = Hits(m, tokens, n - 1)
      BY HitsEnumerated
    <3>2. ASSUME NEW k \in 1..K(n) PROVE HitAt(m, tokens, n - 1, k) \in HitsFound(m, tokens, n - 1)
      BY DEF HitsFound
    <3> QED  BY <3>1, <3>2
  <2>3. n - 1 \in Int
    OBVIOUS
  <2> HIDE DEF K, W
  <2>4. \A k \in 1..K(n) : [expert |-> n - 1, index |-> HitAt(m, tokens, n - 1, k)] \in S
    BY <2>2, <2>3
  <2> HIDE DEF S
  <2>5. W[n] \in [1..K(n) -> S]
    BY <2>1, <2>4
  <2>6. W[n] \in Seq(S) /\ Len(W[n]) = K(n)
    BY <2>2, <2>5, LenProperties
  <2>7. \A k \in 1..K(n) : W[n][k].expert = n - 1 /\ W[n][k].index = HitAt(m, tokens, n - 1, k)
    BY <2>1
  <2> QED  BY <2>6, <2>7
<1>3. W \in [1..N -> Seq(S)]
  <2>1. W = [n \in 1..N |-> W[n]]
    BY DEF Lists
  <2> HIDE DEF W, S
  <2> QED  BY <1>2, <2>1
<1>4. e \in 0..N - 1 /\ e + 1 \in 1..N /\ (e + 1) - 1 = e
  BY DEF Experts
<1>a. N \in Nat \ {0}
  OBVIOUS
<1> HIDE DEF W, S, N
<1>5. ByExpert(W, N)
  BY <1>2 DEF ByExpert
<1>6. SliceOf(FlattenSeq(W), e) = IndexesOf(W[e + 1])
  <2>1. e \in 0..N - 1
    BY <1>4
  <2> HIDE DEF K
  <2> QED  BY <1>3, <1>a, <2>1, <1>5, SlicedByExpert
<1>7. Len(W[e + 1]) = K(e + 1) /\ K(e + 1) = Cardinality(Hits(m, tokens, e))
  BY <1>2, <1>4
<1>8. \A k \in 1..K(e + 1) : W[e + 1][k].index = HitAt(m, tokens, e, k)
  BY <1>2, <1>4
<1>9. HitsFound(m, tokens, e) = Hits(m, tokens, e)
  BY HitsEnumerated
<1>10. IndexesOf(W[e + 1]) = HitsFound(m, tokens, e)
  BY <1>7, <1>8 DEF IndexesOf, HitsFound
<1> QED  BY <1>1, <1>6, <1>9, <1>10

-----------------------------------------------------------------------------
(* Dispatch: each expert once, on the rank that has it.                      *)

\* Equal blocks of numbers: a number is in one of them.
LEMMA OneBlock ==
  ASSUME NEW n \in Nat \ {0}, NEW a \in Nat \ {0}, NEW e \in 0..n * a - 1
  PROVE  \E q \in 0..a - 1 : \A r \in 0..a - 1 : e \in r * n .. (r + 1) * n - 1 <=> r = q
<1> DEFINE q == e \div n
           o == e % n
<1>1. e \in Int /\ n * a \in Int /\ e >= 0 /\ e < n * a
  OBVIOUS
<1>2. q \in Int /\ o \in 0..n - 1 /\ n * q + o = e
  BY <1>1
<1> HIDE DEF q, o
<1>3. ASSUME NEW k \in Int, k >= 1 PROVE n * k >= n /\ n * k \in Int
  BY <1>3
<1>4. ASSUME NEW r \in Int
      PROVE  /\ n * (q - r) = n * q - n * r /\ n * (r - q) = n * r - n * q
             /\ r * n = n * r /\ (r + 1) * n = n * r + n /\ n * r \in Int /\ n * q \in Int
  BY <1>2
<1>5. ASSUME NEW r \in Int PROVE e \in r * n .. (r + 1) * n - 1 <=> r = q
  <2>1. CASE r = q
    BY <1>1, <1>2, <1>4, <2>1
  <2>2. CASE q - r >= 1
    <3>1. n * q - n * r >= n
      BY <1>2, <1>3, <1>4, <2>2
    <3> QED  BY <1>1, <1>2, <1>4, <2>2, <3>1
  <2>3. CASE r - q >= 1
    <3>1. n * r - n * q >= n
      BY <1>2, <1>3, <1>4, <2>3
    <3> QED  BY <1>1, <1>2, <1>4, <2>3, <3>1
  <2> QED  BY <1>2, <2>1, <2>2, <2>3
<1>6. ~(q < 0)
  <2> SUFFICES ASSUME 0 - q >= 1 PROVE FALSE
    BY <1>2
  <2>1. n * (0 - q) >= n /\ n * (0 - q) = n * 0 - n * q /\ n * 0 = 0
    BY <1>2, <1>3, <1>4
  <2> QED  BY <1>1, <1>2, <1>4, <2>1
<1>7. ~(q >= a)
  <2> SUFFICES ASSUME q >= a PROVE FALSE
    OBVIOUS
  <2>1. n * (q - a) = n * q - n * a
    BY <1>4
  <2>2. q - a >= 1 \/ q = a
    BY <1>2
  <2>3. CASE q = a
    BY <1>1, <1>2, <1>4, <2>3
  <2>4. CASE q - a >= 1
    BY <1>1, <1>2, <1>3, <1>4, <2>1, <2>4
  <2> QED  BY <2>2, <2>3, <2>4
<1>8. q \in 0..a - 1
  BY <1>2, <1>6, <1>7
<1>9. \A r \in 0..a - 1 : e \in r * n .. (r + 1) * n - 1 <=> r = q
  <2> SUFFICES ASSUME NEW r \in 0..a - 1 PROVE e \in r * n .. (r + 1) * n - 1 <=> r = q
    OBVIOUS
  <2>1. r \in Int
    OBVIOUS
  <2> QED  BY <1>5, <2>1
<1> QED  BY <1>8, <1>9, Zenon

\* A number that n divides is so many times n.
LEMMA PartsOf ==
  ASSUME NEW n \in Nat \ {0}, NEW m \in Nat \ {0}, m % n = 0
  PROVE  m \div n \in Nat \ {0} /\ m = (m \div n) * n
<1> DEFINE q == m \div n
<1>1. q \in Int /\ n * q = m
  OBVIOUS
<1> HIDE DEF q
<1>2. q * n = m
  BY <1>1
<1>3. ~(q <= 0)
  <2> SUFFICES ASSUME q <= 0 PROVE FALSE
    BY <1>1
  <2>1. n * q <= 0
    BY <1>1
  <2> QED  BY <1>1, <2>1
<1> QED  BY <1>1, <1>2, <1>3 DEF q

\* On a group of ranks, one of them owns an expert.
GroupOf(ranks) == [data |-> ranks, tensor |-> 1, pipeline |-> 1, sequence |-> 1, expert |-> ranks]
OwnersOf(m, ranks, e) == {r \in Ranks(GroupOf(ranks)) : e \in ExpertsOf(GroupOf(ranks), Shape(m), r)}

LEMMA OneOwner ==
  ASSUME NEW m, m.num_experts \in Nat \ {0}, NEW ranks \in Nat \ {0},
         Divides(ranks, m.num_experts), NEW e \in Experts(m)
  PROVE  Cardinality(OwnersOf(m, ranks, e)) = 1
<1> DEFINE N == m.num_experts
           per == N \div ranks
           g == GroupOf(ranks)
<1>1. per \in Nat \ {0} /\ N = per * ranks /\ N \in Nat \ {0}
  BY PartsOf DEF Divides
<1>2. Ranks(g) = 0..ranks - 1
  <2>1. g.data = ranks /\ g.tensor = 1 /\ g.pipeline = 1 /\ ranks * 1 = ranks
    BY DEF GroupOf
  <2> QED  BY <2>1 DEF Ranks, WorldSize
<1>3. ASSUME NEW r \in 0..ranks - 1
      PROVE  ExpertsOf(g, Shape(m), r) = r * per .. (r + 1) * per - 1
  <2>1. g.data = ranks /\ g.tensor = 1 /\ g.pipeline = 1 /\ g.expert = ranks
    BY DEF GroupOf
  <2>2. Shape(m).experts = N
    BY DEF Shape
  <2>3. DataRank(g, r) = r
    <3>1. r \div 1 = r
      OBVIOUS
    <3> QED  BY <2>1, <3>1 DEF DataRank
  <2>4. r % ranks = r
    <3> DEFINE x == r % ranks
               y == r \div ranks
    <3>1. x \in 0..ranks - 1 /\ y \in Int /\ ranks * y + x = r
      OBVIOUS
    <3> HIDE DEF x, y
    <3>2. y >= 1 => ranks * y >= ranks
      BY <3>1
    <3>3. y <= -1 => ranks * y <= -ranks
      BY <3>1
    <3>4. ranks * y \in Int
      BY <3>1
    <3>5. y = 0
      BY <3>1, <3>2, <3>3, <3>4
    <3>6. ranks * 0 = 0
      OBVIOUS
    <3> QED  BY <3>1, <3>5, <3>6 DEF x
  <2> HIDE DEF g
  <2> QED  BY <2>1, <2>2, <2>3, <2>4 DEF ExpertsOf, ExpertRank
<1>4. e \in 0..N - 1
  BY DEF Experts
<1> HIDE DEF N, per, g
<1>5. PICK q \in 0..ranks - 1 : \A r \in 0..ranks - 1 : e \in r * per .. (r + 1) * per - 1 <=> r = q
  <2>1. e \in 0..per * ranks - 1
    BY <1>1, <1>4
  <2> QED  BY <1>1, <2>1, OneBlock
<1>6. {r \in Ranks(g) : e \in ExpertsOf(g, Shape(m), r)} = {q}
  <2>1. \A r \in 0..ranks - 1 : e \in ExpertsOf(g, Shape(m), r) <=> r = q
    BY <1>3, <1>5
  <2> QED  BY <1>2, <2>1
<1> QED  BY <1>6, FS_Singleton DEF OwnersOf, g

\* Nothing is limited, or at least one token is kept.
LEMMA CapacityTyped ==
  ASSUME NEW m, ModelFits(m), NEW n \in Nat
  PROVE  Capacity(m, n) \in Nat
<1>1. /\ m.num_experts \in Nat \ {0} /\ m.num_experts_per_token \in Nat
      /\ m.expert_capacity_factor \in Nat
  BY DEF ModelFits, ExpertsFit
<1> DEFINE d == 100 * m.num_experts
           t == n * m.num_experts_per_token * m.expert_capacity_factor + 100 * m.num_experts - 1
           x == t \div d
<1>2. d \in Nat \ {0} /\ t \in Int
  BY <1>1
<1>3. x \in Int
  <2> HIDE DEF d, t
  <2> QED  BY <1>2
<1> HIDE DEF x
<1>4. Max({1, x}) \in Nat
  <2>1. Max({1, x}) \in {1, x} /\ Max({1, x}) >= 1
    BY <1>3, MaxOfTwo
  <2> QED  BY <1>3, <2>1
<1>5. Capacity(m, n) = IF m.expert_capacity_factor = 0 THEN 0 ELSE Max({1, x})
  BY DEF Capacity, x
<1> QED  BY <1>4, <1>5

\* How often an expert is added for a token: once where it is chosen, unless it
\* is filled to its capacity.
RunsRight(m, tokens, runs) ==
  \A i \in DOMAIN tokens, e \in Experts(m) :
    IF e \notin Chosen(m, tokens[i]) THEN runs[i][e] = 0
    ELSE \/ runs[i][e] = 1
         \/ /\ runs[i][e] = 0 /\ Capacity(m, Len(tokens)) > 0
            /\ Cardinality({j \in DOMAIN tokens : runs[j][e] > 0}) = Capacity(m, Len(tokens))

\* What is kept for each expert, and what a group adds up from it.
KeptChoices(m, tokens) ==
  UNION {{[expert |-> e, kept |-> kept] :
            kept \in Keeps(m, tokens, SliceOf(Pairs(m, tokens), e), e)} : e \in Experts(m)}
AddedBy(m, tokens, ranks, choice) ==
  [i \in DOMAIN tokens |-> [e \in Experts(m) |->
     Cardinality({r \in OwnersOf(m, ranks, e) : \E c \in choice : c.expert = e /\ i \in c.kept})]]

LEMMA DispatchedIs ==
  ASSUME NEW m, NEW tokens, NEW ranks, NEW runs \in Dispatched(m, tokens, ranks)
  PROVE  \/ runs = [i \in DOMAIN tokens |-> Times(m, Chosen(m, tokens[i]))]
         \/ \E choice \in kSubset(m.num_experts, KeptChoices(m, tokens)) :
              /\ {c.expert : c \in choice} = Experts(m)
              /\ runs = AddedBy(m, tokens, ranks, choice)
<1> DEFINE direct == \/ m.num_experts = 1
                     \/ m.kernel = "reference" /\ m.expert_capacity_factor = 0 /\ ranks = 1
<1>1. CASE direct
  BY <1>1 DEF Dispatched
<1>2. CASE ~direct
  <2>1. Dispatched(m, tokens, ranks) =
          {AddedBy(m, tokens, ranks, choice) :
             choice \in {choice \in kSubset(m.num_experts, KeptChoices(m, tokens)) :
                           {c.expert : c \in choice} = Experts(m)}}
    BY <1>2 DEF Dispatched, AddedBy, KeptChoices, OwnersOf, GroupOf
  <2> QED  BY <2>1
<1> QED  BY <1>1, <1>2

\* What an expert keeps is all of its slice, or as many as its capacity.
LEMMA KeptIs ==
  ASSUME NEW m, NEW tokens, NEW slice, NEW e, NEW kept \in Keeps(m, tokens, slice, e)
  PROVE  /\ kept \subseteq slice
         /\ kept # slice => /\ Capacity(m, Len(tokens)) # 0
                            /\ Cardinality(kept) = Capacity(m, Len(tokens))
<1> DEFINE most == Capacity(m, Len(tokens))
<1>1. CASE most = 0 \/ Cardinality(slice) <= most
  BY <1>1 DEF Keeps
<1>2. CASE ~(most = 0 \/ Cardinality(slice) <= most)
  <2>1. kept \in kSubset(most, slice)
    BY <1>2 DEF Keeps
  <2> QED  BY <1>2, <2>1 DEF kSubset
<1> QED  BY <1>1, <1>2

\* One entry for each of N experts: each has one.
LEMMA OneEntryEach ==
  ASSUME NEW N \in Nat \ {0}, NEW T \in Nat,
         NEW choice \in SUBSET [expert : 0..N - 1, kept : SUBSET (1..T)],
         Cardinality(choice) = N, {c.expert : c \in choice} = 0..N - 1
  PROVE  \A c, d \in choice : c.expert = d.expert => c = d
<1> DEFINE E == 0..N - 1
           K == SUBSET (1..T)
           R == [expert : E, kept : K]
           f == [p \in E \X K |-> [expert |-> p[1], kept |-> p[2]]]
           g == [c \in choice |-> c.expert]
<1>1. IsFiniteSet(E) /\ Cardinality(E) = N
  <2>1. Cardinality(E) = IF 0 > N - 1 THEN 0 ELSE (N - 1) - 0 + 1
    BY FS_Interval
  <2> QED  BY <2>1, FS_Interval
<1>2. IsFiniteSet(K)
  <2>1. IsFiniteSet(1..T)
    BY FS_Interval
  <2> QED  BY <2>1, FS_SUBSET
<1> HIDE DEF E, K
<1>3. IsFiniteSet(E \X K)
  BY <1>1, <1>2, FS_Product
<1>4. f \in Surjection(E \X K, R)
  <2>1. f \in [E \X K -> R]
    OBVIOUS
  <2>2. ASSUME NEW c \in R PROVE \E p \in E \X K : f[p] = c
    <3>1. <<c.expert, c.kept>> \in E \X K /\ f[<<c.expert, c.kept>>] = c
      OBVIOUS
    <3> QED  BY <3>1
  <2> HIDE DEF f, R
  <2> QED  BY <2>1, <2>2 DEF Surjection
<1>5. IsFiniteSet(R)
  <2> HIDE DEF f, R
  <2> QED  BY <1>3, <1>4, FS_Surjection
<1>6. IsFiniteSet(choice)
  <2>1. choice \in SUBSET R
    BY DEF E, K
  <2> HIDE DEF R
  <2> QED  BY <1>5, <2>1, FS_Subset
<1>7. {c.expert : c \in choice} = E
  BY DEF E
<1>8. g \in Surjection(choice, E)
  <2>1. g \in [choice -> E]
    BY <1>7
  <2>2. \A x \in E : \E c \in choice : g[c] = x
    BY <1>7
  <2> HIDE DEF g
  <2> QED  BY <2>1, <2>2 DEF Surjection
<1>9. g \in Injection(choice, E)
  <2> HIDE DEF g
  <2> QED  BY <1>1, <1>6, <1>8, FS_SurjSameCardinalityImpliesInj
<1>10. \A c, d \in choice : g[c] = g[d] => c = d
  <2> HIDE DEF g
  <2> QED  BY <1>9 DEF Injection, IsInjective
<1> QED  BY <1>10

\* Each token goes through each of its experts once, on whatever rank that is.
LEMMA RunsOnce ==
  ASSUME NEW m, ModelFits(m), NEW S, NEW tokens \in Seq(S),
         NEW ranks \in Nat \ {0}, Divides(ranks, m.num_experts),
         NEW runs \in Dispatched(m, tokens, ranks)
  PROVE  RunsRight(m, tokens, runs)
<1> DEFINE N == m.num_experts
           T == Len(tokens)
           most == Capacity(m, T)
<1>1. N \in Nat \ {0} /\ T \in Nat /\ DOMAIN tokens = 1..T /\ most \in Nat /\ Experts(m) = 0..N - 1
  <2>1. T \in Nat /\ DOMAIN tokens = 1..T
    OBVIOUS
  <2> HIDE DEF T
  <2> QED  BY <2>1, CapacityTyped DEF ModelFits, Experts
<1>2. CASE runs = [i \in DOMAIN tokens |-> Times(m, Chosen(m, tokens[i]))]
  <2> SUFFICES ASSUME NEW i \in DOMAIN tokens, NEW e \in Experts(m)
               PROVE  IF e \notin Chosen(m, tokens[i]) THEN runs[i][e] = 0 ELSE runs[i][e] = 1
    BY DEF RunsRight
  <2>1. runs[i] = Times(m, Chosen(m, tokens[i]))
    BY <1>2
  <2> QED  BY <2>1 DEF Times
<1>3. ASSUME NEW choice \in kSubset(N, KeptChoices(m, tokens)),
             {c.expert : c \in choice} = Experts(m), runs = AddedBy(m, tokens, ranks, choice)
      PROVE  RunsRight(m, tokens, runs)
  <2>1. \A e \in Experts(m) : SliceOf(Pairs(m, tokens), e) = Hits(m, tokens, e)
    BY <1>1, SliceIs
  <2>2. ASSUME NEW c \in choice
        PROVE  /\ c = [expert |-> c.expert, kept |-> c.kept] /\ c.expert \in Experts(m)
               /\ c.kept \subseteq Hits(m, tokens, c.expert)
               /\ c.kept # Hits(m, tokens, c.expert) => most # 0 /\ Cardinality(c.kept) = most
    <3>1. c \in KeptChoices(m, tokens)
      BY DEF kSubset
    <3>2. PICK e \in Experts(m) :
            c \in {[expert |-> e, kept |-> kept] :
                     kept \in Keeps(m, tokens, SliceOf(Pairs(m, tokens), e), e)}
      BY <3>1 DEF KeptChoices
    <3>3. PICK kept \in Keeps(m, tokens, SliceOf(Pairs(m, tokens), e), e) :
            c = [expert |-> e, kept |-> kept]
      BY <3>2
    <3>4. /\ kept \subseteq Hits(m, tokens, e)
          /\ kept # Hits(m, tokens, e) => most # 0 /\ Cardinality(kept) = most
      BY <2>1, KeptIs
    <3> QED  BY <3>3, <3>4
  <2>3. ASSUME NEW e PROVE Hits(m, tokens, e) \subseteq 1..T
    BY <1>1 DEF Hits
  <2> HIDE DEF N, T, most
  <2>4. choice \in SUBSET [expert : 0..N - 1, kept : SUBSET (1..T)]
    <3> SUFFICES ASSUME NEW c \in choice PROVE c \in [expert : 0..N - 1, kept : SUBSET (1..T)]
      OBVIOUS
    <3>1. c.expert \in 0..N - 1 /\ c.kept \in SUBSET (1..T)
      BY <1>1, <2>2, <2>3
    <3>2. c = [expert |-> c.expert, kept |-> c.kept]
      BY <2>2
    <3> QED  BY <3>1, <3>2
  <2>5. \A c, d \in choice : c.expert = d.expert => c = d
    <3>1. Cardinality(choice) = N /\ {c.expert : c \in choice} = 0..N - 1
      BY <1>1, <1>3 DEF kSubset
    <3> QED  BY <1>1, <2>4, <3>1, OneEntryEach
  <2>6. ASSUME NEW i \in DOMAIN tokens, NEW e \in Experts(m)
        PROVE  runs[i][e] = IF \E c \in choice : c.expert = e /\ i \in c.kept THEN 1 ELSE 0
    <3>1. runs[i][e] = Cardinality({r \in OwnersOf(m, ranks, e) :
                                      \E c \in choice : c.expert = e /\ i \in c.kept})
      BY <1>3 DEF AddedBy
    <3>2. CASE \E c \in choice : c.expert = e /\ i \in c.kept
      <4>1. {r \in OwnersOf(m, ranks, e) : \E c \in choice : c.expert = e /\ i \in c.kept}
              = OwnersOf(m, ranks, e)
        BY <3>2
      <4>2. Cardinality(OwnersOf(m, ranks, e)) = 1
        BY <1>1, OneOwner DEF N
      <4> QED  BY <3>1, <3>2, <4>1, <4>2
    <3>3. CASE ~(\E c \in choice : c.expert = e /\ i \in c.kept)
      <4>1. {r \in OwnersOf(m, ranks, e) : \E c \in choice : c.expert = e /\ i \in c.kept} = {}
        BY <3>3
      <4> QED  BY <3>1, <3>3, <4>1, FS_EmptySet
    <3> QED  BY <3>2, <3>3
  <2>7. ASSUME NEW i \in DOMAIN tokens, NEW e \in Experts(m), e \notin Chosen(m, tokens[i])
        PROVE  runs[i][e] = 0
    <3>1. i \notin Hits(m, tokens, e)
      BY <2>7 DEF Hits
    <3>2. ~(\E c \in choice : c.expert = e /\ i \in c.kept)
      BY <2>2, <3>1
    <3> QED  BY <2>6, <3>2
  <2>8. ASSUME NEW i \in DOMAIN tokens, NEW e \in Experts(m), e \in Chosen(m, tokens[i]),
               runs[i][e] # 1
        PROVE  /\ runs[i][e] = 0 /\ most > 0
               /\ Cardinality({j \in DOMAIN tokens : runs[j][e] > 0}) = most
    <3>1. i \in Hits(m, tokens, e)
      BY <2>8 DEF Hits
    <3>2. ~(\E c \in choice : c.expert = e /\ i \in c.kept)
      BY <2>6, <2>8
    <3>3. PICK c \in choice : c.expert = e
      BY <1>3
    <3>4. c.kept # Hits(m, tokens, e)
      BY <3>1, <3>2, <3>3
    <3>5. most # 0 /\ Cardinality(c.kept) = most /\ c.kept \subseteq 1..T
      BY <2>2, <2>3, <3>3, <3>4
    <3>6. \A j \in DOMAIN tokens : runs[j][e] > 0 <=> j \in c.kept
      <4> SUFFICES ASSUME NEW j \in DOMAIN tokens PROVE runs[j][e] > 0 <=> j \in c.kept
        OBVIOUS
      <4>1. (\E d \in choice : d.expert = e /\ j \in d.kept) <=> j \in c.kept
        BY <2>5, <3>3
      <4>2. runs[j][e] = IF j \in c.kept THEN 1 ELSE 0
        BY <2>6, <4>1
      <4> QED  BY <4>2
    <3>7. {j \in DOMAIN tokens : runs[j][e] > 0} = c.kept
      BY <1>1, <3>5, <3>6
    <3>8. runs[i][e] = 0
      BY <2>6, <3>2
    <3>9. most > 0
      BY <1>1, <3>5
    <3> QED  BY <3>5, <3>7, <3>8, <3>9
  <2> QED  BY <2>7, <2>8 DEF RunsRight, most, T
<1>4. \/ runs = [i \in DOMAIN tokens |-> Times(m, Chosen(m, tokens[i]))]
      \/ \E choice \in kSubset(N, KeptChoices(m, tokens)) :
           {c.expert : c \in choice} = Experts(m) /\ runs = AddedBy(m, tokens, ranks, choice)
  BY DispatchedIs
<1> QED  BY <1>2, <1>3, <1>4

-----------------------------------------------------------------------------
(* Forward: each text as if it were alone.                                   *)

\* What a block makes of a row it takes from a position on, for a model.
MixesOf(m, l, row, documents, from, i) ==
  Mixed(row, Attends(m, l - 1, from, Len(row) - from, Len(row), documents, i - 1))
MadeBy(m, l, row, documents, from, ranks) ==
  {[layer |-> l, row |-> row, documents |-> documents, from |-> from,
    made |-> [i \in 1..Len(row) - from |->
                [mixes |-> MixesOf(m, l, row, documents, from, i), runs |-> runs[i]]]] :
     runs \in Dispatched(m, SubSeq(row, from + 1, Len(row)), ranks)}

\* EachTextAlone, of a block and a model.
StartIn(b, position) ==
  IF b.documents = <<>> THEN 0
  ELSE BeginOf(b.documents, position)
MixesAlone(m, b, i) ==
  LET position == b.from + i - 1
      start    == StartIn(b, position)
      spec     == AttentionSpec(m, b.layer - 1)
  IN (spec.kind # "sparse" \/ b.documents = <<>>) =>
       Counted(b.made[i].mixes, start)
         = MixedFrom(b.row, start, {k \in 0..position - start : Visible(spec, position - start, k)})
RunsAlone(m, b, i) ==
  \A e \in Experts(m) :
    IF e \notin Chosen(m, b.row[b.from + i - 1 + 1]) THEN b.made[i].runs[e] = 0
    ELSE \/ b.made[i].runs[e] = 1
         \/ /\ b.made[i].runs[e] = 0 /\ Capacity(m, Len(b.made)) > 0
            /\ Cardinality({j \in DOMAIN b.made : b.made[j].runs[e] > 0}) = Capacity(m, Len(b.made))

\* A row, and where a block takes it from: in a packed row, from the beginning.
RowFits(row, documents, from) ==
  /\ row \in Seq(Vocabulary) /\ from \in 0..Len(row)
  /\ documents # <<>> => documents \in Packings /\ from = 0 /\ Len(row) = Window

LEMMA BlockAlone ==
  ASSUME NEW m, ModelFits(m), NEW l \in 1..m.num_layers, NEW row, NEW documents, NEW from,
         RowFits(row, documents, from), NEW ranks \in Nat \ {0}, Divides(ranks, m.num_experts),
         NEW b \in MadeBy(m, l, row, documents, from, ranks), NEW i \in DOMAIN b.made
  PROVE  MixesAlone(m, b, i) /\ RunsAlone(m, b, i)
<1> DEFINE length == Len(row) - from
           tokens == SubSeq(row, from + 1, Len(row))
           position == from + i - 1
           spec == AttentionSpec(m, l - 1)
           A == Attends(m, l - 1, from, length, Len(row), documents, i - 1)
           start == StartIn(b, position)
           B == {k \in 0..position - start : Visible(spec, position - start, k)}
<1>1. PICK runs \in Dispatched(m, tokens, ranks) :
        b = [layer |-> l, row |-> row, documents |-> documents, from |-> from,
             made |-> [j \in 1..length |->
                         [mixes |-> MixesOf(m, l, row, documents, from, j), runs |-> runs[j]]]]
  BY DEF MadeBy
<1>2. /\ b.layer = l /\ b.row = row /\ b.documents = documents /\ b.from = from
      /\ b.made = [j \in 1..length |->
                     [mixes |-> MixesOf(m, l, row, documents, from, j), runs |-> runs[j]]]
  BY <1>1
<1>3. row \in Seq(Vocabulary) /\ Len(row) \in Nat /\ from \in Nat /\ from <= Len(row) /\ length \in Nat
  BY DEF RowFits
<1>4. DOMAIN b.made = 1..length /\ Len(b.made) = length
      /\ \A j \in 1..length : /\ b.made[j].mixes = MixesOf(m, l, row, documents, from, j)
                              /\ b.made[j].runs = runs[j]
  <2> HIDE DEF length
  <2> QED  BY <1>2, <1>3
<1>5. i \in 1..length /\ position \in Nat /\ position < Len(row) /\ Len(row) = from + length
      /\ i - 1 \in 0..length - 1 /\ from + (i - 1) = position
  <2>1. i \in 1..length
    BY <1>4
  <2>2. length \in Nat /\ Len(row) = from + length /\ i \in Int /\ 1 <= i /\ i <= length
    BY <1>3, <2>1
  <2> HIDE DEF length
  <2> QED  BY <1>3, <2>1, <2>2
<1>6. b.made[i].mixes = Mixed(row, A)
  BY <1>4, <1>5 DEF MixesOf
<1>7. l - 1 \in 0..m.num_layers - 1
  <2>1. m.num_layers \in Nat
    BY DEF ModelFits
  <2> QED  BY <2>1
<1>8. ASSUME spec.kind # "sparse" \/ documents = <<>>
      PROVE  start \in Nat /\ Shifts(A, B, start)
  <2>1. CASE documents = <<>>
    <3>1. start = 0
      BY <1>2, <2>1 DEF StartIn
    <3>2. \A key : key \in A <=> key \in 0..position /\ Visible(spec, position, key)
      <4> SUFFICES ASSUME NEW key
                   PROVE  key \in A <=> key \in 0..position /\ Visible(spec, position, key)
        OBVIOUS
      <4>1. A = Attends(m, l - 1, from, length, from + length, <<>>, i - 1)
        BY <1>5, <2>1
      <4> HIDE DEF A, spec, position, length
      <4>2. key \in A <=> key \in 0..from + (i - 1)
                          /\ Visible(AttentionSpec(m, l - 1), from + (i - 1), key)
        BY <1>3, <1>5, <1>7, <4>1, AttendsToVisible
      <4> QED  BY <1>5, <4>2 DEF spec
    <3> DEFINE P(key) == Visible(spec, position, key)
    <3>3. B = {k \in 0..position : P(k)}
      <4>1. position - start = position
        BY <1>5, <3>1
      <4> QED  BY <4>1
    <3>4. \A key : key \in A <=> key \in 0..position /\ P(key)
      BY <3>2
    <3> HIDE DEF A, B, P, start, position
    <3>5. ASSUME NEW key PROVE key \in A <=> key - start \in B /\ key \in Int
      <4>1. key \in Int => key - start = key
        BY <3>1
      <4>2. key \in A => key \in Int
        BY <1>5, <3>4
      <4>3. key \in A <=> key \in B
        BY <3>3, <3>4
      <4> QED  BY <4>1, <4>2, <4>3
    <3> QED  BY <3>1, <3>5 DEF Shifts
  <2>2. CASE documents # <<>>
    <3>1. documents \in Packings /\ from = 0 /\ Len(row) = Window /\ Window \in Nat
      BY <2>2, SizesAssumption DEF RowFits
    <3>2. position = i - 1 /\ position \in 0..Window - 1 /\ length = Window
      BY <1>3, <1>5, <3>1
    <3>3. start = BeginOf(documents, position)
      BY <1>2, <2>2 DEF StartIn
    <3>4. LayerKind(m, l - 1) # "sparse"
      BY <1>8, <2>2 DEF AttentionSpec
    <3>5. A = Attends(m, l - 1, 0, Window, Window, documents, position)
      BY <3>1, <3>2
    <3> HIDE DEF A, position, start, spec, length
    <3>6. /\ start \in 0..position
          /\ \A key : key \in A <=> key \in start..position
                                    /\ Visible(spec, position - start, key - start)
      BY <1>7, <3>1, <3>2, <3>3, <3>4, <3>5, AttendsToDocument DEF spec
    <3> DEFINE P(key) == Visible(spec, position - start, key)
    <3>7. B = {k \in 0..position - start : P(k)}
      OBVIOUS
    <3>8. \A key : key \in A <=> key \in start..position /\ P(key - start)
      BY <3>6
    <3> HIDE DEF B, P
    <3>9. ASSUME NEW key PROVE key \in A <=> key - start \in B /\ key \in Int
      <4>1. key \in Int => (key \in start..position <=> key - start \in 0..position - start)
        BY <1>5, <3>6
      <4>2. key \in start..position => key \in Int
        OBVIOUS
      <4> QED  BY <3>7, <3>8, <4>1, <4>2
    <3> QED  BY <1>5, <3>6, <3>9 DEF Shifts
  <2> QED  BY <2>1, <2>2
<1>9. MixesAlone(m, b, i)
  <2> SUFFICES ASSUME spec.kind # "sparse" \/ documents = <<>>
               PROVE  Counted(Mixed(row, A), start) = MixedFrom(row, start, B)
    BY <1>2, <1>6 DEF MixesAlone
  <2>1. start \in Nat /\ Shifts(A, B, start)
    BY <1>8
  <2>2. B \in SUBSET Nat
    <3> HIDE DEF start, position, spec
    <3> QED  OBVIOUS
  <2> HIDE DEF A, B, start, position, spec
  <2> QED  BY <2>1, <2>2, Shifted
<1>10. RunsAlone(m, b, i)
  <2>1. /\ tokens \in Seq(Vocabulary) /\ Len(tokens) = length /\ DOMAIN tokens = 1..length
        /\ \A j \in 1..length : tokens[j] = row[from + j]
    <3>1. from + 1 \in Nat \ {0} /\ Len(row) \in Int /\ Len(row) <= Len(row)
      BY <1>3
    <3>2. /\ tokens \in Seq(Vocabulary)
          /\ Len(tokens) = IF from + 1 <= Len(row) THEN Len(row) - (from + 1) + 1 ELSE 0
          /\ \A j \in 1..Len(row) - (from + 1) + 1 : tokens[j] = row[(from + 1) + j - 1]
      BY <1>3, <3>1, Middle
    <3>3. Len(row) - (from + 1) + 1 = length /\ \A j \in Int : (from + 1) + j - 1 = from + j
      BY <1>3
    <3> HIDE DEF tokens, length
    <3>4. Len(tokens) = length
      BY <1>3, <1>5, <3>2, <3>3
    <3>5. DOMAIN tokens = 1..length
      BY <3>2, <3>4
    <3>6. ASSUME NEW j \in 1..length PROVE tokens[j] = row[from + j]
      <4>1. tokens[j] = row[(from + 1) + j - 1]
        BY <3>2, <3>3
      <4>2. (from + 1) + j - 1 = from + j
        BY <3>3
      <4> QED  BY <4>1, <4>2
    <3> QED  BY <3>2, <3>4, <3>5, <3>6
  <2> HIDE DEF tokens, length
  <2>2. RunsRight(m, tokens, runs)
    BY <2>1, RunsOnce
  <2>3. \A e : {j \in DOMAIN tokens : runs[j][e] > 0} = {j \in DOMAIN b.made : b.made[j].runs[e] > 0}
    BY <1>4, <2>1
  <2>4. tokens[i] = b.row[b.from + i - 1 + 1] /\ b.made[i].runs = runs[i] /\ i \in DOMAIN tokens
    <3>1. from + i - 1 + 1 = from + i
      BY <1>3, <1>5
    <3> QED  BY <1>2, <1>4, <1>5, <2>1, <3>1
  <2>5. Len(b.made) = Len(tokens)
    BY <1>4, <2>1
  <2> SUFFICES ASSUME NEW e \in Experts(m)
               PROVE  IF e \notin Chosen(m, b.row[b.from + i - 1 + 1]) THEN b.made[i].runs[e] = 0
                      ELSE \/ b.made[i].runs[e] = 1
                           \/ /\ b.made[i].runs[e] = 0 /\ Capacity(m, Len(b.made)) > 0
                              /\ Cardinality({j \in DOMAIN b.made : b.made[j].runs[e] > 0})
                                   = Capacity(m, Len(b.made))
    BY DEF RunsAlone
  <2> QED  BY <2>2, <2>3, <2>4, <2>5 DEF RunsRight
<1> QED  BY <1>9, <1>10

\* The inductive invariant: what went through the cache is its text, and a block
\* made its positions of a row, on ranks that share its experts evenly.
Made(m, b) ==
  \E ranks \in Nat \ {0} :
    /\ Divides(ranks, m.num_experts) /\ b.layer \in Layers
    /\ RowFits(b.row, b.documents, b.from)
    /\ b \in MadeBy(m, b.layer, b.row, b.documents, b.from, ranks)

ForwardInv == CacheInv /\ model \in Models /\ fed = Text /\ (block = None \/ Made(model, block))

LEMMA MakesIs ==
  ASSUME NEW l, NEW row, NEW documents, NEW from, NEW ranks
  PROVE  Makes(l, row, documents, from, row, ranks) = MadeBy(model, l, row, documents, from, ranks)
BY DEF Makes, MadeBy, MixesOf, Mixed

LEMMA MadeFits ==
  ASSUME NEW m, NEW l \in Layers, NEW row, NEW documents, NEW from,
         RowFits(row, documents, from), NEW ranks \in Nat \ {0}, Divides(ranks, m.num_experts),
         NEW b \in MadeBy(m, l, row, documents, from, ranks)
  PROVE  Made(m, b)
<1>1. b.layer = l /\ b.row = row /\ b.documents = documents /\ b.from = from
  BY DEF MadeBy
<1> QED  BY <1>1 DEF Made

\* One rank has all experts.
LEMMA OneRank ==
  ASSUME NEW m \in Models
  PROVE  ModelFits(m) /\ m.num_layers = NumLayers /\ m.num_experts \in Nat \ {0}
         /\ Divides(1, m.num_experts)
<1>1. ModelFits(m) /\ m.num_layers = NumLayers /\ m.num_experts \in Nat \ {0}
  BY ModelsAssumption DEF ModelFits
<1>2. m.num_experts % 1 = 0
  BY <1>1
<1> QED  BY <1>1, <1>2 DEF Divides

LEMMA ForwardStart == ForwardInit => ForwardInv
BY CacheStart DEF ForwardInit, ForwardInv, Cache!Init

LEMMA UpdateMakes ==
  ASSUME ForwardInv, ForwardUpdate
  PROVE  ForwardInv'
<1>1. CacheInv /\ model \in Models /\ fed = Text
  BY DEF ForwardInv
<1>2. Update /\ UNCHANGED <<model, fed>>
      /\ block' \in Makes(layer + 1, fed \o chunk, <<>>, pos, answer', 1)
  BY DEF ForwardUpdate
<1>3. CacheInv' /\ Cache!Update
  BY <1>1, <1>2, UpdateKeeps
<1>4. answer' = Text \o chunk /\ Text' = Text
  BY <1>3 DEF Cache!Update
<1> DEFINE row == Text \o chunk
<1>5. row \in Seq(Vocabulary) /\ Len(row) = pos + Len(chunk) /\ pos \in Nat /\ Len(chunk) \in Nat
  BY <1>1, GoesOn DEF CacheInv, CacheTyped, CacheText
<1>6. layer + 1 \in Layers
  BY <1>1, <1>2, SizesAssumption DEF Update, CacheInv, CacheTyped, Layers
<1> HIDE DEF row
<1>7. block' \in MadeBy(model, layer + 1, row, <<>>, pos, 1)
  BY <1>1, <1>2, <1>4, MakesIs DEF row
<1>8. RowFits(row, <<>>, pos)
  BY <1>5 DEF RowFits
<1>9. Made(model, block')
  BY <1>1, <1>6, <1>7, <1>8, OneRank, MadeFits
<1>10. Made(model, block)'
  BY <1>2, <1>9 DEF Made
<1> QED  BY <1>1, <1>2, <1>3, <1>4, <1>10 DEF ForwardInv

LEMMA RowMakes ==
  ASSUME ForwardInv, TrainRow
  PROVE  ForwardInv'
<1>1. CacheInv /\ model \in Models /\ fed = Text
  BY DEF ForwardInv
<1>2. UNCHANGED <<storageVars, model, fed>>
  BY DEF TrainRow
<1>3. PICK row \in [1..Window -> Vocabulary], documents \in {<<>>} \cup Packings, l \in Layers,
           ranks \in {n \in 1..MaxRanks : n = 1 \/ Divides(n, model.num_experts)} :
        block' \in Makes(l, row, documents, 0, row, ranks)
  BY DEF TrainRow
<1>4. CacheInv' /\ Text' = Text
  <2>1. UNCHANGED storageVars /\ UNCHANGED <<kind, keys, pages, pos>>
    BY <1>2 DEF storageVars
  <2> QED  BY <1>1, <2>1, CacheStep, TextStays
<1>5. ranks \in Nat \ {0} /\ Divides(ranks, model.num_experts)
  <2>1. ranks \in 1..MaxRanks /\ (ranks = 1 \/ Divides(ranks, model.num_experts))
    OBVIOUS
  <2> QED  BY <1>1, <2>1, RanksAssumption, OneRank
<1>6. row \in Seq(Vocabulary) /\ Len(row) = Window /\ Window \in Nat
  BY SizesAssumption
<1>7. RowFits(row, documents, 0)
  BY <1>6 DEF RowFits
<1>8. block' \in MadeBy(model, l, row, documents, 0, ranks)
  BY <1>3, MakesIs
<1>9. Made(model, block')
  BY <1>5, <1>7, <1>8, MadeFits
<1>10. Made(model, block)'
  BY <1>2, <1>9 DEF Made
<1> QED  BY <1>1, <1>2, <1>4, <1>10 DEF ForwardInv

LEMMA ForwardStep == ForwardInv /\ [ForwardNext]_fvars => ForwardInv'
<1> SUFFICES ASSUME ForwardInv, [ForwardNext]_fvars PROVE ForwardInv'
  OBVIOUS
<1>1. CacheInv /\ model \in Models /\ fed = Text /\ (block = None \/ Made(model, block))
  BY DEF ForwardInv
<1>2. CASE ForwardBegin
  <2>1. Begin /\ block' = None /\ UNCHANGED <<model, fed>>
    BY <1>2 DEF ForwardBegin
  <2>2. CacheInv' /\ Text' = Text
    BY <1>1, <2>1, BeginKeeps DEF Cache!Begin
  <2> QED  BY <1>1, <2>1, <2>2 DEF ForwardInv, None
<1>3. CASE ForwardUpdate
  BY <1>3, UpdateMakes
<1>4. CASE ForwardAdvance
  <2>1. Advance /\ fed' = fed \o chunk /\ block' = None /\ model' = model
    BY <1>4 DEF ForwardAdvance
  <2>2. CacheInv' /\ Text' = Text \o chunk
    BY <1>1, <2>1, AdvanceKeeps DEF Cache!Advance
  <2> QED  BY <1>1, <2>1, <2>2 DEF ForwardInv, None
<1>5. CASE ForwardAbort
  <2>1. Abort /\ block' = None /\ UNCHANGED <<model, fed>>
    BY <1>5 DEF ForwardAbort
  <2>2. CacheInv' /\ Text' = Text
    BY <1>1, <2>1, AbortKeeps DEF Cache!Abort
  <2> QED  BY <1>1, <2>1, <2>2 DEF ForwardInv, None
<1>6. CASE ForwardReset
  <2>1. Reset /\ fed' = <<>> /\ block' = None /\ model' = model
    BY <1>6 DEF ForwardReset
  <2>2. CacheInv' /\ Text' = <<>>
    BY <1>1, <2>1, ResetKeeps DEF Cache!Reset
  <2> QED  BY <1>1, <2>1, <2>2 DEF ForwardInv, None
<1>7. CASE TrainRow
  BY <1>7, RowMakes
<1>8. CASE UNCHANGED fvars
  <2>1. UNCHANGED storageVars /\ UNCHANGED <<model, fed, block>> /\ UNCHANGED <<kind, keys, pages, pos>>
    BY <1>8 DEF fvars, storageVars
  <2>2. CacheInv' /\ Text' = Text
    BY <1>1, <2>1, CacheStep, TextStays
  <2>3. (block = None \/ Made(model, block))'
    BY <1>1, <2>1 DEF Made, None
  <2> QED  BY <1>1, <2>1, <2>2, <2>3 DEF ForwardInv
<1> QED  BY <1>2, <1>3, <1>4, <1>5, <1>6, <1>7, <1>8 DEF ForwardNext

LEMMA ForwardInvariant == ForwardSpec => []ForwardInv
BY ForwardStart, ForwardStep, PTL DEF ForwardSpec

\* For every model that fits, window, vocabulary and sequence of passes, a
\* position of a block - of a row, of a row packed with others, or of a chunk
\* through a static, dynamic or paged cache - attends to what it would if the text
\* up to there were a row of its own, and goes once through each of its experts,
\* whatever rank has it, unless that expert is filled to its capacity
\* (CausalSelfAttention.forward and MixtureOfExperts.local_forward of
\* models/components.py, models/attention.py).
THEOREM EachTextAloneAlways == ForwardSpec => []EachTextAlone
<1>1. ForwardInv => EachTextAlone
  <2> SUFFICES ASSUME ForwardInv, NEW i \in DOMAIN block.made
               PROVE  MixesAlone(model, block, i) /\ RunsAlone(model, block, i)
    BY DEF EachTextAlone, MixesAlone, RunsAlone, StartIn, StartOf, BeginOf, Counted, MixedFrom
  <2>1. block # None
    BY DEF None
  <2>2. model \in Models /\ Made(model, block)
    BY <2>1 DEF ForwardInv
  <2>3. PICK ranks \in Nat \ {0} :
          /\ Divides(ranks, model.num_experts) /\ block.layer \in Layers
          /\ RowFits(block.row, block.documents, block.from)
          /\ block \in MadeBy(model, block.layer, block.row, block.documents, block.from, ranks)
    BY <2>2 DEF Made
  <2>4. ModelFits(model) /\ block.layer \in 1..model.num_layers
    BY <2>2, <2>3, OneRank DEF Layers
  <2> QED  BY <2>3, <2>4, BlockAlone
<1> QED  BY <1>1, ForwardInvariant, PTL

=================================================================================
