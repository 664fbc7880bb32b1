--------------------------- MODULE Decoding_proofs ---------------------------
(***************************************************************************)
(* Proofs about Decoding: context fitting, for every prompt, answer and    *)
(* window, and what follows for the positions of the key/value cache.      *)
(***************************************************************************)
EXTENDS Decoding, SequenceTheorems, WellFoundedInduction, TLAPS

\* What fit_context promises (engine.py:39-43): prompt and answer are kept when
\* both fit; otherwise the prompt gets at most 75% of the window, the answer
\* at least one token; their sum fits the window.
THEOREM FitContextBounds ==
  ASSUME NEW prompt \in Nat, NEW asked \in Nat \ {0}, NEW window \in Nat, window >= 2
  PROVE  LET fit == FitContext(prompt, asked, window)
         IN /\ fit.kept \in 0..prompt
            /\ fit.budget \in 1..asked
            /\ fit.kept + fit.budget <= window
            /\ prompt + asked <= window => fit.kept = prompt /\ fit.budget = asked
            /\ prompt + asked > window => 4 * fit.kept <= 3 * window
            /\ prompt > 0 => fit.kept > 0
<1> DEFINE quarter == (window * 3) \div 4
<1>1. quarter \in Int /\ 4 * quarter <= window * 3 /\ window * 3 < 4 * quarter + 4
  OBVIOUS
<1>2. /\ PromptBudget(window) \in 1..window - 1
      /\ 4 * PromptBudget(window) <= 3 * window
  <2> HIDE DEF quarter
  <2>1. PromptBudget(window) = Greatest(Least(quarter, window - 1), 1)
    BY DEF PromptBudget, quarter
  <2> QED  BY <1>1, <2>1 DEF Greatest, Least
<1> DEFINE tail == Least(prompt, PromptBudget(window))
<1>3. /\ tail \in 0..prompt /\ tail <= window - 1 /\ 4 * tail <= 3 * window
      /\ prompt > 0 => tail > 0
  BY <1>2 DEF Least
<1>4. /\ Least(asked, window - tail) \in 1..asked
      /\ tail + Least(asked, window - tail) <= window
  <2> HIDE DEF tail
  <2> QED  BY <1>3 DEF Least
<1>5. CASE prompt + asked <= window
  <2>1. FitContext(prompt, asked, window) = [kept |-> prompt, budget |-> asked]
    BY <1>5 DEF FitContext
  <2> QED  BY <1>5, <2>1
<1>6. CASE ~(prompt + asked <= window)
  <2>1. FitContext(prompt, asked, window)
          = [kept |-> tail, budget |-> Least(asked, window - tail)]
    BY <1>6 DEF FitContext
  <2> HIDE DEF tail
  <2> QED  BY <1>3, <1>4, <1>6, <2>1
<1> QED  BY <1>5, <1>6

\* What the loop knows at each point about the cache and the answer.
Counts ==
  /\ request \in Request
  /\ kept \in Nat /\ budget \in Nat /\ pos \in Nat
  /\ generated \in Seq(Vocabulary)
  /\ pc \in {"start", "prefill", "speculate"} => pos = 0 /\ generated = <<>>
  /\ pc \in {"prefill", "speculate"} => budget > 0
  /\ pc = "sample" => pos = kept + Len(generated) /\ Len(generated) < budget
  /\ pc = "yield" => pos + 1 = kept + Len(generated)
  /\ pc \notin {"start", "failed"} => /\ pos <= kept + Len(generated)
                                      /\ Len(generated) <= budget
                                      /\ kept + budget <= Window
  /\ pc = "start" => kept = 0 /\ budget = 0
  /\ pc \in {"start", "prefill", "sample", "yield", "speculate", "done", "failed", "closed"}

LEMMA WindowTyped ==
  ASSUME request \in Request
  PROVE  /\ Window \in Nat /\ Window <= ModelWindow
         /\ request.context # 1 => Window >= 2
  BY WindowAssumption, BoundsAssumption DEF Window, Least, Request, Omitted

LEMMA InitCounts == Init => Counts
<1> SUFFICES ASSUME Init PROVE Counts
  OBVIOUS
<1> QED  BY DEF Init, Counts

LEMMA StepCounts ==
  ASSUME Counts, [Next]_vars
  PROVE  Counts'
<1>0. /\ Window \in Nat /\ Window <= ModelWindow /\ (request.context # 1 => Window >= 2)
      /\ ModelWindow \in Nat
  BY WindowTyped, WindowAssumption DEF Counts
<1>1. CASE Begin
  <2>1. /\ request.prompt \in Nat /\ request.asked \in Nat
        /\ request' = request /\ Window' = Window
    BY <1>1, BoundsAssumption DEF Begin, Counts, Request, Window
  <2>2. CASE request.asked < 1 \/ request.context = 1
    BY <1>1, <2>1, <2>2 DEF Begin, Counts
  <2>3. CASE ~(request.asked < 1 \/ request.context = 1)
    <3> DEFINE fit == FitContext(request.prompt, request.asked, Window)
    <3>0. request.asked \in Nat \ {0} /\ Window \in Nat /\ Window >= 2
      BY <1>0, <2>1, <2>3
    <3>1. fit.kept \in Nat /\ fit.budget \in Nat \ {0} /\ fit.kept + fit.budget <= Window
      <4>1. /\ fit.kept \in 0..request.prompt /\ fit.budget \in 1..request.asked
            /\ fit.kept + fit.budget <= Window
        BY <2>1, <3>0, FitContextBounds
      <4> HIDE DEF fit
      <4> QED  BY <2>1, <3>0, <4>1
    <3>2. /\ kept' = fit.kept /\ budget' = fit.budget
          /\ pc' \in {"prefill", "failed", "speculate"}
      BY <1>1, <2>3 DEF Begin
    <3>3. pos' = 0 /\ generated' = <<>>
      BY <1>1 DEF Begin, Counts
    <3> HIDE DEF fit
    <3> QED  BY <2>1, <3>1, <3>2, <3>3 DEF Counts
  <2> QED  BY <2>2, <2>3
<1>2. CASE Prefill
  <2>1. /\ UNCHANGED <<request, kept, budget, generated>> /\ Window' = Window
        /\ pos' = (IF pos + kept > ModelWindow THEN pos ELSE pos + kept)
        /\ pc' = (IF kept = 0 \/ pos + kept > ModelWindow THEN "failed" ELSE "sample")
    BY <1>2 DEF Prefill, Forward, Window
  <2> QED  BY <1>0, <1>2, <2>1 DEF Prefill, Counts
<1>3. CASE SampleEos
  BY <1>3 DEF SampleEos, Counts, Window
<1>4. CASE Sample
  <2>1. PICK token \in Vocabulary : generated' = Append(generated, token)
    BY <1>4 DEF Sample
  <2>2. generated' \in Seq(Vocabulary) /\ Len(generated') = Len(generated) + 1
    BY <2>1 DEF Counts
  <2>3. /\ UNCHANGED <<request, kept, budget, pos>> /\ Window' = Window
        /\ pc = "sample" /\ pc' \in {"failed", "yield"}
    BY <1>4 DEF Sample, Window
  <2>4. Len(generated) \in Nat
    BY DEF Counts
  <2> QED  BY <2>2, <2>3, <2>4 DEF Counts
<1>5. CASE Resume
  <2>1. /\ UNCHANGED <<request, kept, budget, generated>> /\ Window' = Window
        /\ pc = "yield" /\ Len(generated) \in Nat
    BY <1>5 DEF Resume, Window, Counts
  <2>2. pos + 1 = kept + Len(generated) /\ kept + Len(generated) <= Window
    BY <1>0, <2>1 DEF Counts
  <2>3. CASE Len(generated) < budget
    <3>1. \/ pc' = "failed" /\ pos' \in Nat
          \/ pc' = "sample" /\ pos' = pos + 1
      BY <1>5, <2>3 DEF Resume, Forward, Counts
    <3> QED  BY <2>1, <2>2, <2>3, <3>1 DEF Counts
  <2>4. CASE ~(Len(generated) < budget)
    BY <1>5, <2>1, <2>2, <2>4 DEF Resume, Counts
  <2> QED  BY <2>3, <2>4
<1>6. CASE Abandon
  <2>1. UNCHANGED <<request, kept, budget, pos, generated>> /\ Window' = Window
    BY <1>6 DEF Abandon, Window
  <2> QED  BY <1>0, <1>6, <2>1 DEF Abandon, Counts
<1>7. CASE Speculate
  <2>1. PICK n \in 0..budget : generated' \in [1..n -> Vocabulary]
    BY <1>7 DEF Speculate
  <2>2. generated' \in Seq(Vocabulary) /\ Len(generated') = n /\ n \in Nat
    BY <2>1 DEF Counts
  <2>3. /\ UNCHANGED <<request, kept, budget, pos>> /\ Window' = Window
        /\ pc = "speculate" /\ pc' = "done"
    BY <1>7 DEF Speculate, Window
  <2> QED  BY <2>1, <2>2, <2>3 DEF Counts
<1>8. CASE UNCHANGED vars
  BY <1>8 DEF vars, Counts, Window
<1> QED
  BY <1>1, <1>2, <1>3, <1>4, <1>5, <1>6, <1>7, <1>8 DEF Next

\* The positions of a request stay within its window, and so within the cache,
\* for every prompt, answer and window (engine.py:36-57, 262-299).
THEOREM StaysWithinWindow == Spec => []WithinWindow
<1>1. Counts => WithinWindow
  <2> SUFFICES ASSUME Counts, pc \notin {"start", "failed"}
               PROVE  pos <= Window /\ kept + Len(generated) <= Window
    BY DEF WithinWindow
  <2>1. Window \in Nat /\ Len(generated) \in Nat
    BY WindowTyped DEF Counts
  <2> QED  BY <2>1 DEF Counts
<1>2. Counts /\ [Next]_vars => Counts'
  BY StepCounts
<1> QED  BY InitCounts, <1>1, <1>2, PTL DEF Spec

-----------------------------------------------------------------------------
(* Induction, from the least number a set of naturals lacks.               *)

LEMMA Induction ==
  ASSUME NEW S \in SUBSET Nat, 0 \in S, \A n \in S : n + 1 \in S
  PROVE  S = Nat
<1> SUFFICES ASSUME Nat \ S # {} PROVE FALSE
  OBVIOUS
<1> DEFINE R == OpToRel(<, Nat)
<1>1. IsWellFoundedOn(R, Nat)
  BY NatLessThanWellFounded
<1>2. \A x, y \in Nat : <<x, y>> \in R <=> x < y
  BY DEF OpToRel
<1> HIDE DEF R
<1>3. PICK least \in Nat \ S : \A y \in Nat \ S : ~ (<<y, least>> \in R)
  BY <1>1, WFMin
<1>4. least # 0 /\ least - 1 \in Nat
  BY <1>3
<1>5. least - 1 \in S
  <2>1. <<least - 1, least>> \in R
    BY <1>2, <1>4
  <2>2. least - 1 \notin Nat \ S
    BY <1>3, <2>1
  <2> QED  BY <1>4, <2>2
<1>6. (least - 1) + 1 \in S
  BY <1>5
<1> QED  BY <1>4, <1>6

-----------------------------------------------------------------------------
(* What the caller has got.                                                *)

\* What the decoder holds of the tokens so far.
Held(ids) == DecodedUpTo(ids)[Len(ids)]

\* A half character is the last glyph, and a character of two tokens needs them.
HeldWell(ids) ==
  /\ Held(ids) \in Decoded
  /\ Held(ids).half => /\ Held(ids).text # <<>>
                       /\ Held(ids).text[Len(Held(ids).text)] = "?"
  /\ \A i \in 1..Len(Held(ids).text) :
       Held(ids).text[i] = "wide" => \E j \in 1..Len(ids) : ids[j] \in {"lead", "cont"}

\* The caller's text is the decoded one, but for characters completed after
\* their replacement was yielded.
Alike(mine, text) ==
  /\ Len(mine) = Len(text)
  /\ \A i \in 1..Len(text) : \/ mine[i] = text[i]
                             \/ mine[i] = "?" /\ text[i] = "wide"

Streamed ==
  /\ emitted = Len(out)
  /\ Alike(out, Decode(generated))
  /\ ~Contains(Decode(generated))

TextInv ==
  /\ HeldWell(generated)
  /\ out \in Seq(Glyphs)
  /\ ~Contains(out)
  /\ pc \in {"start", "prefill", "sample", "yield"} => Streamed
  /\ pc = "speculate" => request.draft = "loaded"
  /\ pc = "done" /\ request.draft = "off" => Streamed

-----------------------------------------------------------------------------
(* The decoder, token by token.                                            *)

Solves(f, ids, k) ==
  f = [n \in 0..k |-> IF n = 0 THEN Blank ELSE Absorb(f[n - 1], ids[n])]

\* The recursion has a solution, so that the decoder is one.
LEMMA DecoderUnfolds ==
  ASSUME NEW V, NEW ids \in Seq(V)
  PROVE  Solves(DecodedUpTo(ids), ids, Len(ids))
<1> DEFINE S == {k \in Nat : \E f : Solves(f, ids, k)}
<1>1. 0 \in S
  <2> DEFINE f == [n \in 0..0 |-> Blank]
  <2>1. f = [n \in 0..0 |-> IF n = 0 THEN Blank ELSE Absorb(f[n - 1], ids[n])]
    OBVIOUS
  <2> HIDE DEF f
  <2> QED  BY <2>1 DEF Solves
<1>2. ASSUME NEW k \in S PROVE k + 1 \in S
  <2>1. PICK f : Solves(f, ids, k)
    OBVIOUS
  <2> DEFINE g == [n \in 0..k + 1 |-> IF n <= k THEN f[n] ELSE Absorb(f[k], ids[k + 1])]
  <2>2. \A n \in 0..k : g[n] = f[n]
    OBVIOUS
  <2>3. \A n \in 0..k : f[n] = IF n = 0 THEN Blank ELSE Absorb(f[n - 1], ids[n])
    BY <2>1 DEF Solves
  <2>4. \A n \in 0..k + 1 : g[n] = IF n = 0 THEN Blank ELSE Absorb(g[n - 1], ids[n])
    <3>1. ASSUME NEW n \in 0..k + 1, n <= k
          PROVE  g[n] = IF n = 0 THEN Blank ELSE Absorb(g[n - 1], ids[n])
      <4>1. n \in 0..k /\ (n # 0 => n - 1 \in 0..k)
        BY <3>1
      <4> HIDE DEF g
      <4> QED  BY <2>2, <2>3, <4>1
    <3>2. g[k + 1] = Absorb(f[k], ids[k + 1]) /\ k \in 0..k
      OBVIOUS
    <3>3. ASSUME NEW n \in 0..k + 1, ~(n <= k)
          PROVE  g[n] = IF n = 0 THEN Blank ELSE Absorb(g[n - 1], ids[n])
      <4>1. n = k + 1 /\ n # 0 /\ n - 1 = k
        BY <3>3
      <4> HIDE DEF g
      <4> QED  BY <2>2, <3>2, <4>1
    <3> QED  BY <3>1, <3>3
  <2>5. Solves(g, ids, k + 1)
    <3>1. DOMAIN g = 0..k + 1 /\ g = [n \in DOMAIN g |-> g[n]]
      OBVIOUS
    <3> HIDE DEF g
    <3> QED  BY <2>4, <3>1 DEF Solves
  <2> QED  BY <2>5
<1>3. S = Nat
  <2> HIDE DEF S
  <2>1. S \in SUBSET Nat
    BY DEF S
  <2> QED  BY <1>1, <1>2, <2>1, Induction
<1>4. Len(ids) \in Nat
  OBVIOUS
<1>5. \E f : Solves(f, ids, Len(ids))
  BY <1>3, <1>4
<1> QED  BY <1>5 DEF Solves, DecodedUpTo

\* A longer text is decoded as the shorter one, and then its last token.
LEMMA DecoderStep ==
  ASSUME NEW V, NEW ids \in Seq(V), NEW token \in V
  PROVE  Held(Append(ids, token)) = Absorb(Held(ids), token)
<1> DEFINE more == Append(ids, token)
           a == DecodedUpTo(ids)
           b == DecodedUpTo(more)
           len == Len(ids)
<1>1. /\ more \in Seq(V) /\ Len(more) = len + 1 /\ len \in Nat
      /\ \A n \in 1..len : more[n] = ids[n]
      /\ more[len + 1] = token
  OBVIOUS
<1>2. Solves(a, ids, len) /\ Solves(b, more, len + 1)
  BY <1>1, DecoderUnfolds
<1> HIDE DEF more, a, b, len
<1>3. /\ \A n \in 0..len : a[n] = IF n = 0 THEN Blank ELSE Absorb(a[n - 1], ids[n])
      /\ \A n \in 0..len + 1 : b[n] = IF n = 0 THEN Blank ELSE Absorb(b[n - 1], more[n])
  BY <1>1, <1>2 DEF Solves
<1> DEFINE S == {n \in Nat : n <= len => b[n] = a[n]}
<1>4. 0 \in S
  BY <1>1, <1>3
<1>5. ASSUME NEW n \in S PROVE n + 1 \in S
  <2> SUFFICES ASSUME n + 1 <= len PROVE b[n + 1] = a[n + 1]
    OBVIOUS
  <2>1. /\ n + 1 \in 0..len /\ n + 1 \in 0..len + 1 /\ n + 1 \in 1..len
        /\ n + 1 # 0 /\ (n + 1) - 1 = n /\ b[n] = a[n]
    BY <1>1
  <2>2. a[n + 1] = Absorb(a[n], ids[n + 1]) /\ b[n + 1] = Absorb(b[n], more[n + 1])
    BY <1>3, <2>1
  <2>3. more[n + 1] = ids[n + 1]
    BY <1>1, <2>1
  <2> QED  BY <2>1, <2>2, <2>3
<1>6. S = Nat
  <2> HIDE DEF S
  <2>1. S \in SUBSET Nat
    BY DEF S
  <2> QED  BY <1>4, <1>5, <2>1, Induction
<1>7. b[len] = a[len]
  BY <1>1, <1>6
<1>8. len + 1 \in 0..len + 1 /\ len + 1 # 0 /\ (len + 1) - 1 = len
  BY <1>1
<1>9. b[len + 1] = Absorb(b[len], token)
  BY <1>1, <1>3, <1>8
<1> QED  BY <1>1, <1>7, <1>9 DEF Held, a, b, len, more

LEMMA DecoderStarts == Held(<<>>) = Blank
<1>1. <<>> \in Seq({}) /\ Len(<<>>) = 0
  OBVIOUS
<1>2. Solves(DecodedUpTo(<<>>), <<>>, 0)
  BY <1>1, DecoderUnfolds
<1>3. DecodedUpTo(<<>>)[0] = Blank
  BY <1>2 DEF Solves
<1> QED  BY <1>1, <1>3 DEF Held

\* A token adds at most one glyph, and changes none but a half character's.
LEMMA AbsorbKeeps ==
  ASSUME NEW d \in Decoded, NEW token \in AllTokens,
         d.half => d.text # <<>> /\ d.text[Len(d.text)] = "?"
  PROVE  LET e == Absorb(d, token)
         IN /\ e \in Decoded
            /\ e.half => e.text # <<>> /\ e.text[Len(e.text)] = "?"
            /\ Len(d.text) <= Len(e.text)
            /\ \A i \in 1..Len(d.text) : \/ e.text[i] = d.text[i]
                                         \/ d.text[i] = "?" /\ e.text[i] = "wide"
            /\ \A i \in 1..Len(e.text) :
                 e.text[i] = "wide" => \/ i <= Len(d.text) /\ d.text[i] = "wide"
                                       \/ token = "cont"
<1> DEFINE e == Absorb(d, token)
           t == d.text
<1>1. t \in Seq(Glyphs) /\ Len(t) \in Nat /\ d.half \in BOOLEAN
  BY DEF Decoded
<1>2. \A g \in Glyphs :
        /\ Append(t, g) \in Seq(Glyphs) /\ Len(Append(t, g)) = Len(t) + 1
        /\ \A i \in 1..Len(t) : Append(t, g)[i] = t[i]
        /\ Append(t, g)[Len(t) + 1] = g
  BY <1>1
<1>3. CASE token \in {"special", "eos"}
  <2>1. e = d
    BY <1>3 DEF Absorb
  <2> QED  BY <1>1, <2>1
<1>4. ASSUME NEW g \in Glyphs, NEW half \in BOOLEAN,
             e = [text |-> Append(t, g), half |-> half],
             g # "wide", half => g = "?"
      PROVE  /\ e \in Decoded
             /\ e.half => e.text # <<>> /\ e.text[Len(e.text)] = "?"
             /\ Len(d.text) <= Len(e.text)
             /\ \A i \in 1..Len(d.text) : e.text[i] = d.text[i]
             /\ \A i \in 1..Len(e.text) :
                  e.text[i] = "wide" => i <= Len(d.text) /\ d.text[i] = "wide"
  <2> DEFINE u == Append(t, g)
  <2>1. /\ u \in Seq(Glyphs) /\ Len(u) = Len(t) + 1 /\ u[Len(t) + 1] = g
        /\ \A i \in 1..Len(t) : u[i] = t[i]
    BY <1>2
  <2>2. e.text = u /\ e.half = half
    BY <1>4
  <2> HIDE DEF u, e, t
  <2>3. e \in Decoded
    <3> HIDE DEF Decoded
    <3>1. e = [text |-> u, half |-> half]
      BY <1>4 DEF u
    <3> QED  BY <3>1, <2>1 DEF Decoded
  <2>4. u # <<>> /\ \A i \in 1..Len(u) : i <= Len(t) \/ i = Len(t) + 1
    BY <1>1, <2>1
  <2>5. \A i \in 1..Len(u) : u[i] = "wide" => i <= Len(t) /\ t[i] = "wide"
    BY <1>1, <1>4, <2>1, <2>4
  <2> QED  BY <1>1, <1>4, <2>1, <2>2, <2>3, <2>4, <2>5 DEF t
<1>5. CASE token = "lead" \/ (token = "cont" /\ ~d.half)
  <2>1. e = [text |-> Append(t, "?"), half |-> token = "lead"] /\ "?" \in Glyphs
    BY <1>5 DEF Absorb, Glyphs
  <2> HIDE DEF e, t
  <2> QED  BY <2>1, <1>4 DEF t, e
<1>6. CASE token = "cont" /\ d.half
  <2> DEFINE u == [t EXCEPT ![Len(t)] = "wide"]
  <2>1. Len(t) \in 1..Len(t) /\ t[Len(t)] = "?"
    BY <1>1, <1>6
  <2>2. /\ u \in Seq(Glyphs) /\ Len(u) = Len(t) /\ u[Len(t)] = "wide"
        /\ \A i \in 1..Len(t) : i # Len(t) => u[i] = t[i]
    <3>1. "wide" \in Glyphs
      BY DEF Glyphs
    <3> HIDE DEF t
    <3> QED  BY <1>1, <2>1, <3>1, ExceptSeq
  <2>3. e = [text |-> u, half |-> FALSE]
    BY <1>6 DEF Absorb
  <2>4. e.text = u /\ e.half = FALSE
    BY <2>3
  <2> HIDE DEF u, e, t
  <2>5. e \in Decoded
    BY <2>2, <2>3 DEF Decoded
  <2> QED  BY <1>1, <1>6, <2>1, <2>2, <2>4, <2>5 DEF t, e
<1>7. CASE token \in {"char", "stop"}
  <2>1. e = [text |-> Append(t, token), half |-> FALSE]
        /\ token \in Glyphs /\ token # "wide"
    BY <1>7 DEF Absorb, Glyphs
  <2> HIDE DEF e, t
  <2> QED  BY <2>1, <1>4 DEF t, e
<1> QED  BY <1>3, <1>5, <1>6, <1>7 DEF AllTokens

\* A sequence of tokens is decoded well.
LEMMA HeldStep ==
  ASSUME NEW ids \in Seq(AllTokens), NEW token \in AllTokens, HeldWell(ids)
  PROVE  HeldWell(Append(ids, token))
<1> DEFINE d == Held(ids)
           e == Absorb(d, token)
           more == Append(ids, token)
<1>1. Held(more) = e
  BY DecoderStep
<1>2. /\ Len(more) = Len(ids) + 1 /\ Len(ids) \in Nat /\ more[Len(ids) + 1] = token
      /\ \A j \in 1..Len(ids) : more[j] = ids[j]
  OBVIOUS
<1>3. /\ d \in Decoded
      /\ d.half => d.text # <<>> /\ d.text[Len(d.text)] = "?"
      /\ \A i \in 1..Len(d.text) :
           d.text[i] = "wide" => \E j \in 1..Len(ids) : ids[j] \in {"lead", "cont"}
  BY DEF HeldWell
<1> HIDE DEF d, more
<1>4. /\ e \in Decoded
      /\ e.half => e.text # <<>> /\ e.text[Len(e.text)] = "?"
      /\ \A i \in 1..Len(e.text) :
           e.text[i] = "wide" => \/ i <= Len(d.text) /\ d.text[i] = "wide"
                                 \/ token = "cont"
  BY <1>3, AbsorbKeeps
<1> HIDE DEF e
<1>5. ASSUME NEW i \in 1..Len(e.text), e.text[i] = "wide"
      PROVE  \E j \in 1..Len(more) : more[j] \in {"lead", "cont"}
  <2>1. CASE token = "cont"
    BY <1>2, <2>1
  <2>2. CASE token # "cont"
    <3>1. i \in 1..Len(d.text) /\ d.text[i] = "wide"
      BY <1>3, <1>4, <1>5, <2>2 DEF Decoded
    <3>2. PICK j \in 1..Len(ids) : ids[j] \in {"lead", "cont"}
      BY <1>3, <3>1
    <3> QED  BY <1>2, <3>2
  <2> QED  BY <2>1, <2>2
<1> QED  BY <1>1, <1>4, <1>5 DEF HeldWell, more

LEMMA HeldStarts == HeldWell(<<>>) /\ Decode(<<>>) = <<>>
<1>1. Blank \in Decoded /\ Blank.half = FALSE /\ Blank.text = <<>> /\ Len(<<>>) = 0
  BY DEF Blank, Decoded
<1> QED  BY <1>1, DecoderStarts DEF HeldWell, Decode, Held

\* All tokens of an answer that came at once.
LEMMA HeldAlways ==
  ASSUME NEW n \in Nat, NEW ids \in [1..n -> AllTokens]
  PROVE  HeldWell(ids)
<1> DEFINE upTo(k) == [i \in 1..k |-> ids[i]]
           S == {k \in Nat : k <= n => HeldWell(upTo(k))}
<1>1. 0 \in S
  <2>1. upTo(0) = <<>>
    OBVIOUS
  <2> QED  BY <2>1, HeldStarts
<1>2. ASSUME NEW k \in S PROVE k + 1 \in S
  <2> SUFFICES ASSUME k + 1 <= n PROVE HeldWell(upTo(k + 1))
    OBVIOUS
  <2>1. upTo(k) \in Seq(AllTokens) /\ ids[k + 1] \in AllTokens
    OBVIOUS
  <2>2. upTo(k + 1) = Append(upTo(k), ids[k + 1])
    OBVIOUS
  <2>3. HeldWell(upTo(k))
    OBVIOUS
  <2> HIDE DEF upTo
  <2> DEFINE before == upTo(k)
             token == ids[k + 1]
  <2>4. before \in Seq(AllTokens) /\ token \in AllTokens /\ HeldWell(before)
    BY <2>1, <2>3
  <2> HIDE DEF before, token
  <2>5. HeldWell(Append(before, token))
    BY <2>4, HeldStep
  <2> QED  BY <2>2, <2>5 DEF before, token
<1>3. S = Nat
  <2> HIDE DEF S
  <2>1. S \in SUBSET Nat
    BY DEF S
  <2> QED  BY <1>1, <1>2, <2>1, Induction
<1>4. n \in S
  <2> HIDE DEF S
  <2> QED  BY <1>3
<1>5. HeldWell(upTo(n))
  <2> HIDE DEF upTo
  <2> QED  BY <1>4
<1>6. upTo(n) = ids
  OBVIOUS
<1> QED  BY <1>5, <1>6

-----------------------------------------------------------------------------
(* Stop sequences.                                                         *)

\* The occurrences of the stop sequence, position by position.
LEMMA Occurrence ==
  ASSUME NEW text \in Seq(Glyphs), NEW n \in Nat
  PROVE  OccursAt(text, n)
           <=> /\ n + Len(StopSequence) <= Len(text)
               /\ \A i \in 1..Len(StopSequence) : text[n + i] = StopSequence[i]
<1> DEFINE m == Len(StopSequence)
           part == SubSeq(text, n + 1, n + m)
<1>1. /\ m \in Nat \ {0} /\ Len(text) \in Nat
      /\ StopSequence \in Seq({"char", "stop"}) /\ StopSequence \in Seq(Glyphs)
  BY StopAssumption DEF Glyphs
<1>2. CASE n + m <= Len(text)
  <2>1. \A i \in n + 1..n + m : text[i] \in Glyphs
    BY <1>1, <1>2
  <2>2. /\ part \in Seq(Glyphs) /\ Len(part) = m
        /\ \A i \in 1..m : part[i] = text[n + i]
    <3>1. /\ part \in Seq(Glyphs)
          /\ Len(part) = IF n + 1 <= n + m THEN (n + m) - (n + 1) + 1 ELSE 0
          /\ \A i \in 1..(n + m) - (n + 1) + 1 : part[i] = text[(n + 1) + i - 1]
      <4> HIDE DEF m
      <4> QED  BY <1>1, <2>1, SubSeqProperties
    <3>2. (n + m) - (n + 1) + 1 = m /\ \A i \in 1..m : (n + 1) + i - 1 = n + i
      BY <1>1
    <3> HIDE DEF part
    <3> QED  BY <1>1, <3>1, <3>2
  <2>3. part = StopSequence <=> \A i \in 1..m : part[i] = StopSequence[i]
    <3> HIDE DEF part
    <3> QED  BY <1>1, <2>2, SeqEqual
  <2> QED  BY <1>2, <2>2, <2>3 DEF OccursAt
<1>3. CASE ~(n + m <= Len(text))
  BY <1>3 DEF OccursAt
<1> QED  BY <1>2, <1>3

\* A text that differs from a clean one in replaced characters only is clean.
LEMMA AlikeIsClean ==
  ASSUME NEW mine \in Seq(Glyphs), NEW text \in Seq(Glyphs),
         Alike(mine, text), ~Contains(text)
  PROVE  ~Contains(mine)
<1> SUFFICES ASSUME NEW n \in 0..Len(mine), OccursAt(mine, n) PROVE FALSE
  BY DEF Contains
<1>1. n \in Nat /\ n \in 0..Len(text) /\ Len(text) = Len(mine)
  BY DEF Alike
<1>2. /\ n + Len(StopSequence) <= Len(mine)
      /\ \A i \in 1..Len(StopSequence) : mine[n + i] = StopSequence[i]
  BY <1>1, Occurrence
<1>3. ASSUME NEW i \in 1..Len(StopSequence) PROVE text[n + i] = StopSequence[i]
  <2>1. StopSequence[i] \in {"char", "stop"} /\ Len(StopSequence) \in Nat
    BY StopAssumption
  <2>2. n + i \in 1..Len(text)
    BY <1>1, <1>2, <2>1
  <2> QED  BY <1>2, <2>1, <2>2 DEF Alike
<1>4. OccursAt(text, n)
  BY <1>1, <1>2, <1>3, Occurrence
<1> QED  BY <1>1, <1>4 DEF Contains

\* What _first_stop_cut leaves holds no stop sequence.
LEMMA CutIsClean ==
  ASSUME NEW text \in Seq(Glyphs)
  PROVE  Cut(text) \in Seq(Glyphs) /\ ~Contains(Cut(text))
<1>1. CASE ~Contains(text)
  BY <1>1 DEF Cut
<1>2. CASE Contains(text)
  <2> DEFINE First(n) == OccursAt(text, n) /\ \A m \in 0..n - 1 : ~OccursAt(text, m)
             S == {n \in Nat : \A m \in 0..n : ~OccursAt(text, m)}
  <2>1. \E n \in 0..Len(text) : First(n)
    <3> SUFFICES ASSUME \A n \in 0..Len(text) : ~First(n) PROVE FALSE
      OBVIOUS
    <3>0. \A n \in Nat : OccursAt(text, n) => n \in 0..Len(text)
      BY Occurrence, StopAssumption
    <3>1. 0 \in S
      BY <3>0
    <3>2. \A n \in S : n + 1 \in S
      <4> TAKE n \in S
      <4>1. \A m \in 0..n : ~OccursAt(text, m)
        OBVIOUS
      <4>2. ~OccursAt(text, n + 1)
        <5>1. n + 1 \in Nat /\ (n + 1) - 1 = n
          OBVIOUS
        <5> SUFFICES ASSUME OccursAt(text, n + 1) PROVE FALSE
          OBVIOUS
        <5>2. n + 1 \in 0..Len(text)
          BY <3>0, <5>1
        <5>3. First(n + 1)
          BY <4>1, <5>1
        <5> QED  BY <5>2, <5>3
      <4> QED  BY <4>1, <4>2
    <3>3. S = Nat
      <4> HIDE DEF S
      <4>1. S \in SUBSET Nat
        BY DEF S
      <4> QED  BY <3>1, <3>2, <4>1, Induction
    <3>4. PICK n \in 0..Len(text) : OccursAt(text, n)
      BY <1>2 DEF Contains
    <3>5. n \in S
      <4> HIDE DEF S
      <4> QED  BY <3>3
    <3> QED  BY <3>4, <3>5
  <2> DEFINE first == CHOOSE n \in 0..Len(text) : First(n)
  <2>2. first \in 0..Len(text) /\ First(first)
    BY <2>1
  <2>3. Cut(text) = SubSeq(text, 1, first)
    BY <1>2 DEF Cut
  <2> HIDE DEF first
  <2> DEFINE cut == SubSeq(text, 1, first)
  <2>4. cut \in Seq(Glyphs) /\ Len(cut) = first /\ \A i \in 1..first : cut[i] = text[i]
    BY <2>2
  <2> HIDE DEF cut
  <2>5. ASSUME NEW n \in 0..Len(cut), OccursAt(cut, n) PROVE FALSE
    <3>1. n \in Nat /\ Len(StopSequence) \in Nat \ {0}
      BY <2>2, <2>4, StopAssumption
    <3>2. /\ n + Len(StopSequence) <= first
          /\ \A i \in 1..Len(StopSequence) : cut[n + i] = StopSequence[i]
      BY <2>4, <2>5, <3>1, Occurrence
    <3>3. \A i \in 1..Len(StopSequence) : text[n + i] = StopSequence[i]
      BY <2>2, <2>4, <3>1, <3>2
    <3>4. OccursAt(text, n)
      BY <2>2, <3>1, <3>2, <3>3, Occurrence
    <3>5. n \in 0..first - 1
      BY <2>2, <3>1, <3>2
    <3> QED  BY <2>2, <3>4, <3>5
  <2> QED  BY <2>3, <2>4, <2>5 DEF Contains, cut
<1> QED  BY <1>1, <1>2

-----------------------------------------------------------------------------
(* Each step of a request.                                                 *)

\* The part of a longer text the caller has not got completes what he has.
LEMMA SuffixCompletes ==
  ASSUME NEW mine \in Seq(Glyphs), NEW old \in Seq(Glyphs), NEW new \in Seq(Glyphs),
         Alike(mine, old), Len(old) <= Len(new),
         \A i \in 1..Len(old) : \/ new[i] = old[i]
                                \/ old[i] = "?" /\ new[i] = "wide"
  PROVE  LET more == mine \o SubSeq(new, Len(mine) + 1, Len(new))
         IN more \in Seq(Glyphs) /\ Len(more) = Len(new) /\ Alike(more, new)
<1> DEFINE rest == SubSeq(new, Len(mine) + 1, Len(new))
           more == mine \o rest
<1>1. /\ Len(mine) = Len(old) /\ Len(mine) \in Nat /\ Len(new) \in Nat
      /\ \A i \in 1..Len(mine) : mine[i] = old[i] \/ (mine[i] = "?" /\ old[i] = "wide")
  BY DEF Alike
<1>2. /\ rest \in Seq(Glyphs) /\ Len(rest) = Len(new) - Len(mine)
      /\ \A i \in 1..Len(rest) : rest[i] = new[Len(mine) + i]
  <2>1. \A i \in Len(mine) + 1..Len(new) : new[i] \in Glyphs
    BY <1>1
  <2>2. /\ rest \in Seq(Glyphs)
        /\ Len(rest) = IF Len(mine) + 1 <= Len(new)
                       THEN Len(new) - (Len(mine) + 1) + 1 ELSE 0
        /\ \A i \in 1..Len(new) - (Len(mine) + 1) + 1 : rest[i] = new[(Len(mine) + 1) + i - 1]
    BY <1>1, <2>1, SubSeqProperties
  <2> HIDE DEF rest
  <2>3. Len(rest) = Len(new) - Len(mine)
    BY <1>1, <2>2
  <2>4. ASSUME NEW i \in 1..Len(rest) PROVE rest[i] = new[Len(mine) + i]
    <3>1. /\ i \in 1..Len(new) - (Len(mine) + 1) + 1
          /\ (Len(mine) + 1) + i - 1 = Len(mine) + i
      BY <1>1, <2>3
    <3> QED  BY <2>2, <3>1
  <2> QED  BY <2>2, <2>3, <2>4
<1> HIDE DEF rest
<1>3. /\ more \in Seq(Glyphs) /\ Len(more) = Len(new)
      /\ \A i \in 1..Len(mine) : more[i] = mine[i]
      /\ \A i \in Len(mine) + 1..Len(new) : more[i] = rest[i - Len(mine)]
  BY <1>1, <1>2
<1> HIDE DEF more
<1>4. ASSUME NEW i \in 1..Len(new)
      PROVE  more[i] = new[i] \/ (more[i] = "?" /\ new[i] = "wide")
  <2>1. CASE i <= Len(mine)
    BY <1>1, <1>3, <2>1
  <2>2. CASE ~(i <= Len(mine))
    <3>1. i - Len(mine) \in 1..Len(rest) /\ Len(mine) + (i - Len(mine)) = i
          /\ i \in Len(mine) + 1..Len(new)
      BY <1>1, <1>2, <2>2
    <3> QED  BY <1>2, <1>3, <3>1
  <2> QED  BY <2>1, <2>2
<1> QED  BY <1>3, <1>4 DEF Alike, more, rest

LEMMA EmptyIsClean == Alike(<<>>, <<>>) /\ ~Contains(<<>>)
<1>1. \A n \in 0..0 : ~OccursAt(<<>>, n)
  BY StopAssumption DEF OccursAt
<1> QED  BY <1>1 DEF Alike, Contains

LEMMA InitText == Init => TextInv
<1> SUFFICES ASSUME Init PROVE TextInv
  OBVIOUS
<1>1. generated = <<>> /\ emitted = 0 /\ out = <<>> /\ pc = "start"
  BY DEF Init
<1> QED  BY <1>1, HeldStarts, EmptyIsClean DEF TextInv, Streamed

LEMMA StepText ==
  ASSUME Counts, TextInv, [Next]_vars
  PROVE  TextInv'
<1> USE DEF TextInv
<1>0. generated \in Seq(AllTokens) /\ out \in Seq(Glyphs)
  BY VocabularyAssumption DEF Counts
<1>s. UNCHANGED <<generated, emitted, out>> => (Streamed' <=> Streamed)
  BY DEF Streamed
<1>1. CASE Begin
  <2>1. request.draft \in AllDrafts
    BY DraftsAssumption DEF Counts, Request
  <2>2. /\ UNCHANGED <<request, generated, emitted, out>> /\ Streamed
        /\ pc' \in {"failed", "prefill", "speculate"}
        /\ pc' = "speculate" => request.draft = "loaded"
    BY <1>1, <2>1 DEF Begin, AllDrafts
  <2> QED  BY <1>s, <2>2
<1>2. CASE Prefill
  BY <1>2, <1>s DEF Prefill, Forward
<1>3. CASE SampleEos
  BY <1>3, <1>s DEF SampleEos
<1>4. CASE Sample
  <2>1. PICK token \in Vocabulary \ {"eos"} :
          /\ generated' = Append(generated, token)
          /\ LET text == Decode(Append(generated, token))
             IN IF Hits(text)
                THEN pc' = "failed" /\ UNCHANGED <<emitted, out>>
                ELSE /\ pc' = "yield"
                     /\ out' = out \o Suffix(text)
                     /\ emitted' = Len(text)
    BY <1>4 DEF Sample
  <2> DEFINE old == Decode(generated)
             new == Decode(Append(generated, token))
  <2>2. token \in AllTokens
    BY <2>1, VocabularyAssumption
  <2>3. HeldWell(generated')
    BY <1>0, <2>1, <2>2, HeldStep
  <2>4. /\ old \in Seq(Glyphs) /\ new \in Seq(Glyphs) /\ Len(old) <= Len(new)
        /\ \A i \in 1..Len(old) : new[i] = old[i] \/ (old[i] = "?" /\ new[i] = "wide")
    <3> DEFINE d == Held(generated)
               e == Absorb(d, token)
    <3>1. e = Held(Append(generated, token))
      BY <1>0, <2>2, DecoderStep
    <3>2. d \in Decoded /\ (d.half => d.text # <<>> /\ d.text[Len(d.text)] = "?")
      BY DEF HeldWell
    <3>3. old = d.text /\ new = e.text
      BY <3>1 DEF Decode, Held
    <3> HIDE DEF d, old, new
    <3>4. /\ e \in Decoded /\ Len(d.text) <= Len(e.text)
          /\ \A i \in 1..Len(d.text) :
               e.text[i] = d.text[i] \/ (d.text[i] = "?" /\ e.text[i] = "wide")
      BY <2>2, <3>2, AbsorbKeeps
    <3> HIDE DEF e
    <3> QED  BY <3>2, <3>3, <3>4 DEF Decoded
  <2>5. Decode(generated)' = new
    BY <2>1
  <2>6. Streamed /\ pc = "sample"
    BY <1>4 DEF Sample
  <2> HIDE DEF old, new
  <2>7. Alike(out, old) /\ emitted = Len(out)
    BY <2>6 DEF Streamed, old
  <2>8. CASE Hits(new)
    <3>1. pc' = "failed" /\ out' = out
      BY <2>1, <2>8 DEF new
    <3> QED  BY <2>3, <3>1
  <2>9. CASE ~Hits(new)
    <3>1. /\ pc' = "yield" /\ out' = out \o SubSeq(new, Len(out) + 1, Len(new))
          /\ emitted' = Len(new)
      BY <2>1, <2>7, <2>9 DEF new, Suffix
    <3>2. out' \in Seq(Glyphs) /\ Len(out') = Len(new) /\ Alike(out', new)
      BY <1>0, <2>4, <2>7, <3>1, SuffixCompletes
    <3>3. ~Contains(new)
      BY <2>9 DEF Hits
    <3>4. ~Contains(out')
      BY <2>4, <3>2, <3>3, AlikeIsClean
    <3>5. Streamed'
      BY <2>5, <3>1, <3>2, <3>3 DEF Streamed
    <3> QED  BY <2>3, <3>1, <3>2, <3>4, <3>5
  <2> QED  BY <2>8, <2>9
<1>5. CASE Resume
  BY <1>5, <1>s DEF Resume, Forward
<1>6. CASE Abandon
  BY <1>6, <1>s DEF Abandon
<1>7. CASE Speculate
  <2>0. PICK n \in 0..budget :
          \E ids \in [1..n -> Vocabulary] :
             generated' = ids /\ out' = IF n = 0 THEN out ELSE SpeculativeText(ids)
    BY <1>7 DEF Speculate
  <2>1. PICK ids \in [1..n -> Vocabulary] :
          generated' = ids /\ out' = IF n = 0 THEN out ELSE SpeculativeText(ids)
    BY <2>0
  <2>2. n \in Nat /\ ids \in [1..n -> AllTokens]
    BY VocabularyAssumption DEF Counts
  <2>3. HeldWell(ids)
    BY <2>2, HeldAlways
  <2>4. Decode(ids) \in Seq(Glyphs)
    BY <2>3 DEF HeldWell, Decode, Held, Decoded
  <2>5. SpeculativeText(ids) \in Seq(Glyphs) /\ ~Contains(SpeculativeText(ids))
    BY <2>4, CutIsClean DEF SpeculativeText
  <2>6. pc' = "done" /\ request' = request /\ request.draft = "loaded"
    BY <1>7 DEF Speculate
  <2> QED  BY <2>1, <2>3, <2>5, <2>6
<1>8. CASE UNCHANGED vars
  BY <1>8, <1>s DEF vars
<1> QED
  BY <1>1, <1>2, <1>3, <1>4, <1>5, <1>6, <1>7, <1>8 DEF Next

LEMMA TextInvariance == Spec => [](Counts /\ TextInv)
<1>1. Init => Counts /\ TextInv
  BY InitCounts, InitText
<1>2. Counts /\ TextInv /\ [Next]_vars => (Counts /\ TextInv)'
  BY StepCounts, StepText
<1> QED  BY <1>1, <1>2, PTL DEF Spec

\* No caller ever holds a whole stop sequence, in how many tokens and pieces it
\* may come, and however the answer is made (engine.py:286-294, 324-334).
THEOREM StopsNeverLeak == Spec => []NoStopLeaks
<1>1. TextInv => NoStopLeaks
  BY DEF TextInv, NoStopLeaks
<1> QED  BY <1>1, TextInvariance, PTL

\* The deltas of a finished answer join to the text of its tokens, unless one
\* of its characters came in two tokens (engine.py:291-294).
THEOREM DeltasJoin == Spec => []JoinedIsText
<1>1. Counts /\ TextInv => JoinedIsText
  <2> SUFFICES ASSUME Counts, TextInv, pc = "done", request.draft = "off", ~Split
               PROVE  out = Decode(generated)
    BY DEF JoinedIsText
  <2>1. Streamed /\ HeldWell(generated) /\ out \in Seq(Glyphs)
    BY DEF TextInv
  <2> DEFINE text == Decode(generated)
  <2>2. text \in Seq(Glyphs) /\ \A i \in 1..Len(text) : text[i] # "wide"
    <3> DEFINE d == Held(generated)
    <3>1. text = d.text
      BY DEF Decode, Held
    <3>2. d \in Decoded /\ \A i \in 1..Len(d.text) : d.text[i] # "wide"
      BY <2>1 DEF HeldWell, Split
    <3> HIDE DEF d, text
    <3> QED  BY <3>1, <3>2 DEF Decoded
  <2>3. Alike(out, text)
    BY <2>1 DEF Streamed
  <2> HIDE DEF text
  <2>4. Len(out) = Len(text) /\ \A i \in 1..Len(out) : out[i] = text[i]
    BY <2>2, <2>3 DEF Alike
  <2>5. out = text
    BY <2>1, <2>2, <2>4, SeqEqual
  <2> QED  BY <2>5 DEF text
<1> QED  BY <1>1, TextInvariance, PTL
===============================================================================
