---------------------------- MODULE Serving_proofs ----------------------------
(***************************************************************************)
(* What the server promises for every set of requests and endpoints:       *)
(* types, the lock, and what a client that stays has received; and what    *)
(* the batcher promises each request, for every model, vocabulary,         *)
(* sampler, prompt and budget, however many requests there are.            *)
(***************************************************************************)
EXTENDS Serving, Batching, SequenceTheorems, TLAPS

\* Where a request thread is says what its client has got, and what text there
\* is to send.
Progress(r) ==
  /\ pc[r] \in {"header", "write"} => Streams(r)
  /\ pc[r] = "final" /\ Chat(r) => pieces[r].visible
  /\ client[r] # "gone" =>
       /\ pc[r] \in {"idle", "rejected", "header"} => wire[r].status = 0
       /\ pc[r] \in {"pull", "write", "budget", "final", "failed"}
            => wire[r].status = (IF Streams(r) THEN 1 ELSE 0)
       /\ pc[r] # "done" => wire[r].ends = 0
       /\ pc[r] = "done" /\ ~NativeStream(r)
            => wire[r].status = 1 /\ wire[r].ends = 1
       /\ pc[r] = "done" /\ Chat(r) => wire[r].visible

\* A thread that is through has no live generator, and a context request never
\* had one.
NoGenerator ==
  \A r \in Requests :
    /\ pc[r] \in {"idle", "rejected"} => chunks[r] = "none"
    /\ pc[r] = "header" => chunks[r] = "new"
    /\ pc[r] \in {"budget", "final", "failed", "done"} => chunks[r] \in {"none", "finished"}

LockHolder == \A r \in Requests : lock = r <=> chunks[r] \in {"running", "suspended"}

LInv == TypeOK /\ NoGenerator /\ LockHolder

\* Types and the lock: each step of a thread changes its own generator only.
LEMMA LockInvariant == Spec => []LInv
<1>1. Init => LInv
  BY NobodyAssumption, PiecesAssumption
  DEF Init, LInv, TypeOK, NoGenerator, LockHolder, Nothing
<1>2. LInv /\ [Next]_vars => LInv'
  <2> SUFFICES ASSUME LInv, [Next]_vars PROVE LInv'
    OBVIOUS
  <2> USE DEF LInv, TypeOK, NoGenerator, LockHolder
  <2>1. ASSUME NEW r \in Requests, Arrive(r) PROVE LInv'
    <3>1. TypeOK'
      BY <2>1, ZenonT(60) DEF Arrive, Goto
    <3>2. NoGenerator'
      BY <2>1 DEF Arrive, Goto
    <3>3. LockHolder'
      BY <2>1 DEF Arrive, Goto
    <3> QED
      BY <3>1, <3>2, <3>3
  <2>2. ASSUME NEW r \in Requests, Rejected(r) PROVE LInv'
    BY <2>2 DEF Rejected, LastWrite, Delivers, Goto
  <2>3. ASSUME NEW r \in Requests, Header(r) PROVE LInv'
    <3>1. TypeOK'
      <4>1. CASE Delivers(r, 1, FALSE, 0) /\ Goto(r, "pull") /\ UNCHANGED chunks
        BY <2>3, <4>1 DEF Header, Delivers, Goto
      <4>2. CASE Raises(r)
                 /\ Goto(r, "done") /\ chunks' = [chunks EXCEPT ![r] = "finished"]
        BY <2>3, <4>2 DEF Header, Raises, Goto
      <4> QED
        BY <2>3, <4>1, <4>2 DEF Header
    <3>2. NoGenerator'
      BY <2>3 DEF Header, Delivers, Raises, Goto
    <3>3. LockHolder'
      BY <2>3 DEF Header, Delivers, Raises, Goto
    <3> QED
      BY <3>1, <3>2, <3>3
  <2>4. ASSUME NEW r \in Requests, Refuse(r) PROVE LInv'
    BY <2>4 DEF Refuse, Goto
  <2>5. ASSUME NEW r \in Requests, Acquire(r) PROVE LInv'
    BY <2>5, NobodyAssumption DEF Acquire
  <2>6. ASSUME NEW r \in Requests, Yield(r) PROVE LInv'
    <3>1. TypeOK'
      <4>1. pieces' \in [Requests -> [count : 0..MaxPieces, visible : BOOLEAN]]
        <5>1. PICK visible \in BOOLEAN :
                pieces' = [pieces EXCEPT ![r] = [count |-> @.count + 1,
                                                 visible |-> @.visible \/ visible]]
          BY <2>6 DEF Yield
        <5>2. pieces[r].count + 1 \in 0..MaxPieces
          BY <2>6, PiecesAssumption DEF Yield
        <5>3. (pieces[r].visible \/ visible) \in BOOLEAN
          BY Zenon
        <5>4. [count |-> pieces[r].count + 1, visible |-> pieces[r].visible \/ visible]
                \in [count : 0..MaxPieces, visible : BOOLEAN]
          BY <5>2, <5>3, Zenon
        <5> QED
          BY <5>1, <5>4, Zenon
      <4>2. CASE Streams(r)
        BY <2>6, <4>1, <4>2, ZenonT(60) DEF Yield, Goto
      <4>3. CASE ~Streams(r)
        BY <2>6, <4>1, <4>3 DEF Yield, Goto
      <4> QED
        BY <4>2, <4>3
    <3>2. NoGenerator'
      BY <2>6, PiecesAssumption DEF Yield, Goto
    <3>3. LockHolder'
      BY <2>6, PiecesAssumption DEF Yield, Goto
    <3> QED
      BY <3>1, <3>2, <3>3
  <2>7. ASSUME NEW r \in Requests, Return(r) \/ Raise(r) PROVE LInv'
    <3>1. TypeOK'
      BY <2>7, NobodyAssumption, ZenonT(60) DEF Return, Raise, Ends, Goto
    <3>2. NoGenerator'
      BY <2>7, NobodyAssumption DEF Return, Raise, Ends, Goto
    <3>3. LockHolder'
      BY <2>7, NobodyAssumption DEF Return, Raise, Ends, Goto
    <3> QED
      BY <3>1, <3>2, <3>3
  <2>8. ASSUME NEW r \in Requests, Write(r) PROVE LInv'
    <3>1. TypeOK'
      <4>1. wire' \in [Requests -> [status : Nat, visible : BOOLEAN, ends : Nat]]
        BY <2>8 DEF Write, Delivers, Raises
      <4> QED
        BY <2>8, <4>1, ZenonT(60) DEF Write, Goto
    <3>2. NoGenerator'
      BY <2>8, NobodyAssumption DEF Write, Delivers, Raises, Goto
    <3>3. LockHolder'
      BY <2>8, NobodyAssumption DEF Write, Delivers, Raises, Goto
    <3> QED
      BY <3>1, <3>2, <3>3
  <2>9. ASSUME NEW r \in Requests, Budget(r) PROVE LInv'
    BY <2>9, ZenonT(60) DEF Budget, Goto
  <2>10. ASSUME NEW r \in Requests, Final(r) \/ Failed(r) PROVE LInv'
    BY <2>10, SMTT(30) DEF Final, Failed, LastWrite, Delivers, Goto
  <2>11. ASSUME NEW r \in Requests, Stall(r) \/ Catch(r) \/ HangUp(r) PROVE LInv'
    BY <2>11 DEF Stall, Catch, HangUp, Client
  <2>12. CASE UNCHANGED vars
    BY <2>12 DEF vars
  <2> QED
    BY <2>1, <2>2, <2>3, <2>4, <2>5, <2>6, <2>7, <2>8, <2>9, <2>10, <2>11, <2>12
    DEF Next, RequestStep
<1> QED
  BY <1>1, <1>2, PTL DEF Spec

\* The variables keep their types, for any number of requests.
THEOREM TypeCorrect == Spec => []TypeOK
<1>1. LInv => TypeOK
  BY DEF LInv
<1> QED
  BY <1>1, LockInvariant, PTL

\* The Generator's lock is held by the one generator that has begun and not
\* ended, and never by a request that is done (engine.py:234).
THEOREM LockIsFollowed == Spec => []LockFollowsGenerator
<1>1. LInv => LockFollowsGenerator
  BY DEF LInv, NoGenerator, LockHolder, LockFollowsGenerator
<1> QED
  BY <1>1, LockInvariant, PTL

\* What a client that stays has received, at every place of its thread.
LEMMA ProgressInvariant == Spec => [](\A r \in Requests : Progress(r))
<1> DEFINE PInv == \A r \in Requests : Progress(r)
<1>1. Init => PInv
  <2> SUFFICES ASSUME Init, NEW r \in Requests PROVE Progress(r)
    OBVIOUS
  <2>1. pc[r] = "idle" /\ wire[r] = [status |-> 0, visible |-> FALSE, ends |-> 0]
    BY DEF Init, Nothing
  <2> QED
    BY <2>1 DEF Progress
<1>2. TypeOK /\ PInv /\ [Next]_vars => PInv'
  <2> SUFFICES ASSUME TypeOK, PInv, [Next]_vars, NEW s \in Requests PROVE Progress(s)'
    OBVIOUS
  <2> USE DEF TypeOK, Progress, Streams, Chat, NativeStream
  <2>1. ASSUME NEW r \in Requests, Arrive(r) PROVE Progress(s)'
    <3>1. CASE s = r
      <4>1. pc[r] = "idle" /\ pc'[r] \in {"rejected", "budget", "header", "pull"}
            /\ (pc'[r] = "header" => Streams(r))
            /\ (pc'[r] \in {"budget", "pull"} => ~Streams(r))
        <5>1. endpoint[r].family = "context" => ~endpoint[r].stream
          BY EndpointsAssumption DEF AllEndpoints
        <5> QED
          BY <2>1, <5>1 DEF Arrive, Goto
      <4> QED
        BY <2>1, <3>1, <4>1 DEF Arrive
    <3>2. CASE s # r
      BY <2>1, <3>2 DEF Arrive, Goto
    <3> QED
      BY <3>1, <3>2
  <2>2. ASSUME NEW r \in Requests, Rejected(r) PROVE Progress(s)'
    BY <2>2 DEF Rejected, LastWrite, Delivers, Goto, Reads
  <2>3. ASSUME NEW r \in Requests, Header(r) PROVE Progress(s)'
    BY <2>3, SMTT(30) DEF Header, Delivers, Raises, Goto, Reads
  <2>4. ASSUME NEW r \in Requests, Refuse(r) PROVE Progress(s)'
    BY <2>4 DEF Refuse, Goto
  <2>5. ASSUME NEW r \in Requests, Acquire(r) PROVE Progress(s)'
    BY <2>5 DEF Acquire
  <2>6. ASSUME NEW r \in Requests, Yield(r) PROVE Progress(s)'
    BY <2>6 DEF Yield, Goto
  <2>7. ASSUME NEW r \in Requests, Return(r) \/ Raise(r) PROVE Progress(s)'
    <3>1. PICK place \in {"budget", "final", "failed"} :
            Ends(r, place) /\ (place = "final" /\ Chat(r) => pieces[r].visible)
      BY <2>7 DEF Return, Raise
    <3> QED
      BY <3>1 DEF Ends, Goto
  <2>8. ASSUME NEW r \in Requests, Write(r) PROVE Progress(s)'
    BY <2>8 DEF Write, Delivers, Raises, Goto, Reads
  <2>9. ASSUME NEW r \in Requests, Budget(r) PROVE Progress(s)'
    BY <2>9 DEF Budget, Goto
  <2>10. ASSUME NEW r \in Requests, Final(r) PROVE Progress(s)'
    BY <2>10 DEF Final, LastWrite, Delivers, Goto, Reads
  <2>11. ASSUME NEW r \in Requests, Failed(r) PROVE Progress(s)'
    BY <2>11 DEF Failed, LastWrite, Delivers, Goto, Reads
  <2>12. ASSUME NEW r \in Requests, Stall(r) \/ Catch(r) \/ HangUp(r)
         PROVE Progress(s)'
    BY <2>12, ZenonT(60) DEF Stall, Catch, HangUp, Client
  <2>13. CASE UNCHANGED vars
    BY <2>13 DEF vars
  <2> QED
    BY <2>1, <2>2, <2>3, <2>4, <2>5, <2>6, <2>7, <2>8, <2>9, <2>10, <2>11, <2>12, <2>13
    DEF Next, RequestStep
<1> QED
  BY <1>1, <1>2, TypeCorrect, PTL DEF Spec

\* A client that stays gets one status line and one end of its answer, on every
\* endpoint but the native stream.
THEOREM OneAnswer == Spec => []AnswersOnce
<1>1. (\A r \in Requests : Progress(r)) => AnswersOnce
  BY DEF Progress, AnswersOnce
<1> QED
  BY <1>1, ProgressInvariant, PTL

\* A chat client that stays gets visible text, whatever the model writes.
THEOREM ChatHasText == Spec => []NeverBlank
<1>1. (\A r \in Requests : Progress(r)) => NeverBlank
  BY DEF Progress, NeverBlank
<1> QED
  BY <1>1, ProgressInvariant, PTL

-----------------------------------------------------------------------------
(* The batcher.                                                            *)

Request == [token_ids : Seq(Vocabulary), max_new : Int,
            generated : Seq(Vocabulary), done : BOOLEAN]

BatchTypeOK ==
  /\ requests \in Seq(Request)
  /\ caches \in Seq(Seq(Vocabulary))
  /\ Len(caches) = Len(requests)
  /\ index \in Nat

\* What the next pass of an unfinished request is on: its cache and what is fed
\* are its whole text, unless its sampler has raised.
CacheIsText ==
  \A i \in DOMAIN requests \ ahead :
    ~requests[i].done =>
      caches[i] \o Fed(requests[i]) = requests[i].token_ids \o requests[i].generated

\* Each token of a request is one the sampler, set to c, may draw.
Drawn(r, c) ==
  \A k \in DOMAIN r.generated :
    r.generated[k] \in
      Candidates(Logits(r.token_ids \o SubSeq(r.generated, 1, k - 1)), c,
                 SubSeq(r.generated, 1, k - 1)) \ {Eos}

Limit(r) == Max({1, r.max_new})

Ended(r, c) ==
  r.done => \/ Len(r.generated) = Limit(r)
            \/ Eos \in Candidates(Logits(r.token_ids \o r.generated), c, r.generated)

Unfinished(r) == ~r.done => Len(r.generated) < Limit(r)

Good(r, c) == Drawn(r, c) /\ Ended(r, c) /\ Unfinished(r)

AllGood == \A i \in DOMAIN requests \ ahead : Good(requests[i], sampling)

\* What steps told, and what the step under way will tell, is of requests that
\* have ended.
Reported ==
  \A end \in told \cup finished :
    /\ end[1] \in DOMAIN requests
    /\ requests[end[1]].done /\ requests[end[1]].generated = end[2]

IInv == BatchTypeOK /\ CacheIsText /\ Reported /\ AllGood

-----------------------------------------------------------------------------
\* The sampler returns a token of the vocabulary.
LEMMA CandidatesAreTokens ==
  ASSUME NEW text, NEW config, NEW generated
  PROVE  Candidates(Logits(text), config, generated) \subseteq Vocabulary
<1> DEFINE scores == Penalized(Logits(text), generated, config.repetition_penalty)
<1>1. DOMAIN scores = Vocabulary
  BY DEF Penalized, Logits
<1>2. TopK(scores, config.top_k) \subseteq DOMAIN scores
  BY DEF TopK
<1>3. TopP(scores, TopK(scores, config.top_k), config.top_p) \subseteq TopK(scores, config.top_k)
  BY DEF TopP
<1> QED  BY <1>1, <1>2, <1>3 DEF Candidates

\* A request has room for one token, and for as many as it asks for.
LEMMA LimitIsLarger ==
  ASSUME NEW n \in Int
  PROVE  Max({1, n}) = IF n > 1 THEN n ELSE 1
<1>1. PICK m \in {1, n} : \A y \in {1, n} : m >= y
  BY (1 >= n \/ n >= 1)
<1>2. Max({1, n}) \in {1, n} /\ \A y \in {1, n} : Max({1, n}) >= y
  BY <1>1 DEF Max
<1> QED  BY <1>2

\* The text of a request grows by the token that is sampled.
LEMMA TextAfterToken ==
  ASSUME NEW r \in Request, NEW nxt \in Vocabulary
  PROVE  (r.token_ids \o r.generated) \o <<nxt>> = r.token_ids \o Append(r.generated, nxt)
<1> DEFINE a == r.token_ids
           b == r.generated
<1>1. a \in Seq(Vocabulary) /\ b \in Seq(Vocabulary)
  BY DEF Request
<1> HIDE DEF a, b
<1>2. Append(b, nxt) = b \o <<nxt>> /\ <<nxt>> \in Seq(Vocabulary)
  BY <1>1, AppendIsConcat
<1>3. (a \o b) \o <<nxt>> = a \o Append(b, nxt)
  BY <1>1, <1>2, ConcatAssociative
<1> QED  BY <1>3 DEF a, b

\* The text so far, fed whole or only by its last token.
LEMMA FedAfterToken ==
  ASSUME NEW r \in Request, r.generated # <<>>
  PROVE  Fed(r) = <<r.generated[Len(r.generated)]>>
BY DEF Fed, Last

\* A request that waits, with nothing written yet, is as it should be.
LEMMA NewRequest ==
  ASSUME NEW c, NEW prompt \in Seq(Vocabulary), NEW n \in Int,
         NEW r, r = [token_ids |-> prompt, max_new |-> n, generated |-> <<>>, done |-> FALSE]
  PROVE  r \in Request /\ Good(r, c)
<1>1. r \in Request
  BY DEF Request
<1>2. Unfinished(r)
  BY LimitIsLarger DEF Unfinished, Limit
<1> QED  BY <1>1, <1>2 DEF Good, Drawn, Ended

\* One more token that the sampler may draw leaves those before as they were.
LEMMA TokenAdded ==
  ASSUME NEW c, NEW r \in Request, Drawn(r, c),
         NEW nxt \in Candidates(Logits(r.token_ids \o r.generated), c, r.generated) \ {Eos},
         NEW s, s.token_ids = r.token_ids, s.generated = Append(r.generated, nxt)
  PROVE  Drawn(s, c)
<1> DEFINE g == r.generated
<1>1. g \in Seq(Vocabulary) /\ nxt \in Vocabulary
  BY CandidatesAreTokens DEF Request
<1>2. SUFFICES ASSUME NEW k \in DOMAIN s.generated
               PROVE  s.generated[k] \in
                        Candidates(Logits(r.token_ids \o SubSeq(s.generated, 1, k - 1)), c,
                                   SubSeq(s.generated, 1, k - 1)) \ {Eos}
  BY DEF Drawn
<1>3. k \in 1..Len(g) + 1
  BY <1>1
<1>4. SubSeq(Append(g, nxt), 1, k - 1) = SubSeq(g, 1, k - 1)
  BY <1>1, <1>3
<1>5. CASE k \in 1..Len(g)
  <2>1. Append(g, nxt)[k] = g[k] /\ k \in DOMAIN g
    BY <1>1, <1>5
  <2> QED  BY <2>1, <1>4 DEF Drawn
<1>6. CASE k = Len(g) + 1
  <2>1. Append(g, nxt)[k] = nxt /\ SubSeq(g, 1, k - 1) = g
    BY <1>1, <1>6
  <2> QED  BY <2>1, <1>4
<1> QED  BY <1>3, <1>5, <1>6

\* What Decode makes of the request it is at, r, is as it should be too.
LEMMA Decoded ==
  ASSUME NEW c, NEW r \in Request, Good(r, c), ~r.done,
         NEW nxt \in Candidates(Logits(r.token_ids \o r.generated), c, r.generated),
         NEW generated, generated = IF nxt = Eos THEN r.generated ELSE Append(r.generated, nxt),
         NEW done, done = (nxt = Eos \/ Len(r.generated) + 1 >= r.max_new),
         NEW s, s = [token_ids |-> r.token_ids, max_new |-> r.max_new,
                     generated |-> generated, done |-> done]
  PROVE  s \in Request /\ Good(s, c)
<1>1. nxt \in Vocabulary /\ r.generated \in Seq(Vocabulary) /\ r.max_new \in Int
  BY CandidatesAreTokens DEF Request
<1>2. generated \in Seq(Vocabulary) /\ done \in BOOLEAN
  BY <1>1
<1>3. /\ s \in Request
      /\ s.token_ids = r.token_ids /\ s.generated = generated
      /\ s.done = done /\ s.max_new = r.max_new
  BY <1>2 DEF Request
<1>4. Len(r.generated) < Limit(r) /\ Limit(s) = Limit(r) /\ Limit(r) \in Int
  BY <1>1, <1>3, LimitIsLarger DEF Good, Unfinished, Limit
<1>5. CASE nxt = Eos
  <2>1. generated = r.generated /\ done
    BY <1>5
  <2> QED  BY <1>3, <1>5, <2>1 DEF Good, Drawn, Ended, Unfinished
<1>6. CASE nxt # Eos
  <2>1. Drawn(s, c)
    BY <1>3, <1>6, TokenAdded DEF Good
  <2>2. Len(generated) = Len(r.generated) + 1 /\ Len(r.generated) \in Nat
    BY <1>1, <1>6
  <2>3. Limit(r) = IF r.max_new > 1 THEN r.max_new ELSE 1
    BY <1>1, LimitIsLarger DEF Limit
  <2>4. s.done <=> Len(r.generated) + 1 >= r.max_new
    BY <1>3, <1>6
  <2>5. Len(s.generated) = Len(r.generated) + 1
    BY <1>3, <2>2
  <2>6. s.done => Len(s.generated) = Limit(s)
    BY <1>1, <1>4, <2>2, <2>3, <2>4, <2>5
  <2>7. ~s.done => Len(s.generated) < Limit(s)
    BY <1>1, <1>4, <2>2, <2>3, <2>4, <2>5
  <2> QED  BY <1>3, <2>1, <2>6, <2>7 DEF Good, Ended, Unfinished
<1> QED  BY <1>5, <1>6

-----------------------------------------------------------------------------
\* What is fed to a model is text.
LEMMA FedIsText ==
  ASSUME NEW r \in Request
  PROVE  Fed(r) \in Seq(Vocabulary)
<1>1. r.token_ids \in Seq(Vocabulary) /\ r.generated \in Seq(Vocabulary)
  BY DEF Request
<1>2. ASSUME r.generated # <<>>
      PROVE  Last(r.generated) \in Vocabulary
  BY <1>1, <1>2 DEF Last
<1> QED  BY <1>1, <1>2 DEF Fed

\* The invariant is inductive: only Decode changes a request that waits, and
\* what it feeds completes the cache of that request to its text.
LEMMA Inductive == BatchSpec => []IInv
<1>1. BatchInit => IInv
  BY DEF BatchInit, IInv, AllGood, BatchTypeOK, CacheIsText, Reported
<1>2. IInv /\ [BatchNext]_batchVars => IInv'
  <2> SUFFICES ASSUME IInv, [BatchNext]_batchVars PROVE IInv'
    OBVIOUS
  <2>t. BatchTypeOK
    BY DEF IInv
  <2>r. /\ DOMAIN requests = 1..Len(requests) /\ DOMAIN caches = 1..Len(requests)
        /\ Len(requests) \in Nat
    BY <2>t DEF BatchTypeOK
  <2>1. CASE Add
    <3>1. PICK prompt \in Prompts, max_new \in Budgets :
            requests' = Append(requests, [token_ids |-> prompt, max_new |-> max_new,
                                          generated |-> <<>>, done |-> FALSE])
      BY <2>1 DEF Add
    <3> DEFINE new == [token_ids |-> prompt, max_new |-> max_new,
                       generated |-> <<>>, done |-> FALSE]
    <3>2. new \in Request /\ Good(new, sampling)
      BY RequestsAssumption, NewRequest
    <3> HIDE DEF new
    <3>3. /\ requests' \in Seq(Request) /\ Len(requests') = Len(requests) + 1
          /\ requests'[Len(requests) + 1] = new
          /\ \A i \in 1..Len(requests) : requests'[i] = requests[i]
      BY <2>t, <3>1, <3>2 DEF BatchTypeOK, new
    <3>4. /\ caches' \in Seq(Seq(Vocabulary)) /\ Len(caches') = Len(requests')
          /\ caches'[Len(requests) + 1] = <<>>
          /\ \A i \in 1..Len(requests) : caches'[i] = caches[i]
      BY <2>1, <2>t, <3>3 DEF Add, BatchTypeOK
    <3>5. UNCHANGED <<sampling, index, finished, told, ahead>>
      BY <2>1 DEF Add
    <3>6. BatchTypeOK'
      BY <2>t, <2>r, <3>3, <3>4, <3>5 DEF BatchTypeOK
    <3>7. CacheIsText'
      <4> SUFFICES ASSUME NEW i \in DOMAIN requests' \ ahead, ~requests'[i].done
                   PROVE  caches'[i] \o Fed(requests'[i])
                            = requests'[i].token_ids \o requests'[i].generated
        BY <3>5 DEF CacheIsText, Fed
      <4>1. i \in 1..Len(requests) \/ i = Len(requests) + 1
        BY <2>r, <3>3
      <4>2. CASE i \in 1..Len(requests)
        BY <4>2, <2>r, <3>3, <3>4 DEF IInv, CacheIsText
      <4>3. CASE i = Len(requests) + 1
        <5>1. prompt \in Seq(Vocabulary)
          BY RequestsAssumption
        <5>2. new.token_ids = prompt /\ new.generated = <<>> /\ Fed(new) = prompt
          BY DEF new, Fed
        <5>3. <<>> \o prompt = prompt \o <<>>
          BY <5>1
        <5> QED  BY <4>3, <5>2, <5>3, <3>3, <3>4
      <4> QED  BY <4>1, <4>2, <4>3
    <3>8. Reported'
      BY <2>r, <3>3, <3>5 DEF IInv, Reported
    <3>9. AllGood'
      <4> SUFFICES ASSUME NEW i \in DOMAIN requests' \ ahead PROVE Good(requests'[i], sampling)
        BY <3>5 DEF AllGood
      <4>1. i \in 1..Len(requests) \/ i = Len(requests) + 1
        BY <3>3
      <4> QED  BY <4>1, <2>r, <3>2, <3>3 DEF IInv, AllGood
    <3> QED  BY <3>6, <3>7, <3>8, <3>9 DEF IInv
  <2>2. CASE Step \/ Skip \/ PassRaises \/ StepReturns
    <3>1. UNCHANGED <<sampling, requests, caches, ahead>>
      BY <2>2 DEF Step, Skip, PassRaises, StepReturns
    <3>2. told' \cup finished' \subseteq told \cup finished
      BY <2>2 DEF Step, Skip, PassRaises, StepReturns
    <3>3. index' \in Nat
      BY <2>2, <2>t DEF Step, Skip, PassRaises, StepReturns, BatchTypeOK
    <3>4. BatchTypeOK'
      BY <2>t, <3>1, <3>2, <3>3 DEF BatchTypeOK
    <3>5. CacheIsText' /\ Reported'
      BY <3>1, <3>2 DEF IInv, CacheIsText, Reported, Fed
    <3>6. AllGood'
      BY <3>1 DEF IInv, AllGood
    <3> QED  BY <3>4, <3>5, <3>6 DEF IInv
  <2>3. CASE Decode
    <3> DEFINE r == requests[index]
               text == caches[index] \o Fed(r)
    <3>1. /\ index \in DOMAIN requests /\ ~r.done /\ r \in Request
          /\ index \notin ahead => Good(r, sampling)
      <4>1. index \in DOMAIN requests /\ ~r.done
        BY <2>3 DEF Decode, InLoop, At
      <4> QED  BY <4>1, <2>t, <2>r DEF IInv, AllGood, BatchTypeOK
    <3>2. index \notin ahead => text = r.token_ids \o r.generated
      BY <3>1 DEF IInv, CacheIsText
    <3>3. PICK nxt \in Candidates(Logits(text), sampling, r.generated) :
            LET generated == IF nxt = Eos THEN r.generated ELSE Append(r.generated, nxt)
                done == nxt = Eos \/ Len(r.generated) + 1 >= r.max_new
            IN /\ requests' = [requests EXCEPT ![index] =
                                  [token_ids |-> r.token_ids, max_new |-> r.max_new,
                                   generated |-> generated, done |-> done]]
               /\ finished' = IF done THEN finished \cup {<<index, generated>>} ELSE finished
      BY <2>3 DEF Decode, At
    <3> DEFINE generated == IF nxt = Eos THEN r.generated ELSE Append(r.generated, nxt)
               done == nxt = Eos \/ Len(r.generated) + 1 >= r.max_new
               s == [token_ids |-> r.token_ids, max_new |-> r.max_new,
                     generated |-> generated, done |-> done]
    <3>4. /\ s \in Request /\ generated \in Seq(Vocabulary)
          /\ index \notin ahead => Good(s, sampling)
      <4>1. nxt \in Vocabulary
        BY CandidatesAreTokens
      <4>2. s \in Request /\ generated \in Seq(Vocabulary)
        <5>1. r.generated \in Seq(Vocabulary)
          BY <3>1 DEF Request
        <5>2. generated \in Seq(Vocabulary) /\ done \in BOOLEAN
          BY <4>1, <5>1
        <5> HIDE DEF generated, done
        <5> QED  BY <3>1, <5>2 DEF Request
      <4>3. ASSUME index \notin ahead PROVE Good(s, sampling)
        <5>1. nxt \in Candidates(Logits(r.token_ids \o r.generated), sampling, r.generated)
          BY <3>2, <4>3
        <5>2. Good(r, sampling)
          BY <3>1, <4>3
        <5> HIDE DEF r, text
        <5> QED  BY <3>1, <5>1, <5>2, Decoded
      <4> QED  BY <4>2, <4>3
    <3>5. /\ requests' = [requests EXCEPT ![index] = s]
          /\ finished' = IF done THEN finished \cup {<<index, generated>>} ELSE finished
          /\ caches' = [caches EXCEPT ![index] = text]
          /\ index' = index + 1
          /\ UNCHANGED <<sampling, told, ahead>>
      BY <2>3, <3>3 DEF Decode, At
    <3>6. /\ s.token_ids = r.token_ids /\ s.generated = generated /\ (s.done <=> done)
          /\ generated \in Seq(Vocabulary) /\ r.generated \in Seq(Vocabulary)
          /\ r.token_ids \in Seq(Vocabulary)
      BY <3>1, <3>4 DEF Request
    <3>7. ~done => /\ generated = Append(r.generated, nxt)
                   /\ nxt \in Vocabulary
      BY CandidatesAreTokens
    <3> HIDE DEF s, text, generated, done
    <3>8. text \in Seq(Vocabulary)
      BY <2>t, <2>r, <3>1, FedIsText DEF BatchTypeOK, text
    <3>9. /\ requests' \in Seq(Request) /\ Len(requests') = Len(requests)
          /\ requests'[index] = s
          /\ \A i \in DOMAIN requests \ {index} : requests'[i] = requests[i]
          /\ DOMAIN requests' = DOMAIN requests
      BY <2>t, <2>r, <3>1, <3>4, <3>5 DEF BatchTypeOK
    <3>10. /\ caches' \in Seq(Seq(Vocabulary)) /\ Len(caches') = Len(requests)
           /\ caches'[index] = text
           /\ \A i \in DOMAIN requests \ {index} : caches'[i] = caches[i]
      BY <2>t, <2>r, <3>1, <3>5, <3>8 DEF BatchTypeOK
    <3>11. BatchTypeOK'
      BY <2>t, <3>5, <3>9, <3>10 DEF BatchTypeOK
    <3>12. CacheIsText'
      <4> SUFFICES ASSUME NEW i \in DOMAIN requests \ ahead, ~requests'[i].done
                   PROVE  caches'[i] \o Fed(requests'[i])
                            = requests'[i].token_ids \o requests'[i].generated
        BY <3>5, <3>9 DEF CacheIsText, Fed
      <4>1. CASE i # index
        BY <4>1, <3>9, <3>10 DEF IInv, CacheIsText
      <4>2. CASE i = index
        <5>1. ~done
          BY <4>2, <3>6, <3>9
        <5>2. Fed(s) = <<nxt>>
          BY <5>1, <3>4, <3>6, <3>7, FedAfterToken
        <5>3. (r.token_ids \o r.generated) \o <<nxt>> = r.token_ids \o Append(r.generated, nxt)
          <6>1. r \in Request /\ nxt \in Vocabulary
            BY <5>1, <3>1, <3>7
          <6> HIDE DEF r
          <6> QED  BY <6>1, TextAfterToken
        <5> QED  BY <4>2, <5>1, <5>2, <5>3, <3>2, <3>6, <3>7, <3>9, <3>10
      <4> QED  BY <4>1, <4>2
    <3>13. Reported'
      <4> SUFFICES ASSUME NEW end \in told' \cup finished'
                   PROVE  /\ end[1] \in DOMAIN requests'
                          /\ requests'[end[1]].done /\ requests'[end[1]].generated = end[2]
        BY DEF Reported
      <4>1. CASE end \in told \cup finished
        <5>1. end[1] \in DOMAIN requests /\ requests[end[1]].done
          BY <4>1 DEF IInv, Reported
        <5> QED  BY <4>1, <5>1, <3>1, <3>9 DEF IInv, Reported
      <4>2. CASE end \notin told \cup finished
        <5>1. done /\ end = <<index, generated>>
          BY <4>2, <3>5
        <5> QED  BY <5>1, <3>1, <3>6, <3>9
      <4> QED  BY <4>1, <4>2
    <3>14. AllGood'
      BY <3>4, <3>5, <3>9 DEF IInv, AllGood
    <3> QED  BY <3>11, <3>12, <3>13, <3>14 DEF IInv
  <2>5. CASE SamplerRaises
    <3> DEFINE text == caches[index] \o Fed(requests[index])
    <3>1. /\ index \in DOMAIN requests /\ requests[index] \in Request
          /\ caches' = [caches EXCEPT ![index] = text]
          /\ ahead' = ahead \cup {index} /\ index' = 0 /\ finished' = {}
          /\ UNCHANGED <<sampling, requests, told>>
      BY <2>5, <2>t, <2>r DEF SamplerRaises, InLoop, At, BatchTypeOK
    <3>2. text \in Seq(Vocabulary)
      BY <2>t, <2>r, <3>1, FedIsText DEF BatchTypeOK
    <3> HIDE DEF text
    <3>3. /\ caches' \in Seq(Seq(Vocabulary)) /\ Len(caches') = Len(requests)
          /\ \A i \in DOMAIN requests \ {index} : caches'[i] = caches[i]
      BY <2>t, <2>r, <3>1, <3>2 DEF BatchTypeOK
    <3>4. BatchTypeOK' /\ Reported'
      BY <2>t, <3>1, <3>3 DEF IInv, BatchTypeOK, Reported
    <3>5. CacheIsText' /\ AllGood'
      BY <3>1, <3>3 DEF IInv, CacheIsText, AllGood, Fed
    <3> QED  BY <3>4, <3>5 DEF IInv
  <2>4. CASE UNCHANGED batchVars
    <3>1. UNCHANGED <<sampling, requests, caches, index, finished, told, ahead>>
      BY <2>4 DEF batchVars
    <3>2. BatchTypeOK' /\ CacheIsText' /\ Reported'
      BY <3>1 DEF IInv, BatchTypeOK, CacheIsText, Reported, Fed
    <3>3. AllGood'
      BY <3>1 DEF IInv, AllGood
    <3> QED  BY <3>2, <3>3 DEF IInv
  <2> QED  BY <2>1, <2>2, <2>3, <2>4, <2>5 DEF BatchNext
<1> QED  BY <1>1, <1>2, PTL DEF BatchSpec

\* step() of inference/batching.py: whoever joins, finishes or fails beside it,
\* each request gets a text it could have got alone, and what a step tells of
\* it is that text. For every model, sampler, prompt, budget and window.
THEOREM EachGetsItsText == BatchSpec => []EachAsAlone
<1>1. IInv => EachAsAlone
  <2> SUFFICES ASSUME IInv PROVE EachAsAlone
    OBVIOUS
  <2>1. ASSUME NEW i \in DOMAIN requests \ ahead
        PROVE  LET r == requests[i]
                   upTo(k) == SubSeq(r.generated, 1, k)
                   next(k) == Candidates(Logits(r.token_ids \o upTo(k)), sampling, upTo(k))
               IN /\ \A k \in DOMAIN r.generated : r.generated[k] \in next(k - 1) \ {Eos}
                  /\ r.done => \/ Len(r.generated) = Max({1, r.max_new})
                               \/ Eos \in next(Len(r.generated))
                  /\ ~r.done => Len(r.generated) < Max({1, r.max_new})
    <3>1. requests[i] \in Request /\ Good(requests[i], sampling)
      BY DEF IInv, AllGood, BatchTypeOK
    <3>2. SubSeq(requests[i].generated, 1, Len(requests[i].generated)) = requests[i].generated
      BY <3>1 DEF Request
    <3> QED  BY <3>1, <3>2 DEF Good, Drawn, Ended, Unfinished, Limit
  <2>2. Reported
    BY DEF IInv
  <2> QED  BY <2>1, <2>2 DEF EachAsAlone, Reported
<1> QED  BY <1>1, Inductive, PTL
===============================================================================
