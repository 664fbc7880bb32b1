----------------------------- MODULE Dataset_proofs -----------------------------
(***************************************************************************)
(* Near duplicates: the table of bands misses none, whatever the hash.     *)
(* Shards: what a dataset whose checksums agree reads back is the text of  *)
(* one preparation, and the owners of its tokens are in step with them.    *)
(* Conversations: training renders an answer as prompting asks for it.     *)
(***************************************************************************)
EXTENDS Dataset, SequenceTheorems, FiniteSetTheorems, TLAPS

\* The bits of a hash are finitely many.
LEMMA BitsAreFinite == IsFiniteSet(Bits)
<1>1. IsFiniteSet(Bands) /\ IsFiniteSet(1..BandBits)
  BY BandsAssumption, FS_Interval DEF Bands
<1> QED BY <1>1, FS_Product DEF Bits

LEMMA DifferingIsFinite ==
  ASSUME NEW h, NEW k
  PROVE  IsFiniteSet(Differing(h, k)) /\ Hamming(h, k) \in Nat
<1>1. Differing(h, k) \subseteq Bits
  BY DEF Differing
<1>2. IsFiniteSet(Differing(h, k))
  BY <1>1, BitsAreFinite, FS_Subset
<1> QED BY <1>2, FS_CardinalityType DEF Hamming

LEMMA HammingIsSymmetric ==
  ASSUME NEW h, NEW k
  PROVE  Hamming(h, k) = Hamming(k, h)
<1>1. Differing(h, k) = Differing(k, h)
  BY DEF Differing
<1> QED BY <1>1 DEF Hamming

\* The pigeonhole: with fewer differing bits than bands, one band has none
\* (NearDeduper.is_duplicate looks up one table per band).
THEOREM CloseHashesShareABand ==
  ASSUME NEW h, NEW k, Hamming(h, k) < NumBands
  PROVE  SameBand(h, k)
<1> SUFFICES ASSUME ~SameBand(h, k) PROVE FALSE
  OBVIOUS
<1>1. \A n \in Bands : \E b \in Differing(h, k) : b[1] = n
  BY DEF SameBand
<1> DEFINE f == [n \in Bands |-> CHOOSE b \in Differing(h, k) : b[1] = n]
<1>2. \A n \in Bands : f[n] \in Differing(h, k) /\ f[n][1] = n
  BY <1>1
<1>3. f \in Injection(Bands, Differing(h, k))
  BY <1>2 DEF Injection, IsInjective
<1>4. IsFiniteSet(Bands) /\ Cardinality(Bands) = NumBands
  BY BandsAssumption, FS_Interval DEF Bands
<1>5. Cardinality(Bands) <= Cardinality(Differing(h, k))
  BY <1>3, <1>4, DifferingIsFinite, FS_Injection
<1> QED BY <1>4, <1>5, DifferingIsFinite, BandsAssumption DEF Hamming

\* What a document that is not near one must satisfy.
LEMMA KeptIsFar ==
  ASSUME NEW c, NEW memory, NEW raw, c.near, Kept(c, memory, raw), MaxDistance < NumBands
  PROVE  \A k \in memory.hashes : Hamming(Simhash(Shown(c, raw)), k) > MaxDistance
<1> DEFINE h == Simhash(Shown(c, raw))
<1> HIDE DEF h
<1> SUFFICES ASSUME NEW k \in memory.hashes, ~(Hamming(h, k) > MaxDistance) PROVE FALSE
  BY DEF h
<1>1. Hamming(h, k) <= MaxDistance /\ Hamming(h, k) < NumBands
  BY DifferingIsFinite, DistanceAssumption, BandsAssumption
<1>2. SameBand(h, k)
  BY <1>1, CloseHashesShareABand
<1>3. NearDuplicate(h, memory.hashes)
  BY <1>1, <1>2 DEF NearDuplicate
<1> QED BY <1>3 DEF h, Kept, Near

-----------------------------------------------------------------------------
(* The invariant: the hash of each document that was kept is in the table. *)

Remembered ==
  conf.near => \A i \in DOMAIN kept : Simhash(kept[i].text) \in cleaner.hashes

\* Nothing is known of a text but that the kept ones form a sequence.
KeptInv ==
  /\ \E S : kept \in Seq(S)
  /\ Remembered
  /\ KeptFarApart

LEMMA KeptInit == Init => KeptInv
<1> SUFFICES ASSUME Init PROVE KeptInv
  OBVIOUS
<1>1. kept = <<>> /\ kept \in Seq({}) /\ DOMAIN kept = {}
  BY DEF Init
<1> QED BY <1>1 DEF KeptInv, Remembered, KeptFarApart

\* A call that begins or ends has kept nothing.
LEMMA KeptNothing ==
  ASSUME kept' = <<>>
  PROVE  KeptInv'
<1>1. kept' \in Seq({}) /\ DOMAIN kept' = {}
  BY DEF KeptInv
<1> QED BY <1>1 DEF KeptInv, Remembered, KeptFarApart

\* A step that leaves the documents alone.
LEMMA KeptSame ==
  ASSUME KeptInv, UNCHANGED <<conf, cleaner, kept>>
  PROVE  KeptInv'
BY DEF KeptInv, Remembered, KeptFarApart

LEMMA KeptDocument ==
  ASSUME KeptInv, Document
  PROVE  KeptInv'
<1> DEFINE raw == Head(queue)
           text == Shown(conf, raw)
<1>1. conf' = conf /\ cleaner' = After(conf, cleaner, raw)
  BY DEF Document
<1>2. cleaner.hashes \subseteq cleaner'.hashes
  BY <1>1 DEF After
<1>3. CASE ~Kept(conf, cleaner, raw)
  <2>1. kept' = kept
    BY <1>3 DEF Document
  <2> QED BY <1>1, <1>2, <2>1 DEF KeptInv, Remembered, KeptFarApart
<1>4. CASE Kept(conf, cleaner, raw)
  <2>1. PICK split : kept' = Append(kept, [split |-> split, text |-> text])
    BY <1>4 DEF Document
  <2> DEFINE entry == [split |-> split, text |-> text]
             n == Len(kept) + 1
  <2>2. PICK S : kept \in Seq(S)
    BY DEF KeptInv
  <2>3. kept \in Seq(S \cup {entry}) /\ entry \in S \cup {entry}
    <3>1. \A i \in 1..Len(kept) : kept[i] \in S
      BY <2>2
    <3> QED BY <2>2, <3>1
  <2> HIDE DEF entry
  <2>4. /\ kept' \in Seq(S \cup {entry})
        /\ Len(kept') = n
        /\ \A i \in 1..Len(kept) : kept'[i] = kept[i]
        /\ kept'[n] = entry
    BY <2>1, <2>3 DEF entry
  <2>5. DOMAIN kept' = 1..n /\ DOMAIN kept = 1..Len(kept) /\ Len(kept) \in Nat
    BY <2>2, <2>4
  <2>6. kept'[n].text = text
    BY <2>4 DEF entry
  <2> HIDE DEF text, raw
  <2>7. \A i \in 1..n : i = n \/ i \in 1..Len(kept)
    BY <2>5
  <2>8. conf.near => Simhash(text) \in cleaner'.hashes
    BY <1>1, <1>4 DEF After, Kept, text, raw
  <2>9. Remembered'
    <3> SUFFICES ASSUME conf.near, NEW i \in 1..n
                 PROVE  Simhash(kept'[i].text) \in cleaner'.hashes
      BY <1>1, <2>5 DEF Remembered
    <3>1. CASE i = n
      BY <2>6, <2>8, <3>1
    <3>2. CASE i \in 1..Len(kept)
      BY <1>2, <2>4, <2>5, <3>2 DEF KeptInv, Remembered
    <3> QED BY <2>7, <3>1, <3>2
  <2>10. KeptFarApart'
    <3> SUFFICES ASSUME conf.near, MaxDistance < NumBands,
                        NEW i \in 1..n, NEW j \in 1..n, i # j
                 PROVE  Hamming(Simhash(kept'[i].text), Simhash(kept'[j].text)) > MaxDistance
      BY <1>1, <2>5 DEF KeptFarApart
    <3>1. \A k \in cleaner.hashes : Hamming(Simhash(text), k) > MaxDistance
      BY <1>4, KeptIsFar DEF text
    <3>2. \A m \in 1..Len(kept) : /\ kept'[m] = kept[m]
                                 /\ Simhash(kept[m].text) \in cleaner.hashes
      BY <2>4, <2>5 DEF KeptInv, Remembered
    <3>3. CASE i = n /\ j \in 1..Len(kept)
      BY <2>6, <3>1, <3>2, <3>3
    <3>4. CASE j = n /\ i \in 1..Len(kept)
      BY <2>6, <3>1, <3>2, <3>4, HammingIsSymmetric
    <3>5. CASE i \in 1..Len(kept) /\ j \in 1..Len(kept)
      BY <2>5, <3>2, <3>5 DEF KeptInv, KeptFarApart
    <3> QED BY <2>7, <3>3, <3>4, <3>5
  <2> QED BY <2>4, <2>9, <2>10 DEF KeptInv
<1> QED BY <1>3, <1>4

LEMMA KeptNext == KeptInv /\ [Next]_vars => KeptInv'
<1> SUFFICES ASSUME KeptInv, [Next]_vars PROVE KeptInv'
  OBVIOUS
<1>1. CASE Start
  BY <1>1, KeptNothing DEF Start
<1>2. CASE Verify \/ Crash
  BY <1>2, KeptNothing DEF Verify, Crash, Leave
<1>3. CASE Document
  BY <1>3, KeptDocument
<1>4. CASE NextNode \/ Skip \/ Pushed \/ EndDocuments
  BY <1>4, KeptSame DEF NextNode, Skip, Pushed, EndDocuments, inputs
<1>5. CASE PushTokens \/ PushOwners \/ Close \/ SaveManifest
  BY <1>5, KeptSame DEF PushTokens, PushOwners, Close, SaveManifest, inputs
<1>6. CASE UNCHANGED vars
  BY <1>6, KeptSame DEF vars, inputs
<1> QED BY <1>1, <1>2, <1>3, <1>4, <1>5, <1>6 DEF Next

\* Documents of one preparation that are kept are never near duplicates of each
\* other, for any hash, any number of bands and any distance below it: the
\* default, 3 of 4 bands, is exact (cleaning.py, the call of near.is_duplicate).
THEOREM NearDuplicatesAreDropped == Spec => []KeptFarApart
<1>1. KeptInv => KeptFarApart
  BY DEF KeptInv
<1> QED BY <1>1, KeptInit, KeptNext, PTL DEF Spec

-----------------------------------------------------------------------------
(* Naturals, and the middle of a sequence.                                 *)

\* Induction, from the least number a set of naturals lacks.
LEMMA Induction ==
  ASSUME NEW S \in SUBSET Nat, 0 \in S, \A n \in S : n + 1 \in S
  PROVE  S = Nat
<1> SUFFICES ASSUME Nat \ S # {} PROVE FALSE
  OBVIOUS
<1> DEFINE R == OpToRel(<, Nat)
<1>1. IsWellFoundedOn(R, Nat)
  BY NatLessThanWellFounded
<1>2. \A x, y \in Nat : <<x, y>> \in R <=> x < y
  BY DEF OpToRel
<1> HIDE DEF R
<1>3. PICK least \in Nat \ S : \A y \in Nat \ S : ~ (<<y, least>> \in R)
  BY <1>1, WFMin
<1>4. least # 0 /\ least - 1 \in Nat
  BY <1>3
<1>5. least - 1 \in S
  <2>1. <<least - 1, least>> \in R
    BY <1>2, <1>4
  <2>2. least - 1 \notin Nat \ S
    BY <1>3, <2>1
  <2> QED  BY <1>4, <2>2
<1>6. (least - 1) + 1 \in S
  BY <1>5
<1> QED  BY <1>4, <1>6

\* Where shard i ends when it is full.
At(i) == i * ShardSize

\* Shards follow each other.
LEMMA AtStep ==
  ASSUME NEW i \in Int
  PROVE  At(i) \in Int /\ At(i + 1) = At(i) + ShardSize /\ At(0) = 0 /\ At(1) = ShardSize
BY LengthsAssumption DEF At

LEMMA AtSum ==
  ASSUME NEW i \in Int, NEW j \in Int
  PROVE  At(i + j) = At(i) + At(j)
BY LengthsAssumption DEF At

LEMMA AtGrows ==
  ASSUME NEW i \in Int, NEW j \in Int, i <= j
  PROVE  At(i) <= At(j)
<1>1. j - i \in Nat /\ At(j) = At(i) + At(j - i)
  BY AtSum
<1>2. At(j - i) >= 0
  BY <1>1, LengthsAssumption DEF At
<1> QED  BY <1>1, <1>2, AtStep

\* How many full shards there are in a number of tokens.
LEMMA AtQuotient ==
  ASSUME NEW a \in Nat
  PROVE  /\ a \div ShardSize \in Nat
         /\ At(a \div ShardSize) <= a /\ a < At(a \div ShardSize) + ShardSize
BY LengthsAssumption DEF At

\* Max and Min of the community modules, of two numbers.
LEMMA MaxOfTwo ==
  ASSUME NEW a \in Int, NEW b \in Int
  PROVE  Max({a, b}) \in {a, b} /\ Max({a, b}) >= a /\ Max({a, b}) >= b
<1>1. \E x \in {a, b} : \A y \in {a, b} : x >= y
  OBVIOUS
<1> QED  BY <1>1 DEF Max

LEMMA MinOfTwo ==
  ASSUME NEW a \in Int, NEW b \in Int
  PROVE  Min({a, b}) = IF a <= b THEN a ELSE b
<1>1. \E x \in {a, b} : \A y \in {a, b} : x =< y
  OBVIOUS
<1>2. Min({a, b}) \in {a, b} /\ \A y \in {a, b} : Min({a, b}) <= y
  BY <1>1 DEF Min
<1> QED  BY <1>2

\* The middle of a sequence.
LEMMA Middle ==
  ASSUME NEW S, NEW s \in Seq(S), NEW a \in Nat \ {0}, NEW b \in Int, b <= Len(s)
  PROVE  /\ SubSeq(s, a, b) \in Seq(S)
         /\ Len(SubSeq(s, a, b)) = IF a <= b THEN b - a + 1 ELSE 0
         /\ \A i \in 1..b - a + 1 : SubSeq(s, a, b)[i] = s[a + i - 1]
<1>1. \A i \in a..b : s[i] \in S
  BY ElementOfSeq
<1> QED  BY <1>1, SubSeqProperties

\* The middle of a middle, and the middle of what goes on.
LEMMA MiddleOfMiddle ==
  ASSUME NEW S, NEW s \in Seq(S),
         NEW a \in Nat \ {0}, NEW b \in Int, b <= Len(s), a <= b + 1,
         NEW c \in Nat \ {0}, NEW d \in Int, d <= b - a + 1
  PROVE  SubSeq(SubSeq(s, a, b), c, d) = SubSeq(s, a + c - 1, a + d - 1)
<1> DEFINE m == SubSeq(s, a, b)
           l == SubSeq(m, c, d)
           r == SubSeq(s, a + c - 1, a + d - 1)
<1>1. m \in Seq(S) /\ Len(m) = b - a + 1 /\ \A i \in 1..b - a + 1 : m[i] = s[a + i - 1]
  BY Middle
<1>2. a + c - 1 \in Nat \ {0} /\ a + d - 1 \in Int /\ a + d - 1 <= Len(s)
  OBVIOUS
<1>3. /\ r \in Seq(S) /\ Len(r) = IF c <= d THEN d - c + 1 ELSE 0
      /\ \A i \in 1..d - c + 1 : r[i] = s[a + c - 1 + i - 1]
  <2>1. /\ r \in Seq(S) /\ Len(r) = IF a + c - 1 <= a + d - 1 THEN (a + d - 1) - (a + c - 1) + 1 ELSE 0
        /\ \A i \in 1..(a + d - 1) - (a + c - 1) + 1 : r[i] = s[a + c - 1 + i - 1]
    BY <1>2, Middle
  <2> HIDE DEF r
  <2>2. (a + d - 1) - (a + c - 1) + 1 = d - c + 1 /\ (a + c - 1 <= a + d - 1 <=> c <= d)
    OBVIOUS
  <2> QED  BY <2>1, <2>2
<1> HIDE DEF m, r
<1>4. /\ l \in Seq(S) /\ Len(l) = IF c <= d THEN d - c + 1 ELSE 0
      /\ \A i \in 1..d - c + 1 : l[i] = m[c + i - 1]
  <2>1. d <= Len(m)
    BY <1>1
  <2> QED  BY <1>1, <2>1, Middle
<1> HIDE DEF l
<1>5. \A i \in 1..Len(l) : l[i] = r[i]
  <2> SUFFICES ASSUME NEW i \in 1..Len(l) PROVE l[i] = r[i]
    OBVIOUS
  <2>1. i \in 1..d - c + 1 /\ c + i - 1 \in 1..b - a + 1
    BY <1>4
  <2>2. l[i] = m[c + i - 1] /\ m[c + i - 1] = s[a + (c + i - 1) - 1] /\ r[i] = s[a + c - 1 + i - 1]
    BY <1>1, <1>3, <1>4, <2>1
  <2>3. a + (c + i - 1) - 1 = a + c - 1 + i - 1
    BY <2>1
  <2> QED  BY <2>2, <2>3
<1>6. l = r
  BY <1>3, <1>4, <1>5, SeqEqual
<1> QED  BY <1>6 DEF l, r, m

LEMMA MiddleOfConcat ==
  ASSUME NEW S, NEW s \in Seq(S), NEW t \in Seq(S),
         NEW a \in Nat \ {0}, NEW b \in Int, b <= Len(s)
  PROVE  SubSeq(s \o t, a, b) = SubSeq(s, a, b)
<1>1. /\ s \o t \in Seq(S) /\ Len(s \o t) = Len(s) + Len(t) /\ Len(s) \in Nat /\ Len(t) \in Nat
      /\ \A i \in 1..Len(s) : (s \o t)[i] = s[i]
  BY ConcatProperties
<1> DEFINE st == s \o t
           l == SubSeq(st, a, b)
           r == SubSeq(s, a, b)
<1> HIDE DEF st
<1>2. /\ r \in Seq(S) /\ Len(r) = IF a <= b THEN b - a + 1 ELSE 0
      /\ \A i \in 1..b - a + 1 : r[i] = s[a + i - 1]
  BY Middle
<1>3. /\ l \in Seq(S) /\ Len(l) = IF a <= b THEN b - a + 1 ELSE 0
      /\ \A i \in 1..b - a + 1 : l[i] = st[a + i - 1]
  <2>1. st \in Seq(S) /\ b <= Len(st)
    BY <1>1 DEF st
  <2> QED  BY <2>1, Middle
<1> HIDE DEF l, r
<1>4. \A i \in 1..Len(l) : l[i] = r[i]
  <2> SUFFICES ASSUME NEW i \in 1..Len(l) PROVE l[i] = r[i]
    OBVIOUS
  <2>1. i \in 1..b - a + 1 /\ a + i - 1 \in 1..Len(s)
    BY <1>1, <1>3
  <2> QED  BY <1>1, <1>2, <1>3, <2>1 DEF st
<1> QED  BY <1>2, <1>3, <1>4, SeqEqual DEF l, r, st

-----------------------------------------------------------------------------
(* What a writer has written of a text.                                    *)

\* A datum of a file is a token, or the number of a document.
Data == Spoken \cup {Eos} \cup Nat
Shard == [tokens : Seq(Data), width : {16, 32}]

\* Shard i of the first cut tokens of a text.
Cut(text, i, cut) == SubSeq(text, At(i - 1) + 1, IF At(i) <= cut THEN At(i) ELSE cut)

\* A writer was given the first cut tokens of a text: the shards are these, all
\* full but the last, and what is left is still in its buffer.
Wrote(w, text, cut, width) ==
  LET n == Len(w.records)
  IN /\ w.records \in Seq(Shard)
     /\ cut \in 0..Len(text)
     /\ n = 0 \/ At(n - 1) < cut
     /\ cut < At(n + 1)
     /\ w.tokens = SubSeq(text, At(n) + 1, cut)
     /\ \A i \in 1..n : w.records[i] = [tokens |-> Cut(text, i, cut), width |-> width]

LEMMA AtNat ==
  ASSUME NEW i \in Nat
  PROVE  At(i) \in Nat
<1>1. At(0) <= At(i)
  BY AtGrows
<1> QED  BY <1>1, AtStep

\* Where the pieces of a writer lie.
LEMMA CutBounds ==
  ASSUME NEW text \in Seq(Data), NEW cut \in 0..Len(text), NEW i \in Nat \ {0}
  PROVE  /\ At(i - 1) + 1 \in Nat \ {0} /\ At(i) \in Nat
         /\ Cut(text, i, cut) \in Seq(Data)
<1>1. At(i - 1) \in Nat /\ At(i) \in Nat
  BY AtNat
<1>2. (IF At(i) <= cut THEN At(i) ELSE cut) \in Int /\ (IF At(i) <= cut THEN At(i) ELSE cut) <= Len(text)
  BY <1>1
<1> QED  BY <1>1, <1>2, Middle DEF Cut

\* A text that grows: what is written of it is the same.
LEMMA WroteLonger ==
  ASSUME NEW text \in Seq(Data), NEW more \in Seq(Data), NEW w, NEW cut, NEW width,
         Wrote(w, text, cut, width)
  PROVE  Wrote(w, text \o more, cut, width)
<1> DEFINE n == Len(w.records)
           long == text \o more
<1>1. n \in Nat /\ cut \in 0..Len(text) /\ Len(text) \in Nat
  BY DEF Wrote
<1>2. long \in Seq(Data) /\ Len(long) = Len(text) + Len(more) /\ Len(more) \in Nat
  OBVIOUS
<1>3. \A a \in Nat \ {0}, b \in Int : b <= Len(text) => SubSeq(long, a, b) = SubSeq(text, a, b)
  BY MiddleOfConcat
<1>4. SubSeq(long, At(n) + 1, cut) = SubSeq(text, At(n) + 1, cut)
  <2>1. At(n) \in Nat
    BY <1>1, AtNat
  <2> QED  BY <1>1, <1>3, <2>1
<1>5. ASSUME NEW i \in 1..n PROVE Cut(long, i, cut) = Cut(text, i, cut)
  <2>0. i - 1 \in Nat /\ i \in Nat
    BY <1>1
  <2>1. At(i - 1) + 1 \in Nat \ {0} /\ At(i) \in Nat
    <3>1. At(i - 1) \in Nat /\ At(i) \in Nat
      BY <2>0, AtNat
    <3> QED  BY <3>1
  <2>2. (IF At(i) <= cut THEN At(i) ELSE cut) \in Int /\ (IF At(i) <= cut THEN At(i) ELSE cut) <= Len(text)
    BY <1>1, <2>1
  <2> QED  BY <1>3, <2>1, <2>2 DEF Cut
<1>6. cut \in 0..Len(long)
  BY <1>1, <1>2
<1> HIDE DEF long
<1> QED  BY <1>4, <1>5, <1>6 DEF Wrote, long

\* add_tokens takes the next tokens of the text.
LEMMA WroteMore ==
  ASSUME NEW text \in Seq(Data), NEW w, NEW cut, NEW width \in {16, 32},
         Wrote(w, text, cut, width), At(Len(w.records)) <= cut,
         NEW more \in Nat, cut + more <= Len(text)
  PROVE  LET all == w.tokens \o SubSeq(text, cut + 1, cut + more)
             full == Len(all) \div ShardSize
             shards == [i \in 1..full |->
                         [tokens |-> SubSeq(all, At(i - 1) + 1, At(i)), width |-> width]]
             v == [tokens |-> SubSeq(all, At(full) + 1, Len(all)),
                   records |-> w.records \o shards]
         IN /\ full \in Nat /\ shards \in Seq(Shard) /\ Len(shards) = full
            /\ Wrote(v, text, cut + more, width)
            /\ At(Len(v.records)) <= cut + more
<1> DEFINE n == Len(w.records)
           start == At(n)
           end == cut + more
           all == w.tokens \o SubSeq(text, cut + 1, end)
           full == Len(all) \div ShardSize
           shards == [i \in 1..full |->
                       [tokens |-> SubSeq(all, At(i - 1) + 1, At(i)), width |-> width]]
           v == [tokens |-> SubSeq(all, At(full) + 1, Len(all)), records |-> w.records \o shards]
<1>0. n \in Nat /\ cut \in Nat /\ cut <= Len(text) /\ Len(text) \in Nat
  BY DEF Wrote
<1>1. /\ w.records \in Seq(Shard)
      /\ w.tokens = SubSeq(text, start + 1, cut)
      /\ \A i \in 1..n : w.records[i] = [tokens |-> Cut(text, i, cut), width |-> width]
  BY DEF Wrote
<1>2. /\ start \in Nat /\ start <= cut /\ end \in Nat /\ cut <= end /\ end <= Len(text)
      /\ cut \in Nat /\ Len(text) \in Nat
  <2>1. start \in Nat
    BY <1>0, AtNat
  <2> QED  BY <1>0, <2>1
<1>3. all = SubSeq(text, start + 1, end)
  <2>1. start + 1 \in 1..Len(text) + 1 /\ cut \in (start + 1) - 1..Len(text) /\ end \in cut..Len(text)
    BY <1>0, <1>2
  <2> HIDE DEF start, end
  <2> QED  BY <1>1, <2>1, ConcatAdjacentSubSeq
<1> HIDE DEF all, start, end, n
<1>4. all \in Seq(Data) /\ Len(all) = end - start
  <2>1. all \in Seq(Data) /\ Len(all) = IF start + 1 <= end THEN end - (start + 1) + 1 ELSE 0
    BY <1>2, <1>3, Middle
  <2> QED  BY <1>2, <2>1
<1>5. /\ full \in Nat /\ At(full) \in Nat
      /\ At(full) <= end - start /\ end - start < At(full) + ShardSize
  <2>1. end - start \in Nat
    BY <1>2
  <2> QED  BY <1>4, <2>1, AtQuotient, AtNat
<1> HIDE DEF full
<1>6. ASSUME NEW a \in Nat \ {0}, NEW b \in Int, b <= end - start
      PROVE  SubSeq(all, a, b) = SubSeq(text, start + a, start + b)
  <2>1. start + 1 \in Nat \ {0} /\ end \in Int /\ start + 1 <= end + 1 /\ b <= end - (start + 1) + 1
    <3>1. start <= end /\ start \in Nat /\ end \in Nat
      BY <1>2
    <3> QED  BY <1>6, <3>1
  <2>2. SubSeq(all, a, b) = SubSeq(text, (start + 1) + a - 1, (start + 1) + b - 1)
    BY <1>2, <1>3, <2>1, MiddleOfMiddle
  <2>3. (start + 1) + a - 1 = start + a /\ (start + 1) + b - 1 = start + b
    BY <1>2
  <2> QED  BY <2>2, <2>3
<1>7. ASSUME NEW j \in 1..full
      PROVE  /\ SubSeq(all, At(j - 1) + 1, At(j)) = Cut(text, n + j, end)
             /\ SubSeq(all, At(j - 1) + 1, At(j)) \in Seq(Data)
  <2>1. j - 1 \in Nat /\ j \in Nat /\ j <= full
    BY <1>5
  <2>2. At(j - 1) \in Nat /\ At(j) \in Nat /\ At(j) <= At(full)
    <3>1. At(j - 1) \in Nat /\ At(j) \in Nat
      BY <2>1, AtNat
    <3>2. At(j) <= At(full)
      BY <1>5, <2>1, AtGrows
    <3> QED  BY <3>1, <3>2
  <2>3. start + At(j - 1) = At((n + j) - 1) /\ start + At(j) = At(n + j)
    <3>1. (n + j) - 1 = n + (j - 1)
      BY <1>0, <2>1
    <3>2. n \in Int /\ j - 1 \in Int /\ j \in Int
      BY <1>0, <2>1
    <3>3. At(n + (j - 1)) = At(n) + At(j - 1) /\ At(n + j) = At(n) + At(j)
      BY <3>2, AtSum
    <3> QED  BY <3>1, <3>3 DEF start
  <2>4. SubSeq(all, At(j - 1) + 1, At(j)) = SubSeq(text, start + (At(j - 1) + 1), start + At(j))
    <3>1. At(j - 1) + 1 \in Nat \ {0} /\ At(j) \in Int /\ At(j) <= end - start
      BY <1>2, <1>5, <2>2
    <3> QED  BY <1>6, <3>1
  <2>5. start + (At(j - 1) + 1) = At((n + j) - 1) + 1 /\ At(n + j) <= end
    BY <1>2, <1>5, <2>2, <2>3
  <2>6. Cut(text, n + j, end) = SubSeq(text, At((n + j) - 1) + 1, At(n + j))
    BY <2>5 DEF Cut
  <2>7. SubSeq(all, At(j - 1) + 1, At(j)) \in Seq(Data)
    <3>1. At(j - 1) + 1 \in Nat \ {0} /\ At(j) \in Int /\ At(j) <= Len(all)
      BY <1>2, <1>4, <1>5, <2>2
    <3> QED  BY <1>4, <3>1, Middle
  <2> QED  BY <2>3, <2>4, <2>5, <2>6, <2>7
<1>8. shards \in Seq(Shard) /\ Len(shards) = full
  <2>1. \A j \in 1..full : shards[j] \in Shard
    BY <1>7 DEF Shard
  <2>2. shards \in [1..full -> Shard]
    BY <2>1
  <2> HIDE DEF shards
  <2> QED  BY <1>5, <2>2
<1>9. /\ v.records \in Seq(Shard) /\ Len(v.records) = n + full
      /\ \A i \in 1..n : v.records[i] = w.records[i]
      /\ \A i \in n + 1..n + full : v.records[i] = shards[i - n]
  <2>1. v.records = w.records \o shards
    OBVIOUS
  <2> HIDE DEF shards, v
  <2>2. /\ v.records \in Seq(Shard) /\ Len(v.records) = Len(w.records) + Len(shards)
        /\ \A i \in 1..Len(w.records) + Len(shards) :
             v.records[i] = IF i <= Len(w.records) THEN w.records[i] ELSE shards[i - Len(w.records)]
    <3> DEFINE r == w.records
    <3>1. r \in Seq(Shard) /\ shards \in Seq(Shard)
      BY <1>1, <1>8
    <3> HIDE DEF r
    <3>2. /\ r \o shards \in Seq(Shard) /\ Len(r \o shards) = Len(r) + Len(shards)
          /\ \A i \in 1..Len(r) + Len(shards) :
               (r \o shards)[i] = IF i <= Len(r) THEN r[i] ELSE shards[i - Len(r)]
      BY <3>1, ConcatProperties
    <3> QED  BY <2>1, <3>2 DEF r
  <2>3. Len(w.records) = n /\ n \in Nat /\ full \in Nat /\ Len(shards) = full
    BY <1>0, <1>5, <1>8 DEF n
  <2> QED  BY <2>2, <2>3
<1>10. ASSUME NEW i \in 1..n + full
       PROVE  v.records[i] = [tokens |-> Cut(text, i, end), width |-> width]
  <2>1. CASE i <= n
    <3>1. i \in 1..n /\ At(i) <= start
      <4>1. i \in 1..n /\ i \in Int /\ n \in Int
        BY <1>0, <2>1
      <4> QED  BY <2>1, <4>1, AtGrows DEF start
    <3>2. At(i) <= cut /\ At(i) <= end
      <4>1. At(i) \in Nat
        BY <1>0, <3>1, AtNat
      <4> QED  BY <1>0, <1>2, <3>1, <4>1
    <3>3. Cut(text, i, cut) = Cut(text, i, end)
      BY <3>2 DEF Cut
    <3> QED  BY <1>1, <1>9, <3>1, <3>3
  <2>2. CASE i > n
    <3>1. i \in n + 1..n + full /\ i - n \in 1..full /\ n + (i - n) = i
      BY <1>0, <1>5, <2>2
    <3>2. shards[i - n] = [tokens |-> SubSeq(all, At((i - n) - 1) + 1, At(i - n)), width |-> width]
      BY <3>1
    <3>3. SubSeq(all, At((i - n) - 1) + 1, At(i - n)) = Cut(text, n + (i - n), end)
      BY <1>7, <3>1
    <3> QED  BY <1>9, <3>1, <3>2, <3>3
  <2>3. i <= n \/ i > n
    BY <1>0, <1>5
  <2> QED  BY <2>1, <2>2, <2>3
<1>11. At(n + full) = start + At(full) /\ At(full) \in Nat
  <2>0. n \in Int /\ full \in Int
    BY <1>0, <1>5
  <2>1. At(n + full) = At(n) + At(full)
    BY <2>0, AtSum
  <2> QED  BY <1>5, <2>1, AtNat DEF start
<1>12. At(n + full) <= end /\ end < At((n + full) + 1)
  <2>0. n + full \in Int
    BY <1>0, <1>5
  <2>1. At((n + full) + 1) = At(n + full) + ShardSize
    BY <2>0, AtStep
  <2> QED  BY <1>2, <1>5, <1>11, <2>1, LengthsAssumption
<1>13. n + full = 0 \/ At((n + full) - 1) < end
  <2> SUFFICES ASSUME n + full # 0 PROVE At((n + full) - 1) < end
    OBVIOUS
  <2>1. (n + full) - 1 \in Int /\ ((n + full) - 1) + 1 = n + full
    BY <1>0, <1>5
  <2>2. At((n + full) - 1) \in Int /\ At(n + full) = At((n + full) - 1) + ShardSize
    BY <2>1, AtStep
  <2> QED  BY <1>2, <1>12, <2>2, LengthsAssumption
<1>14. v.tokens = SubSeq(text, At(n + full) + 1, end)
  <2>1. v.tokens = SubSeq(all, At(full) + 1, Len(all))
    OBVIOUS
  <2>2. At(full) + 1 \in Nat \ {0} /\ Len(all) \in Int /\ Len(all) <= end - start
    BY <1>2, <1>4, <1>11
  <2>3. SubSeq(all, At(full) + 1, Len(all)) = SubSeq(text, start + (At(full) + 1), start + Len(all))
    BY <1>6, <2>2
  <2>4. start + (At(full) + 1) = At(n + full) + 1 /\ start + Len(all) = end
    BY <1>2, <1>4, <1>11
  <2> QED  BY <2>1, <2>3, <2>4
<1> HIDE DEF v
<1>15. Wrote(v, text, end, width)
  BY <1>2, <1>9, <1>10, <1>12, <1>13, <1>14 DEF Wrote
<1> QED  BY <1>5, <1>8, <1>9, <1>12, <1>15 DEF v, shards, full, all, end, n

\* finalize writes what is left, a shard that may be shorter.
LEMMA WroteLast ==
  ASSUME NEW text \in Seq(Data), NEW w, NEW cut, NEW width \in {16, 32},
         Wrote(w, text, cut, width), w.tokens # <<>>
  PROVE  LET shard == [tokens |-> w.tokens, width |-> width]
             v == [tokens |-> <<>>, records |-> w.records \o <<shard>>]
         IN shard \in Shard /\ Wrote(v, text, cut, width)
<1> DEFINE n == Len(w.records)
           shard == [tokens |-> w.tokens, width |-> width]
           v == [tokens |-> <<>>, records |-> w.records \o <<shard>>]
<1>0. n \in Nat /\ cut \in Nat /\ cut <= Len(text) /\ Len(text) \in Nat
  BY DEF Wrote
<1>1. /\ w.records \in Seq(Shard)
      /\ w.tokens = SubSeq(text, At(n) + 1, cut)
      /\ cut < At(n + 1)
      /\ \A i \in 1..n : w.records[i] = [tokens |-> Cut(text, i, cut), width |-> width]
  BY DEF Wrote
<1>2. At(n) \in Nat /\ At(n + 1) \in Nat /\ At(n + 1) = At(n) + ShardSize
      /\ At((n + 1) + 1) = At(n + 1) + ShardSize
  <2>1. n \in Int /\ n + 1 \in Int /\ n + 1 \in Nat
    BY <1>0
  <2> QED  BY <1>0, <2>1, AtNat, AtStep
<1>3. w.tokens \in Seq(Data) /\ At(n) < cut
  <2>1. w.tokens \in Seq(Data) /\ Len(w.tokens) = IF At(n) + 1 <= cut THEN cut - (At(n) + 1) + 1 ELSE 0
    BY <1>0, <1>1, <1>2, Middle
  <2>2. Len(w.tokens) # 0
    BY <2>1
  <2> QED  BY <1>0, <1>2, <2>1, <2>2
<1>4. shard \in Shard
  BY <1>3 DEF Shard
<1>5. shard = [tokens |-> Cut(text, n + 1, cut), width |-> width]
  <2>1. (n + 1) - 1 = n /\ ~(At(n + 1) <= cut)
    BY <1>0, <1>1, <1>2
  <2> QED  BY <1>1, <2>1 DEF Cut
<1> HIDE DEF shard
<1>6. /\ v.records \in Seq(Shard) /\ Len(v.records) = n + 1
      /\ \A i \in 1..n : v.records[i] = w.records[i]
      /\ v.records[n + 1] = shard
  BY <1>0, <1>1, <1>4
<1>7. v.tokens = SubSeq(text, At(n + 1) + 1, cut)
  BY <1>0, <1>1, <1>2, SubSeqEmpty
<1> HIDE DEF v
<1>8. \A i \in 1..n + 1 : v.records[i] = [tokens |-> Cut(text, i, cut), width |-> width]
  <2>1. \A i \in 1..n + 1 : i \in 1..n \/ i = n + 1
    BY <1>0
  <2> QED  BY <1>1, <1>5, <1>6, <2>1
<1>9. Wrote(v, text, cut, width)
  <2>1. (n + 1) - 1 = n /\ cut < At((n + 1) + 1) /\ cut \in 0..Len(text)
    BY <1>0, <1>1, <1>2, LengthsAssumption
  <2> QED  BY <1>3, <1>6, <1>7, <1>8, <2>1 DEF Wrote
<1> QED  BY <1>4, <1>9 DEF v, shard

\* _flush leaves in a directory what the writer has recorded.
LEMMA FilesFollow ==
  ASSUME NEW fs \in Seq(Shard), NEW records \in Seq(Shard), NEW shards \in Seq(Shard),
         Len(records) <= Len(fs), \A i \in 1..Len(records) : fs[i] = records[i]
  PROVE  LET n == Len(records)
             k == Len(shards)
             new == [i \in 1..Max({Len(fs), n + k}) |->
                      IF i \in n + 1..n + k THEN shards[i - n] ELSE fs[i]]
         IN /\ new \in Seq(Shard) /\ n + k <= Len(new)
            /\ \A i \in 1..n + k : new[i] = (records \o shards)[i]
<1> DEFINE n == Len(records)
           k == Len(shards)
           len == Len(fs)
           m == Max({len, n + k})
           new == [i \in 1..m |-> IF i \in n + 1..n + k THEN shards[i - n] ELSE fs[i]]
<1>1. n \in Nat /\ k \in Nat /\ len \in Nat /\ n <= len
  OBVIOUS
<1>2. /\ \A i \in 1..n : records[i] \in Shard /\ fs[i] = records[i]
      /\ \A i \in 1..k : shards[i] \in Shard
      /\ \A i \in 1..len : fs[i] \in Shard
  BY ElementOfSeq
<1>3. \A i \in 1..n + k : (records \o shards)[i] = IF i <= n THEN records[i] ELSE shards[i - n]
  BY ConcatProperties
<1> HIDE DEF n, k, len
<1>4. m \in Nat /\ n + k <= m /\ (m = len \/ m = n + k)
  <2>1. n + k \in Int /\ len \in Int
    BY <1>1
  <2> DEFINE b == n + k
  <2>2. b \in Int /\ m = Max({len, b})
    BY <2>1
  <2> HIDE DEF m, b
  <2>3. m \in {len, b} /\ m >= b
    BY <2>1, <2>2, MaxOfTwo
  <2> QED  BY <1>1, <2>3 DEF b
<1> HIDE DEF m
<1>5. new \in [1..m -> Shard]
  <2> SUFFICES ASSUME NEW i \in 1..m
               PROVE  (IF i \in n + 1..n + k THEN shards[i - n] ELSE fs[i]) \in Shard
    OBVIOUS
  <2>1. CASE i \in n + 1..n + k
    <3>1. i - n \in 1..k
      BY <1>1, <2>1
    <3> QED  BY <1>2, <2>1, <3>1
  <2>2. CASE i \notin n + 1..n + k
    <3>1. i \in 1..len
      BY <1>1, <1>4, <2>2
    <3> QED  BY <1>2, <2>2, <3>1
  <2> QED  BY <2>1, <2>2
<1>6. ASSUME NEW i \in 1..n + k PROVE new[i] = (records \o shards)[i]
  <2>0. i \in 1..m
    BY <1>1, <1>4
  <2>1. CASE i <= n
    <3>1. i \in 1..n /\ i \notin n + 1..n + k
      BY <1>1, <2>1
    <3>2. new[i] = fs[i]
      BY <2>0, <3>1
    <3> QED  BY <1>2, <1>3, <2>1, <3>1, <3>2
  <2>2. CASE ~(i <= n)
    <3>1. i \in n + 1..n + k
      BY <1>1, <2>2
    <3>2. new[i] = shards[i - n]
      BY <2>0, <3>1
    <3> QED  BY <1>3, <2>2, <3>2
  <2> QED  BY <2>1, <2>2
<1> HIDE DEF new
<1>7. new \in Seq(Shard) /\ Len(new) = m
  BY <1>4, <1>5
<1> QED  BY <1>4, <1>6, <1>7 DEF new, m, len, n, k

-----------------------------------------------------------------------------
(* The stream, document by document.                                       *)

Doc == [split : Splits, text : Seq(Spoken)]
Pair == [token : Spoken \cup {Eos}, doc : Nat]

Solves(f, docs, split, k) ==
  f = [n \in 0..k |-> IF n = 0 THEN <<>> ELSE Joins(f[n - 1], docs[n], n, split)]

\* The recursion has a solution, so that the stream is one.
LEMMA StreamSolves ==
  ASSUME NEW docs, Len(docs) \in Nat, NEW split
  PROVE  \E f : Solves(f, docs, split, Len(docs)) /\ Stream(docs, split) = f[Len(docs)]
<1> DEFINE S == {k \in Nat : \E f : Solves(f, docs, split, k)}
<1>1. 0 \in S
  <2> DEFINE f == [n \in 0..0 |-> <<>>]
  <2>1. f = [n \in 0..0 |-> IF n = 0 THEN <<>> ELSE Joins(f[n - 1], docs[n], n, split)]
    OBVIOUS
  <2> HIDE DEF f
  <2> QED  BY <2>1 DEF Solves
<1>2. ASSUME NEW k \in S PROVE k + 1 \in S
  <2>1. PICK f : Solves(f, docs, split, k)
    OBVIOUS
  <2> DEFINE g == [n \in 0..k + 1 |-> IF n <= k THEN f[n] ELSE Joins(f[k], docs[k + 1], k + 1, split)]
  <2>2. \A n \in 0..k : g[n] = f[n]
    OBVIOUS
  <2>3. \A n \in 0..k : f[n] = IF n = 0 THEN <<>> ELSE Joins(f[n - 1], docs[n], n, split)
    BY <2>1 DEF Solves
  <2>4. \A n \in 0..k + 1 : g[n] = IF n = 0 THEN <<>> ELSE Joins(g[n - 1], docs[n], n, split)
    <3>1. ASSUME NEW n \in 0..k + 1, n <= k
          PROVE  g[n] = IF n = 0 THEN <<>> ELSE Joins(g[n - 1], docs[n], n, split)
      <4>1. n \in 0..k /\ (n # 0 => n - 1 \in 0..k)
        BY <3>1
      <4> HIDE DEF g
      <4> QED  BY <2>2, <2>3, <4>1
    <3>2. g[k + 1] = Joins(f[k], docs[k + 1], k + 1, split) /\ k \in 0..k
      OBVIOUS
    <3>3. ASSUME NEW n \in 0..k + 1, ~(n <= k)
          PROVE  g[n] = IF n = 0 THEN <<>> ELSE Joins(g[n - 1], docs[n], n, split)
      <4>1. n = k + 1 /\ n # 0 /\ n - 1 = k
        BY <3>3
      <4> HIDE DEF g
      <4> QED  BY <2>2, <3>2, <4>1
    <3> QED  BY <3>1, <3>3
  <2>5. Solves(g, docs, split, k + 1)
    <3>1. DOMAIN g = 0..k + 1 /\ g = [n \in DOMAIN g |-> g[n]]
      OBVIOUS
    <3> HIDE DEF g
    <3> QED  BY <2>4, <3>1 DEF Solves
  <2> QED  BY <2>5
<1>3. S = Nat
  <2> HIDE DEF S
  <2>1. S \in SUBSET Nat
    BY DEF S
  <2> QED  BY <1>1, <1>2, <2>1, Induction
<1>4. \E f : Solves(f, docs, split, Len(docs))
  BY <1>3
<1> QED  BY <1>4 DEF Solves, Stream

\* No document, no token.
LEMMA StreamStarts ==
  ASSUME NEW split
  PROVE  Stream(<<>>, split) = <<>>
<1>1. <<>> \in Seq({}) /\ Len(<<>>) = 0
  OBVIOUS
<1>2. PICK f : Solves(f, <<>>, split, 0) /\ Stream(<<>>, split) = f[0]
  BY <1>1, StreamSolves
<1>3. f[0] = <<>>
  BY <1>2 DEF Solves
<1> QED  BY <1>2, <1>3

\* A document more.
LEMMA StreamStep ==
  ASSUME NEW docs \in Seq(Doc), NEW doc \in Doc, NEW split
  PROVE  Stream(Append(docs, doc), split)
           = Joins(Stream(docs, split), doc, Len(docs) + 1, split)
<1> DEFINE more == Append(docs, doc)
           len == Len(docs)
<1>1. /\ Len(more) = len + 1 /\ len \in Nat
      /\ \A n \in 1..len : more[n] = docs[n]
      /\ more[len + 1] = doc
  OBVIOUS
<1>2. PICK a : Solves(a, docs, split, len) /\ Stream(docs, split) = a[len]
  BY <1>1, StreamSolves
<1> HIDE DEF more, len
<1>3. PICK b : Solves(b, more, split, len + 1) /\ Stream(more, split) = b[len + 1]
  <2>1. Len(more) \in Nat
    BY <1>1
  <2> QED  BY <1>1, <2>1, StreamSolves
<1>4. /\ \A n \in 0..len : a[n] = IF n = 0 THEN <<>> ELSE Joins(a[n - 1], docs[n], n, split)
      /\ \A n \in 0..len + 1 : b[n] = IF n = 0 THEN <<>> ELSE Joins(b[n - 1], more[n], n, split)
  BY <1>1, <1>2, <1>3 DEF Solves
<1> DEFINE S == {n \in Nat : n <= len => b[n] = a[n]}
<1>5. 0 \in S
  BY <1>1, <1>4
<1>6. ASSUME NEW n \in S PROVE n + 1 \in S
  <2> SUFFICES ASSUME n + 1 <= len PROVE b[n + 1] = a[n + 1]
    OBVIOUS
  <2>1. /\ n + 1 \in 0..len /\ n + 1 \in 0..len + 1 /\ n + 1 \in 1..len
        /\ n + 1 # 0 /\ (n + 1) - 1 = n /\ b[n] = a[n]
    BY <1>1
  <2>2. /\ a[n + 1] = Joins(a[n], docs[n + 1], n + 1, split)
        /\ b[n + 1] = Joins(b[n], more[n + 1], n + 1, split)
    BY <1>4, <2>1
  <2>3. more[n + 1] = docs[n + 1]
    BY <1>1, <2>1
  <2> QED  BY <2>1, <2>2, <2>3
<1>7. S = Nat
  <2> HIDE DEF S
  <2>1. S \in SUBSET Nat
    BY DEF S
  <2> QED  BY <1>5, <1>6, <2>1, Induction
<1>8. b[len] = a[len]
  BY <1>1, <1>7
<1>9. len + 1 \in 0..len + 1 /\ len + 1 # 0 /\ (len + 1) - 1 = len
  BY <1>1
<1>10. b[len + 1] = Joins(b[len], doc, len + 1, split)
  BY <1>1, <1>4, <1>9
<1> QED  BY <1>2, <1>3, <1>8, <1>10 DEF more, len

\* Tokens and owners are cut alike.
LEMMA Halves ==
  ASSUME NEW a \in Seq(Pair)
  PROVE  /\ Tokens(a) \in Seq(Data) /\ Len(Tokens(a)) = Len(a)
         /\ Owners(a) \in Seq(Data) /\ Len(Owners(a)) = Len(a)
<1>1. Len(a) \in Nat /\ DOMAIN a = 1..Len(a) /\ \A i \in 1..Len(a) : a[i] \in Pair
  OBVIOUS
<1>2. /\ Tokens(a) \in [1..Len(a) -> Data]
      /\ Owners(a) \in [1..Len(a) -> Data]
  BY <1>1 DEF Tokens, Owners, Pair, Data
<1> QED  BY <1>1, <1>2

LEMMA HalvesOfConcat ==
  ASSUME NEW a \in Seq(Pair), NEW b \in Seq(Pair)
  PROVE  /\ Tokens(a \o b) = Tokens(a) \o Tokens(b)
         /\ Owners(a \o b) = Owners(a) \o Owners(b)
<1> DEFINE c == a \o b
           m == Len(a)
           n == Len(b)
<1>1. /\ c \in Seq(Pair) /\ Len(c) = m + n /\ m \in Nat /\ n \in Nat
      /\ DOMAIN a = 1..m /\ DOMAIN b = 1..n /\ DOMAIN c = 1..m + n
      /\ \A i \in 1..m + n : c[i] = IF i <= m THEN a[i] ELSE b[i - m]
  BY ConcatProperties
<1>2. /\ Tokens(a) \in Seq(Data) /\ Tokens(b) \in Seq(Data) /\ Tokens(c) \in Seq(Data)
      /\ Owners(a) \in Seq(Data) /\ Owners(b) \in Seq(Data) /\ Owners(c) \in Seq(Data)
      /\ Len(Tokens(a)) = m /\ Len(Tokens(b)) = n /\ Len(Tokens(c)) = m + n
      /\ Len(Owners(a)) = m /\ Len(Owners(b)) = n /\ Len(Owners(c)) = m + n
  BY <1>1, Halves
<1> HIDE DEF c, m, n
<1>3. ASSUME NEW x \in Seq(Data), NEW y \in Seq(Data), NEW z \in Seq(Data),
             Len(x) = m, Len(y) = n, Len(z) = m + n,
             \A i \in 1..m : z[i] = x[i], \A i \in m + 1..m + n : z[i] = y[i - m]
      PROVE  z = x \o y
  <2>1. /\ x \o y \in Seq(Data) /\ Len(x \o y) = m + n
        /\ \A i \in 1..m + n : (x \o y)[i] = IF i <= m THEN x[i] ELSE y[i - m]
    BY <1>3, ConcatProperties
  <2>2. \A i \in 1..m + n : z[i] = (x \o y)[i]
    <3> SUFFICES ASSUME NEW i \in 1..m + n PROVE z[i] = (x \o y)[i]
      OBVIOUS
    <3>1. (i <= m /\ i \in 1..m) \/ (~(i <= m) /\ i \in m + 1..m + n)
      BY <1>1
    <3> QED  BY <1>3, <2>1, <3>1
  <2> QED  BY <1>3, <2>1, <2>2, SeqEqual
<1>4. /\ \A i \in 1..m : i \in 1..m + n /\ i <= m
      /\ \A i \in m + 1..m + n : i \in 1..m + n /\ ~(i <= m) /\ i - m \in 1..n
  BY <1>1
<1>5. /\ \A i \in 1..m : Tokens(c)[i] = Tokens(a)[i] /\ Owners(c)[i] = Owners(a)[i]
      /\ \A i \in m + 1..m + n : /\ Tokens(c)[i] = Tokens(b)[i - m]
                                 /\ Owners(c)[i] = Owners(b)[i - m]
  BY <1>1, <1>4 DEF Tokens, Owners
<1> QED  BY <1>2, <1>3, <1>5 DEF c

\* What a document adds to them.
LEMMA MarkedTyped ==
  ASSUME NEW doc \in Doc, NEW n \in Nat
  PROVE  /\ Marked(doc, n) \in Seq(Pair)
         /\ Tokens(Marked(doc, n)) = Encoded(doc.text)
         /\ Owners(Marked(doc, n)) = [i \in DOMAIN Encoded(doc.text) |-> n]
<1> DEFINE ids == Encoded(doc.text)
           len == Len(doc.text) + 1
           a == Marked(doc, n)
<1>1. ids \in Seq(Spoken \cup {Eos}) /\ Len(ids) = len /\ len \in Nat
  <2>1. doc.text \in Seq(Spoken)
    BY DEF Doc
  <2>2. doc.text \in Seq(Spoken \cup {Eos}) /\ <<Eos>> \in Seq(Spoken \cup {Eos}) /\ Len(<<Eos>>) = 1
    BY <2>1, SeqMonotonic
  <2> QED  BY <2>1, <2>2, ConcatProperties DEF Encoded
<1>2. a = [i \in 1..len |-> [token |-> ids[i], doc |-> n]]
  BY DEF Marked
<1> HIDE DEF ids, len, a
<1>3. \A i \in 1..len : ids[i] \in Spoken \cup {Eos}
  BY <1>1
<1>4. a \in [1..len -> Pair]
  BY <1>2, <1>3 DEF Pair
<1>5. a \in Seq(Pair)
  BY <1>1, <1>4
<1>6. DOMAIN a = 1..len /\ DOMAIN ids = 1..len
  BY <1>1, <1>4
<1>7. Tokens(a) = [i \in 1..len |-> ids[i]]
  BY <1>2, <1>6 DEF Tokens
<1>8. ids = [i \in 1..len |-> ids[i]]
  <2>1. ids \in [1..len -> Spoken \cup {Eos}]
    BY <1>1, LenProperties
  <2> QED  BY <2>1
<1>9. Owners(a) = [i \in 1..len |-> n]
  BY <1>2, <1>6 DEF Owners
<1> QED  BY <1>5, <1>6, <1>7, <1>8, <1>9 DEF ids, a

-----------------------------------------------------------------------------
(* A writer, the buffer before it, and the files behind it.                *)

Writer == [tokens : Seq(Data), records : Seq(Shard)]

SplitOf(dir) == IF dir \in {"train", "train_docs"} THEN "train" ELSE "val"

\* What a directory is to hold: the tokens of its split, or their owners; the
\* part of it that is not yet given to the writer; and how much is.
Text(dir) ==
  IF dir \in Splits THEN Tokens(Stream(kept, SplitOf(dir))) ELSE Owners(Stream(kept, SplitOf(dir)))
Rest(dir) == IF dir \in Splits THEN buffers[SplitOf(dir)] ELSE owners[SplitOf(dir)]
Given(dir) == Len(Text(dir)) - Len(Rest(dir))

Used(dir) == dir \in Splits \/ conf.pack

Types ==
  /\ conf \in Confs
  /\ pending \in Seq([node : Nodes, depth : 0..MaxArchiveDepth])
  /\ queue \in Seq(Seq(Spoken))
  /\ kept \in Seq(Doc)
  /\ \A s \in Splits : Stream(kept, s) \in Seq(Pair)
  /\ buffers \in [Splits -> Seq(Data)] /\ owners \in [Splits -> Seq(Data)]
  /\ writers \in [Dirs -> Writer] /\ files \in [Dirs -> Seq(Shard)]

\* A writer and the buffer before it share out the text.
Follows(dir) ==
  IF Used(dir)
  THEN /\ Rest(dir) = SubSeq(Text(dir), Given(dir) + 1, Len(Text(dir)))
       /\ Wrote(writers[dir], Text(dir), Given(dir), WidthOf(dir))
  ELSE writers[dir] = Closed /\ Rest(dir) = <<>>

\* The files of a directory are the ones its writer recorded.
Stored(dir) ==
  LET records == writers[dir].records
  IN /\ Len(records) <= Len(files[dir])
     /\ \A i \in 1..Len(records) : files[dir][i] = records[i]

\* All the shards are full: more tokens may come.
Receiving(dir) == At(Len(writers[dir].records)) <= Given(dir)

\* The four directories: two splits, each with its tokens and its owners.
LEMMA DirsTyped ==
  /\ \A s \in Splits : s \in Dirs /\ DocsOf(s) \in Dirs /\ SplitOf(s) = s
                       /\ SplitOf(DocsOf(s)) = s /\ DocsOf(s) \notin Splits
  /\ \A d \in Dirs : SplitOf(d) \in Splits /\ (d = SplitOf(d) \/ d = DocsOf(SplitOf(d)))
BY DEF Splits, Dirs, DocsOf, SplitOf

LEMMA TextTyped ==
  ASSUME Types, NEW dir \in Dirs
  PROVE  /\ Text(dir) \in Seq(Data) /\ Rest(dir) \in Seq(Data)
         /\ Len(Text(dir)) = Len(Stream(kept, SplitOf(dir)))
         /\ Len(Text(dir)) \in Nat /\ Len(Rest(dir)) \in Nat /\ Given(dir) \in Int
<1>1. SplitOf(dir) \in Splits
  BY DirsTyped
<1>2. Stream(kept, SplitOf(dir)) \in Seq(Pair)
  BY <1>1 DEF Types
<1>3. Text(dir) \in Seq(Data) /\ Len(Text(dir)) = Len(Stream(kept, SplitOf(dir)))
  BY <1>2, Halves DEF Text
<1>4. Rest(dir) \in Seq(Data)
  BY <1>1 DEF Rest, Types
<1>5. Len(Text(dir)) \in Nat /\ Len(Rest(dir)) \in Nat
  BY <1>3, <1>4, LenProperties
<1> QED  BY <1>3, <1>4, <1>5 DEF Given

\* _flush: the writer records the shards, and the files are those shards.
LEMMA FlushEffect ==
  ASSUME Types, NEW dir \in Dirs, Stored(dir),
         NEW pieces, NEW rest \in Seq(Data), NEW shards \in Seq(Shard),
         shards = [i \in DOMAIN pieces |-> [tokens |-> pieces[i], width |-> WidthOf(dir)]],
         Len(pieces) = Len(shards),
         Flush(dir, pieces, rest)
  PROVE  /\ writers' \in [Dirs -> Writer] /\ files' \in [Dirs -> Seq(Shard)]
         /\ writers'[dir] = [tokens |-> rest, records |-> writers[dir].records \o shards]
         /\ Stored(dir)'
         /\ \A d \in Dirs \ {dir} : writers'[d] = writers[d] /\ files'[d] = files[d]
<1> DEFINE records == writers[dir].records
           n == Len(records)
           k == Len(shards)
           fs == files[dir]
           new == [i \in 1..Max({Len(fs), n + k}) |->
                    IF i \in n + 1..n + k THEN shards[i - n] ELSE fs[i]]
           v == [tokens |-> rest, records |-> records \o shards]
<1>1. /\ records \in Seq(Shard) /\ fs \in Seq(Shard)
      /\ writers \in [Dirs -> Writer] /\ files \in [Dirs -> Seq(Shard)]
  BY DEF Types, Writer
<1>2. n <= Len(fs) /\ \A i \in 1..n : fs[i] = records[i]
  BY DEF Stored
<1>3. /\ new \in Seq(Shard) /\ n + k <= Len(new)
      /\ \A i \in 1..n + k : new[i] = (records \o shards)[i]
  <2> HIDE DEF records, fs, n, k
  <2>1. LET m == Len(records)
            l == Len(shards)
            x == [i \in 1..Max({Len(fs), m + l}) |->
                    IF i \in m + 1..m + l THEN shards[i - m] ELSE fs[i]]
        IN /\ x \in Seq(Shard) /\ m + l <= Len(x)
           /\ \A i \in 1..m + l : x[i] = (records \o shards)[i]
    <3>1. Len(records) <= Len(fs) /\ \A i \in 1..Len(records) : fs[i] = records[i]
      BY <1>2 DEF n
    <3> QED  BY <1>1, <3>1, FilesFollow
  <2> QED  BY <2>1 DEF n, k
<1>4. v \in Writer /\ records \o shards \in Seq(Shard) /\ Len(records \o shards) = n + k
  BY <1>1 DEF Writer
<1>5. writers' = [writers EXCEPT ![dir] = v]
  BY DEF Flush
<1>6. files' = [files EXCEPT ![dir] = new]
  BY DEF Flush
<1> HIDE DEF v, new
<1>7. writers' \in [Dirs -> Writer] /\ writers'[dir] = v
      /\ \A d \in Dirs \ {dir} : writers'[d] = writers[d]
  BY <1>1, <1>4, <1>5
<1>8. files' \in [Dirs -> Seq(Shard)] /\ files'[dir] = new
      /\ \A d \in Dirs \ {dir} : files'[d] = files[d]
  BY <1>1, <1>3, <1>6
<1>9. Stored(dir)'
  <2>1. writers'[dir].records = records \o shards
    BY <1>7 DEF v
  <2> HIDE DEF records, n, k
  <2> QED  BY <1>3, <1>4, <1>8, <2>1 DEF Stored
<1> QED  BY <1>7, <1>8, <1>9 DEF v

LEMMA WidthTyped == \A dir : WidthOf(dir) \in {16, 32}
BY DEF WidthOf, Width

\* push: the first tokens of a buffer go to the writer.
LEMMA AddEffect ==
  ASSUME Types, NEW dir \in Dirs, Used(dir), Follows(dir), Stored(dir), Receiving(dir),
         NEW k \in Nat, k <= Len(Rest(dir)),
         AddTokens(dir, SubSeq(Rest(dir), 1, k))
  PROVE  LET cut == Given(dir) + k
         IN /\ Wrote(writers'[dir], Text(dir), cut, WidthOf(dir))
            /\ At(Len(writers'[dir].records)) <= cut
            /\ Stored(dir)'
            /\ writers' \in [Dirs -> Writer] /\ files' \in [Dirs -> Seq(Shard)]
            /\ \A d \in Dirs \ {dir} : writers'[d] = writers[d] /\ files'[d] = files[d]
            /\ SubSeq(Rest(dir), k + 1, Len(Rest(dir))) = SubSeq(Text(dir), cut + 1, Len(Text(dir)))
<1> DEFINE text == Text(dir)
           rest == Rest(dir)
           start == Given(dir)
           cut == start + k
           w == writers[dir]
           width == WidthOf(dir)
<1>1. /\ text \in Seq(Data) /\ rest \in Seq(Data) /\ Len(text) \in Nat /\ Len(rest) \in Nat
      /\ start = Len(text) - Len(rest) /\ start \in Int
  BY TextTyped DEF Given
<1>2. rest = SubSeq(text, start + 1, Len(text)) /\ Wrote(w, text, start, width)
  BY DEF Follows
<1>3. At(Len(w.records)) <= start
  BY DEF Receiving
<1>4. width \in {16, 32}
  BY WidthTyped
<1>5. w \in Writer
  BY DEF Types
<1>6. AddTokens(dir, SubSeq(rest, 1, k))
  OBVIOUS
<1>7. k <= Len(rest)
  OBVIOUS
<1> HIDE DEF text, rest, start, w, width
<1>8. start \in Nat /\ start <= Len(text) /\ cut <= Len(text)
  <2>1. start \in 0..Len(text)
    BY <1>2 DEF Wrote
  <2> QED  BY <1>1, <1>7, <2>1
<1>9. SubSeq(rest, 1, k) = SubSeq(text, start + 1, start + k)
      /\ SubSeq(rest, k + 1, Len(rest)) = SubSeq(text, cut + 1, Len(text))
  <2> DEFINE a == start + 1
             b == Len(text)
             l == Len(rest)
  <2>1. /\ a \in Nat \ {0} /\ b \in Int /\ b <= Len(text) /\ a <= b + 1
        /\ k <= b - a + 1 /\ l <= b - a + 1 /\ 1 \in Nat \ {0} /\ k + 1 \in Nat \ {0}
        /\ k \in Int /\ l \in Int
        /\ a + 1 - 1 = start + 1 /\ a + k - 1 = start + k
        /\ a + (k + 1) - 1 = cut + 1 /\ a + l - 1 = Len(text)
    BY <1>1, <1>7, <1>8
  <2>2. rest = SubSeq(text, a, b)
    BY <1>2
  <2> HIDE DEF a, b, l
  <2>3. SubSeq(SubSeq(text, a, b), 1, k) = SubSeq(text, a + 1 - 1, a + k - 1)
    BY <1>1, <2>1, MiddleOfMiddle
  <2>4. SubSeq(SubSeq(text, a, b), k + 1, l) = SubSeq(text, a + (k + 1) - 1, a + l - 1)
    BY <1>1, <2>1, MiddleOfMiddle
  <2> QED  BY <2>1, <2>2, <2>3, <2>4 DEF l
<1> DEFINE all == w.tokens \o SubSeq(text, start + 1, start + k)
           full == Len(all) \div ShardSize
           shards == [i \in 1..full |->
                       [tokens |-> SubSeq(all, At(i - 1) + 1, At(i)), width |-> width]]
           left == SubSeq(all, At(full) + 1, Len(all))
           v == [tokens |-> left, records |-> w.records \o shards]
           pieces == [i \in 1..full |-> SubSeq(all, (i - 1) * ShardSize + 1, i * ShardSize)]
<1>10. /\ full \in Nat /\ shards \in Seq(Shard) /\ Len(shards) = full
       /\ Wrote(v, text, start + k, width)
       /\ At(Len(v.records)) <= start + k
  <2>1. start + k <= Len(text) /\ text \in Seq(Data) /\ Wrote(w, text, start, width)
        /\ At(Len(w.records)) <= start
    BY <1>1, <1>2, <1>3, <1>8
  <2>2. LET a == w.tokens \o SubSeq(text, start + 1, start + k)
            f == Len(a) \div ShardSize
            x == [i \in 1..f |->
                   [tokens |-> SubSeq(a, At(i - 1) + 1, At(i)), width |-> width]]
            u == [tokens |-> SubSeq(a, At(f) + 1, Len(a)), records |-> w.records \o x]
        IN /\ f \in Nat /\ x \in Seq(Shard) /\ Len(x) = f
           /\ Wrote(u, text, start + k, width)
           /\ At(Len(u.records)) <= start + k
    <3> HIDE DEF cut
    <3> QED  BY <1>4, <2>1, WroteMore, Zenon
  <2> QED  BY <2>2
<1>11. Flush(dir, pieces, left)
  BY <1>6, <1>9 DEF AddTokens, At, w
<1>12. all \in Seq(Data)
  <2>1. start + 1 \in Nat \ {0} /\ start + k \in Int /\ start + k <= Len(text)
    BY <1>8
  <2>2. SubSeq(text, start + 1, start + k) \in Seq(Data)
    BY <1>1, <2>1, Middle
  <2> QED  BY <1>5, <2>2 DEF Writer
<1> HIDE DEF all
<1>13. left \in Seq(Data)
  <2>1. At(full) + 1 \in Nat \ {0} /\ Len(all) \in Int /\ Len(all) <= Len(all)
    <3> HIDE DEF full
    <3>1. At(full) \in Nat
      BY <1>10, AtNat
    <3>2. Len(all) \in Nat
      BY <1>12
    <3> QED  BY <3>1, <3>2
  <2> HIDE DEF full
  <2> QED  BY <1>12, <2>1, Middle
<1> HIDE DEF full
<1>14. DOMAIN pieces = 1..full /\ Len(pieces) = full
  BY <1>10
<1>15. shards = [i \in DOMAIN pieces |-> [tokens |-> pieces[i], width |-> WidthOf(dir)]]
  BY <1>14 DEF At, width
<1> HIDE DEF shards, pieces, left
<1>16. /\ writers' \in [Dirs -> Writer] /\ files' \in [Dirs -> Seq(Shard)]
       /\ writers'[dir] = [tokens |-> left, records |-> writers[dir].records \o shards]
       /\ Stored(dir)'
       /\ \A d \in Dirs \ {dir} : writers'[d] = writers[d] /\ files'[d] = files[d]
  BY <1>10, <1>11, <1>13, <1>14, <1>15, FlushEffect
<1>17. writers'[dir] = v
  BY <1>16 DEF w
<1> HIDE DEF v
<1> QED  BY <1>9, <1>10, <1>16, <1>17 DEF text, rest, start, width

\* finalize: a writer that is given nothing more keeps nothing back.
LEMMA FinalizeEffect ==
  ASSUME Types, NEW dir \in Dirs, Follows(dir), Stored(dir), Finalize(dir)
  PROVE  /\ Used(dir) => Wrote(writers'[dir], Text(dir), Given(dir), WidthOf(dir))
         /\ ~Used(dir) => writers'[dir] = writers[dir]
         /\ writers'[dir].tokens = <<>>
         /\ Stored(dir)'
         /\ writers' \in [Dirs -> Writer] /\ files' \in [Dirs -> Seq(Shard)]
         /\ \A d \in Dirs \ {dir} : writers'[d] = writers[d] /\ files'[d] = files[d]
<1> DEFINE w == writers[dir]
           text == Text(dir)
           width == WidthOf(dir)
           shard == [tokens |-> w.tokens, width |-> width]
           v == [tokens |-> <<>>, records |-> w.records \o <<shard>>]
<1>1. CASE w.tokens = <<>>
  <2>1. writers' = writers /\ files' = files
    BY <1>1 DEF Finalize
  <2> QED  BY <1>1, <2>1 DEF Follows, Stored, Types
<1>2. CASE w.tokens # <<>>
  <2>1. Used(dir)
    BY <1>2 DEF Follows, Closed
  <2>2. text \in Seq(Data) /\ Wrote(w, text, Given(dir), width) /\ width \in {16, 32}
    BY <2>1, TextTyped, WidthTyped DEF Follows
  <2>3. Flush(dir, <<w.tokens>>, <<>>)
    BY <1>2 DEF Finalize
  <2> HIDE DEF text, width
  <2>4. shard \in Shard /\ Wrote(v, text, Given(dir), width)
    <3> HIDE DEF w
    <3> QED  BY <1>2, <2>2, WroteLast
  <2>5. <<shard>> = [i \in DOMAIN <<w.tokens>> |-> [tokens |-> <<w.tokens>>[i], width |-> WidthOf(dir)]]
        /\ Len(<<w.tokens>>) = Len(<<shard>>)
    BY DEF width
  <2>6. <<shard>> \in Seq(Shard) /\ <<>> \in Seq(Data)
    <3> HIDE DEF shard
    <3> QED  BY <2>4
  <2> HIDE DEF shard
  <2>7. /\ writers' \in [Dirs -> Writer] /\ files' \in [Dirs -> Seq(Shard)]
        /\ writers'[dir] = [tokens |-> <<>>, records |-> writers[dir].records \o <<shard>>]
        /\ Stored(dir)'
        /\ \A d \in Dirs \ {dir} : writers'[d] = writers[d] /\ files'[d] = files[d]
    <3> DEFINE pieces == <<w.tokens>>
               shards == <<shard>>
               none == <<>>
    <3>1. /\ shards \in Seq(Shard) /\ none \in Seq(Data) /\ Len(pieces) = Len(shards)
          /\ shards = [i \in DOMAIN pieces |-> [tokens |-> pieces[i], width |-> WidthOf(dir)]]
          /\ Flush(dir, pieces, none)
      BY <2>3, <2>5, <2>6
    <3> HIDE DEF pieces, shards, none
    <3>2. /\ writers' \in [Dirs -> Writer] /\ files' \in [Dirs -> Seq(Shard)]
          /\ writers'[dir] = [tokens |-> none, records |-> writers[dir].records \o shards]
          /\ Stored(dir)'
          /\ \A d \in Dirs \ {dir} : writers'[d] = writers[d] /\ files'[d] = files[d]
      BY <3>1, FlushEffect
    <3> QED  BY <3>2 DEF shards, none
  <2>8. writers'[dir] = v /\ v.tokens = <<>>
    BY <2>7
  <2> HIDE DEF v
  <2> QED  BY <2>1, <2>4, <2>7, <2>8 DEF text, width
<1> QED  BY <1>1, <1>2

-----------------------------------------------------------------------------
(* What the cleaner lets through is made of the words of the sources.      *)

\* Min and Max of the community modules choose: there is a choice.
LEMMA LeastNumber ==
  ASSUME NEW S \in SUBSET Nat, S # {}
  PROVE  \E m \in S : \A k \in S : m <= k
<1> DEFINE R == OpToRel(<, Nat)
<1>1. IsWellFoundedOn(R, Nat)
  BY NatLessThanWellFounded
<1>2. \A x, y \in Nat : <<x, y>> \in R <=> x < y
  BY DEF OpToRel
<1> HIDE DEF R
<1>3. PICK m \in S : \A y \in S : ~ (<<y, m>> \in R)
  <2>1. PICK x : x \in S
    OBVIOUS
  <2> QED  BY <1>1, <2>1, WFMin
<1>4. ASSUME NEW k \in S, ~(m <= k) PROVE FALSE
  <2>1. k \in Nat /\ m \in Nat /\ k < m
    BY <1>4
  <2> QED  BY <1>2, <1>3, <2>1
<1> QED  BY <1>4

\* The text that is kept, after normalisation and redaction.
LEMMA ShownTyped ==
  ASSUME NEW c, NEW raw \in Seq(Spoken)
  PROVE  Shown(c, raw) \in Seq(Spoken)
<1> DEFINE plain == Normalized(raw)
           words == Words(plain)
<1>1. plain \in Seq(Spoken)
  <2>1. raw \in [1..Len(raw) -> Spoken] /\ Len(raw) \in Nat /\ DOMAIN raw = 1..Len(raw)
    BY LenProperties
  <2>2. plain \in [1..Len(raw) -> Spoken]
    BY <2>1, SpellingAssumption DEF Normalized
  <2> HIDE DEF plain
  <2> QED  BY <2>1, <2>2
<1> HIDE DEF plain
<1>2. words \subseteq 1..Len(plain) /\ Len(plain) \in Nat
  BY <1>1 DEF Words
<1> HIDE DEF words
<1>3. ASSUME words # {} PROVE Min(words) \in words /\ Max(words) \in words
  <2>1. \E m \in words : \A k \in words : m =< k
    <3>1. words \in SUBSET Nat
      BY <1>2
    <3> QED  BY <1>3, <3>1, LeastNumber
  <2> DEFINE S == {Len(plain) - i : i \in words}
  <2>2. \E m \in S : \A k \in S : m <= k
    <3>1. S \in SUBSET Nat
      BY <1>2
    <3>2. S # {}
      BY <1>3
    <3> HIDE DEF S
    <3> QED  BY <3>1, <3>2, LeastNumber
  <2>3. \E m \in words : \A k \in words : m >= k
    <3>1. PICK i \in words : \A k \in words : Len(plain) - i <= Len(plain) - k
      BY <2>2
    <3>2. \A k \in words : i >= k
      BY <1>2, <3>1
    <3> QED  BY <3>2
  <2> QED  BY <2>1, <2>3 DEF Min, Max
<1>4. Stripped(plain) \in Seq(Spoken)
  <2>1. CASE words = {}
    <3>1. Stripped(plain) = <<>>
      BY <2>1 DEF Stripped, words
    <3> QED  BY <3>1
  <2>2. CASE words # {}
    <3>1. Min(words) \in Nat \ {0} /\ Max(words) \in Int /\ Max(words) <= Len(plain)
      <4>1. Min(words) \in 1..Len(plain) /\ Max(words) \in 1..Len(plain)
        BY <1>2, <1>3, <2>2
      <4> QED  BY <1>2, <4>1
    <3>2. SubSeq(plain, Min(words), Max(words)) \in Seq(Spoken)
      BY <1>1, <3>1, Middle
    <3> QED  BY <2>2, <3>2 DEF Stripped, words
  <2> QED  BY <2>1, <2>2
<1> DEFINE text == Prepared(raw)
<1>5. text \in Seq(Spoken)
  BY <1>4 DEF Prepared, plain
<1> HIDE DEF text
<1>6. Redacted(text) \in Seq(Spoken)
  <2>1. text \in [1..Len(text) -> Spoken] /\ Len(text) \in Nat /\ DOMAIN text = 1..Len(text)
    BY <1>5, LenProperties
  <2>2. Redacted(text) \in [1..Len(text) -> Spoken]
    BY <2>1, SpellingAssumption DEF Redacted
  <2> QED  BY <2>1, <2>2
<1> QED  BY <1>5, <1>6 DEF Shown, text

-----------------------------------------------------------------------------
(* The invariant of a preparation.                                        *)

AtWork == {"documents", "push", "train_docs", "val_docs"}
Pushing == {"push", "train_docs", "val_docs"}
Phases == AtWork \cup {"idle", "refused", "close train_docs", "close val_docs", "close train",
                       "close val", "manifest", "verify"}

\* The writers that are closed.
ClosedAt ==
  CASE pc = "close val_docs" -> {"train_docs"}
    [] pc = "close train" -> {"train_docs", "val_docs"}
    [] pc = "close val" -> {"train_docs", "val_docs", "train"}
    [] pc \in {"manifest", "verify"} -> Dirs
    [] OTHER -> {}

\* Tokens and owners are given in step, a window of tokens first.
InStep ==
  \A s \in Splits :
    conf.pack => Given(s) = Given(DocsOf(s)) + (IF pc = DocsOf(s) THEN Window ELSE 0)

\* The shards of a manifest are the text of its documents, but for less than a
\* window.
Described(split) ==
  LET stream == Stream(manifest.kept, split)
  IN /\ stream \in Seq(Pair)
     /\ \E cut \in Nat :
          /\ Wrote([tokens |-> <<>>, records |-> manifest.splits[split]],
                   Tokens(stream), cut, Width("auto"))
          /\ Len(Tokens(stream)) - cut < Window

ManifestInv ==
  manifest # None =>
    /\ DOMAIN manifest.splits \subseteq Splits
    /\ \A s \in DOMAIN manifest.splits : Described(s)

Saved ==
  /\ manifest.kept = kept
  /\ manifest.pack = conf.pack
  /\ DOMAIN manifest.splits \subseteq Splits
  /\ \A s \in DOMAIN manifest.splits : manifest.splits[s] = writers[s].records

FlowInv ==
  /\ \A d \in Dirs : Follows(d) /\ Stored(d)
  /\ pc \in AtWork => \A d \in Dirs : Used(d) => Receiving(d)
  /\ pc \notin Pushing => \A s \in Splits : Len(buffers[s]) < Window
  /\ \A d \in ClosedAt : writers[d].tokens = <<>>
  /\ InStep
  /\ \A s \in Splits : pc = DocsOf(s) => conf.pack

DataInv ==
  /\ Types
  /\ pc \in Phases
  /\ FlowInv
  /\ ManifestInv
  /\ pc = "verify" => Saved

\* The width a reader will take the tokens to have.
Widths == \A c \in Confs : Width(c.dtype) = Width("auto")

LEMMA WindowTyped == Window \in Nat \ {0} /\ Window = SequenceLength + 1 /\ SequenceLength \in Nat \ {0}
BY LengthsAssumption DEF Window

-----------------------------------------------------------------------------
(* Between two preparations nothing is held.                               *)

Emptied ==
  /\ conf \in Confs
  /\ pending \in Seq([node : Nodes, depth : 0..MaxArchiveDepth])
  /\ queue = <<>> /\ kept = <<>>
  /\ buffers = [s \in Splits |-> <<>>] /\ owners = [s \in Splits |-> <<>>]
  /\ writers = [d \in Dirs |-> Closed]
  /\ files \in [Dirs -> Seq(Shard)]
  /\ pc \in {"idle", "refused", "documents"}

\* A new writer has written nothing.
LEMMA WroteNothing ==
  ASSUME NEW width
  PROVE  Wrote(Closed, <<>>, 0, width)
<1>1. Closed.records = <<>> /\ Closed.tokens = <<>> /\ Len(Closed.records) = 0 /\ Closed.records \in Seq(Shard)
  BY DEF Closed
<1>2. At(0) = 0 /\ At(0 + 1) = ShardSize /\ ShardSize \in Nat \ {0}
  BY AtStep, LengthsAssumption
<1> DEFINE n == Len(Closed.records)
<1>3. n = 0 /\ n + 1 = 1 /\ At(n) + 1 = 1 /\ 1..n = {}
  BY <1>1, <1>2
<1>4. SubSeq(<<>>, 1, 0) = <<>> /\ 0 \in 0..Len(<<>>) /\ 0 < At(1)
  BY <1>2, SubSeqEmpty
<1> HIDE DEF n
<1> QED  BY <1>1, <1>3, <1>4 DEF Wrote, n

LEMMA EmptiedFlows == Emptied => Types /\ FlowInv
<1> SUFFICES ASSUME Emptied PROVE Types /\ FlowInv
  OBVIOUS
<1>0. /\ <<>> \in Seq(Data) /\ <<>> \in Seq(Pair) /\ <<>> \in Seq(Shard) /\ <<>> \in Seq(Doc)
      /\ <<>> \in Seq(Seq(Spoken))
  OBVIOUS
<1>1. \A s \in Splits : Stream(kept, s) = <<>>
  BY StreamStarts DEF Emptied
<1>2. Closed \in Writer /\ Closed.records = <<>> /\ Closed.tokens = <<>>
  BY <1>0 DEF Closed, Writer
<1>3. Types
  BY <1>0, <1>1, <1>2 DEF Types, Emptied
<1>4. \A d \in Dirs : writers[d] = Closed
  BY DEF Emptied
<1>5. ASSUME NEW d \in Dirs
      PROVE  Text(d) = <<>> /\ Rest(d) = <<>> /\ Given(d) = 0
  <2>1. SplitOf(d) \in Splits /\ Stream(kept, SplitOf(d)) = <<>>
    BY <1>1, DirsTyped
  <2>2. Rest(d) = <<>>
    BY <2>1 DEF Rest, Emptied
  <2>3. Len(Text(d)) = 0 /\ Text(d) \in Seq(Data)
    BY <1>3, <2>1, TextTyped
  <2>4. Text(d) = <<>>
    BY <2>3
  <2> QED  BY <2>2, <2>4 DEF Given
<1>6. ASSUME NEW d \in Dirs
      PROVE  Follows(d) /\ Stored(d) /\ Receiving(d)
  <2>1. Wrote(Closed, <<>>, 0, WidthOf(d))
    BY WroteNothing
  <2>2. SubSeq(<<>>, 0 + 1, Len(<<>>)) = <<>>
    BY SubSeqEmpty
  <2>3. Follows(d)
    BY <1>4, <1>5, <2>1, <2>2 DEF Follows
  <2>4. Len(writers[d].records) = 0
    BY <1>2, <1>4
  <2>5. Len(files[d]) \in Nat
    BY <1>3 DEF Types
  <2>6. Stored(d)
    BY <2>4, <2>5 DEF Stored
  <2>7. Receiving(d)
    <3>1. At(0) = 0
      BY AtStep
    <3> QED  BY <1>5, <2>4, <3>1 DEF Receiving
  <2> QED  BY <2>3, <2>6, <2>7
<1>7. \A s \in Splits : Len(buffers[s]) < Window
  BY WindowTyped DEF Emptied
<1>8. pc \notin {"train_docs", "val_docs"} /\ ClosedAt = {}
  BY DEF Emptied, ClosedAt
<1>9. \A s \in Splits : pc # DocsOf(s)
  BY <1>8 DEF DocsOf
<1>10. InStep
  BY <1>5, <1>9, DirsTyped DEF InStep
<1> QED  BY <1>3, <1>6, <1>7, <1>8, <1>9, <1>10 DEF FlowInv

LEMMA EmptiedFlowsNext == Emptied' => Types' /\ FlowInv'
BY EmptiedFlows, PTL

LEMMA DataInit == Init => DataInv
<1> SUFFICES ASSUME Init PROVE DataInv
  OBVIOUS
<1>1. Emptied
  BY DEF Init, Emptied
<1>2. pc \in Phases /\ pc # "verify" /\ manifest = None
  BY DEF Init, Phases
<1> QED  BY <1>1, <1>2, EmptiedFlows DEF DataInv, ManifestInv

\* A preparation begins, or ends.
LEMMA DataEmptied ==
  ASSUME DataInv, Start \/ Verify \/ Crash
  PROVE  DataInv'
<1>1. Emptied'
  <2>1. files' = files /\ kept' = <<>> /\ queue' = <<>>
        /\ buffers' = [s \in Splits |-> <<>>] /\ owners' = [s \in Splits |-> <<>>]
        /\ writers' = [d \in Dirs |-> Closed] /\ pc' \in {"idle", "refused", "documents"}
        /\ conf' \in Confs
    BY DEF Start, Verify, Crash, Leave, disk, DataInv, Types
  <2>2. pending' \in Seq([node : Nodes, depth : 0..MaxArchiveDepth])
    <3>1. CASE Start
      <4>1. PICK corpus \in Corpora :
              pending' = [i \in DOMAIN corpus |-> [node |-> corpus[i], depth |-> 0]]
        BY <3>1 DEF Start
      <4>2. corpus \in Seq(Nodes)
        BY SourcesAssumption
      <4>3. corpus \in [1..Len(corpus) -> Nodes] /\ Len(corpus) \in Nat /\ DOMAIN corpus = 1..Len(corpus)
        BY <4>2, LenProperties
      <4> DEFINE Visit == [node : Nodes, depth : 0..MaxArchiveDepth]
      <4>4. pending' \in [1..Len(corpus) -> Visit]
        BY <4>1, <4>3, DepthAssumption
      <4> HIDE DEF Visit
      <4>5. pending' \in Seq(Visit)
        BY <4>3, <4>4
      <4> QED  BY <4>5 DEF Visit
    <3>2. CASE Verify \/ Crash
      <4>1. pending' = <<>>
        BY <3>2 DEF Verify, Crash, Leave
      <4> QED  BY <4>1
    <3> QED  BY <3>1, <3>2
  <2>3. files' \in [Dirs -> Seq(Shard)]
    BY <2>1 DEF DataInv, Types
  <2> QED  BY <2>1, <2>2, <2>3 DEF Emptied
<1>2. Types' /\ FlowInv'
  BY <1>1, EmptiedFlowsNext
<1>3. pc' \in Phases /\ pc' # "verify"
  BY <1>1 DEF Emptied, Phases, AtWork
<1>4. ManifestInv'
  <2>1. manifest' = manifest
    BY DEF Start, Verify, Crash, Leave, disk
  <2> QED  BY <2>1 DEF DataInv, ManifestInv, Described
<1> QED  BY <1>2, <1>3, <1>4 DEF DataInv

Visits == Seq([node : Nodes, depth : 0..MaxArchiveDepth])

\* A step that leaves texts, buffers and files alone.
-----------------------------------------------------------------------------
(* Reading the sources leaves the streams alone.                           *)

LEMMA Steady ==
  ASSUME DataInv, UNCHANGED <<conf, kept, buffers, owners, writers, files, manifest>>,
         pending' \in Visits, queue' \in Seq(Seq(Spoken))
  PROVE  /\ Types' /\ ManifestInv'
         /\ \A d \in Dirs : /\ Follows(d)' /\ Stored(d)' /\ Given(d)' = Given(d)
                            /\ (Receiving(d) => Receiving(d)') /\ Used(d)' = Used(d)
<1>1. Types'
  BY DEF DataInv, Types, Visits
<1>2. ManifestInv'
  BY DEF DataInv, ManifestInv, Described
<1>3. ASSUME NEW d \in Dirs
      PROVE  /\ Text(d)' = Text(d) /\ Rest(d)' = Rest(d) /\ Given(d)' = Given(d)
             /\ Used(d)' = Used(d) /\ WidthOf(d)' = WidthOf(d)
  BY DEF Text, Rest, Given, Used, WidthOf
<1>4. \A d \in Dirs : Follows(d) /\ Stored(d)
  BY DEF DataInv, FlowInv
<1>5. \A d \in Dirs : Follows(d)' /\ Stored(d)' /\ (Receiving(d) => Receiving(d)')
  BY <1>3, <1>4 DEF Follows, Stored, Receiving
<1> QED  BY <1>1, <1>2, <1>3, <1>5

\* Reading goes on, a buffer is no longer full, or the documents end.
LEMMA DataReads ==
  ASSUME DataInv, NextNode \/ Skip \/ Pushed \/ EndDocuments
  PROVE  DataInv'
<1>1. UNCHANGED <<conf, kept, buffers, owners, writers, files, manifest>>
  BY DEF NextNode, Skip, Pushed, EndDocuments, inputs, disk
<1>2. pending' \in Visits /\ queue' \in Seq(Seq(Spoken))
  <2>1. CASE NextNode
    <3> DEFINE next == Head(pending)
    <3>1. pending \in Visits /\ pending # <<>> /\ queue \in Seq(Seq(Spoken))
      BY <2>1 DEF NextNode, DataInv, Types, Visits
    <3>2. next.node \in Nodes /\ next.depth \in 0..MaxArchiveDepth /\ Tail(pending) \in Visits
      <4> DEFINE Visit == [node : Nodes, depth : 0..MaxArchiveDepth]
      <4>1. pending \in Seq(Visit)
        BY <3>1 DEF Visits
      <4> HIDE DEF Visit
      <4>2. next \in Visit /\ Tail(pending) \in Seq(Visit)
        BY <3>1, <4>1, HeadTailProperties
      <4> QED  BY <4>2 DEF Visit, Visits
    <3>3. CASE IsContainer(next.node)
      <4>1. Inside(next.node, next.depth) \in Visits
        BY <3>2, <3>3, SourcesAssumption DEF Visits
      <4>2. Inside(next.node, next.depth) \o Tail(pending) \in Visits
        BY <3>2, <4>1, ConcatProperties DEF Visits
      <4> QED  BY <2>1, <3>1, <3>3, <4>2 DEF NextNode
    <3>4. CASE ~IsContainer(next.node)
      <4>1. Documents(next.node) \in Seq(Seq(Spoken))
        BY <3>2, <3>4, SourcesAssumption
      <4> QED  BY <2>1, <3>2, <3>4, <4>1 DEF NextNode
    <3> QED  BY <3>3, <3>4
  <2>2. CASE Skip
    <3>1. queue \in Seq(Seq(Spoken)) /\ queue # <<>> /\ queue' = Tail(queue) /\ pending' = pending
      BY <2>2 DEF Skip, DataInv, Types
    <3> QED  BY <3>1 DEF DataInv, Types, Visits
  <2>3. CASE Pushed \/ EndDocuments
    BY <2>3 DEF Pushed, EndDocuments, inputs, DataInv, Types, Visits
  <2> QED  BY <2>1, <2>2, <2>3
<1>3. /\ Types' /\ ManifestInv'
      /\ \A d \in Dirs : /\ Follows(d)' /\ Stored(d)' /\ Given(d)' = Given(d)
                         /\ (Receiving(d) => Receiving(d)') /\ Used(d)' = Used(d)
  BY <1>1, <1>2, Steady
<1>4. /\ pc \in {"documents", "push"} /\ pc' \in {"documents", "close train_docs"}
      /\ pc = "push" => pc' = "documents"
      /\ pc' \in Phases
  BY DEF NextNode, Skip, Pushed, EndDocuments, DataInv, Phases, AtWork
<1>5. \A s \in Splits : Len(buffers'[s]) < Window
  <2>1. CASE Pushed
    <3>1. \A s \in Splits : Len(buffers[s]) \in Nat
      BY DEF DataInv, Types
    <3> QED  BY <1>1, <2>1, <3>1, WindowTyped DEF Pushed, FullWindow
  <2>2. CASE ~Pushed
    <3>1. pc = "documents"
      BY <2>2 DEF NextNode, Skip, EndDocuments
    <3> QED  BY <1>1, <3>1 DEF DataInv, FlowInv, Pushing
  <2> QED  BY <2>1, <2>2
<1>6. pc' \in AtWork => \A d \in Dirs : Used(d)' => Receiving(d)'
  <2>1. \A d \in Dirs : Used(d) => Receiving(d)
    BY <1>4 DEF DataInv, FlowInv, AtWork
  <2> QED  BY <1>3, <2>1
<1>7. ClosedAt' = {} /\ \A s \in Splits : pc' # DocsOf(s) /\ pc # DocsOf(s)
  BY <1>4 DEF ClosedAt, DocsOf
<1>8. InStep'
  <2>1. \A s \in Splits : conf.pack => Given(s) = Given(DocsOf(s)) + 0
    BY <1>7 DEF DataInv, FlowInv, InStep
  <2> QED  BY <1>1, <1>3, <1>7, <2>1, DirsTyped DEF InStep
<1>9. FlowInv'
  BY <1>3, <1>5, <1>6, <1>7, <1>8 DEF FlowInv
<1> QED  BY <1>3, <1>4, <1>9 DEF DataInv

-----------------------------------------------------------------------------
(* A document.                                                             *)

LEMMA TailOfConcat ==
  ASSUME NEW S, NEW text \in Seq(S), NEW more \in Seq(S), NEW g \in 0..Len(text)
  PROVE  SubSeq(text \o more, g + 1, Len(text \o more)) = SubSeq(text, g + 1, Len(text)) \o more
<1> DEFINE long == text \o more
           m == Len(text)
           n == Len(more)
<1>1. long \in Seq(S) /\ Len(long) = m + n /\ m \in Nat /\ n \in Nat
  BY ConcatProperties
<1>2. SubSeq(long, g + 1, m) = SubSeq(text, g + 1, m)
  <2>1. g + 1 \in Nat \ {0} /\ m \in Int /\ m <= Len(text)
    BY <1>1
  <2> QED  BY <2>1, MiddleOfConcat
<1>3. SubSeq(long, m + 1, m + n) = more
  <2>1. CASE n = 0
    <3>1. more = <<>>
      BY <2>1
    <3>2. SubSeq(long, m + 1, m + n) = <<>>
      <4> HIDE DEF long, m, n
      <4>1. m + 1 \in Int /\ m + n \in Int /\ m + n < m + 1
        BY <1>1, <2>1
      <4> QED  BY <4>1, SubSeqEmpty
    <3> QED  BY <3>1, <3>2
  <2>2. CASE n # 0
    <3>1. m + 1 \in m + 1..m + n /\ m + n \in m + 1..m + n /\ m + 1 - m = 1 /\ m + n - m = n
      BY <1>1, <2>2
    <3>2. SubSeq(long, m + 1, m + n) = SubSeq(more, m + 1 - m, m + n - m)
      BY <3>1, SubSeqOfConcat2
    <3>3. SubSeq(more, 1, n) = more
      BY SubSeqFull
    <3> QED  BY <3>1, <3>2, <3>3
  <2> QED  BY <2>1, <2>2
<1>4. SubSeq(long, g + 1, m) \o SubSeq(long, m + 1, m + n) = SubSeq(long, g + 1, m + n)
  <2>1. g + 1 \in 1..Len(long) + 1 /\ m \in (g + 1) - 1..Len(long) /\ m + n \in m..Len(long)
    BY <1>1
  <2> HIDE DEF long, m, n
  <2> QED  BY <1>1, <2>1, ConcatAdjacentSubSeq
<1> QED  BY <1>1, <1>2, <1>3, <1>4

\* A text and the buffer at its end grow by the same.
LEMMA FollowsMore ==
  ASSUME NEW text \in Seq(Data), NEW rest \in Seq(Data), NEW more \in Seq(Data),
         NEW w, NEW width,
         rest = SubSeq(text, (Len(text) - Len(rest)) + 1, Len(text)),
         Wrote(w, text, Len(text) - Len(rest), width)
  PROVE  LET long == text \o more
             left == rest \o more
         IN /\ Len(long) - Len(left) = Len(text) - Len(rest)
            /\ left = SubSeq(long, (Len(long) - Len(left)) + 1, Len(long))
            /\ Wrote(w, long, Len(long) - Len(left), width)
<1> DEFINE long == text \o more
           left == rest \o more
           g == Len(text) - Len(rest)
<1>1. Len(long) - Len(left) = g
  <2>1. /\ Len(long) = Len(text) + Len(more) /\ Len(left) = Len(rest) + Len(more)
        /\ Len(text) \in Nat /\ Len(rest) \in Nat /\ Len(more) \in Nat
    BY ConcatProperties
  <2> HIDE DEF long, left
  <2> QED  BY <2>1
<1>2. g \in 0..Len(text)
  BY DEF Wrote
<1>3. Wrote(w, long, g, width)
  BY WroteLonger
<1>4. SubSeq(long, g + 1, Len(long)) = SubSeq(text, g + 1, Len(text)) \o more
  <2> HIDE DEF g
  <2> QED  BY <1>2, TailOfConcat
<1>5. left = SubSeq(long, g + 1, Len(long))
  BY <1>4
<1> QED  BY <1>1, <1>3, <1>5

LEMMA DataDocument ==
  ASSUME DataInv, Document
  PROVE  DataInv'
<1> DEFINE raw == Head(queue)
           text == Shown(conf, raw)
           ids == Encoded(text)
           n == Len(kept) + 1
<1>1. /\ UNCHANGED <<conf, pending, writers, files, manifest>> /\ pc = "documents"
      /\ queue # <<>> /\ queue' = Tail(queue)
  BY DEF Document, disk
<1>2. raw \in Seq(Spoken) /\ queue' \in Seq(Seq(Spoken)) /\ pending' \in Visits
  BY <1>1 DEF DataInv, Types, Visits
<1>3. text \in Seq(Spoken)
  BY <1>2, ShownTyped
<1>4. CASE ~Kept(conf, cleaner, raw)
  <2>1. UNCHANGED <<kept, buffers, owners>> /\ pc' = pc
    BY <1>4 DEF Document
  <2>2. /\ Types' /\ ManifestInv'
        /\ \A d \in Dirs : /\ Follows(d)' /\ Stored(d)' /\ Given(d)' = Given(d)
                           /\ (Receiving(d) => Receiving(d)') /\ Used(d)' = Used(d)
    BY <1>1, <1>2, <2>1, Steady
  <2>3. ClosedAt' = ClosedAt
    BY <2>1 DEF ClosedAt
  <2>4. InStep'
    BY <1>1, <2>1, <2>2, DirsTyped DEF InStep, DataInv, FlowInv
  <2>5. FlowInv'
    BY <1>1, <2>1, <2>2, <2>3, <2>4 DEF FlowInv, DataInv
  <2> QED  BY <1>1, <2>1, <2>2, <2>5 DEF DataInv
<1>5. CASE Kept(conf, cleaner, raw)
  <2>1. PICK split \in Splits :
          /\ kept' = Append(kept, [split |-> split, text |-> text])
          /\ buffers' = [buffers EXCEPT ![split] = @ \o ids]
          /\ owners' = IF ~conf.pack THEN owners
                       ELSE [owners EXCEPT ![split] = @ \o [i \in DOMAIN ids |-> n]]
          /\ pc' = "push"
    <3>1. (IF conf.val THEN Splits ELSE {"train"}) \subseteq Splits
      BY DEF Splits
    <3> QED  BY <1>5, <3>1 DEF Document
  <2> DEFINE doc == [split |-> split, text |-> text]
             marked == Marked(doc, n)
             numbers == [i \in DOMAIN ids |-> n]
  <2>2. doc \in Doc /\ n \in Nat /\ kept \in Seq(Doc) /\ kept' \in Seq(Doc)
    BY <1>3, <2>1 DEF Doc, DataInv, Types
  <2>3. /\ marked \in Seq(Pair) /\ Tokens(marked) = ids /\ Owners(marked) = numbers
        /\ ids \in Seq(Data) /\ numbers \in Seq(Data)
    <3>1. doc.text = text
      OBVIOUS
    <3> HIDE DEF doc, n, text, ids
    <3>2. marked \in Seq(Pair) /\ Tokens(marked) = Encoded(text) /\ Owners(marked) = [i \in DOMAIN Encoded(text) |-> n]
      BY <2>2, <3>1, MarkedTyped
    <3> HIDE DEF marked
    <3> QED  BY <3>2, Halves DEF ids
  <2>4. \A s \in Splits : Stream(kept', s) = Joins(Stream(kept, s), doc, n, s)
    <3> HIDE DEF doc
    <3> QED  BY <2>1, <2>2, StreamStep DEF doc
  <2>5. /\ \A s \in Splits : Stream(kept, s) \in Seq(Pair)
        /\ Stream(kept', split) = Stream(kept, split) \o marked
        /\ \A s \in Splits \ {split} : Stream(kept', s) = Stream(kept, s)
    BY <2>4 DEF Joins, DataInv, Types
  <2> HIDE DEF marked, numbers, ids, doc
  <2>6. \A s \in Splits : Stream(kept', s) \in Seq(Pair)
    <3>1. Stream(kept, split) \o marked \in Seq(Pair)
      <4> DEFINE a == Stream(kept, split)
      <4>1. a \in Seq(Pair)
        BY <2>5
      <4> HIDE DEF a
      <4> QED  BY <2>3, <4>1, ConcatProperties DEF a
    <3> QED  BY <2>5, <3>1
  <2>7. /\ Tokens(Stream(kept', split)) = Tokens(Stream(kept, split)) \o ids
        /\ Owners(Stream(kept', split)) = Owners(Stream(kept, split)) \o numbers
    BY <2>3, <2>5, HalvesOfConcat
  <2>8. /\ buffers \in [Splits -> Seq(Data)] /\ owners \in [Splits -> Seq(Data)]
        /\ buffers[split] \in Seq(Data) /\ owners[split] \in Seq(Data)
    BY DEF DataInv, Types
  <2>9. /\ buffers' \in [Splits -> Seq(Data)]
        /\ buffers'[split] = buffers[split] \o ids
        /\ \A s \in Splits \ {split} : buffers'[s] = buffers[s]
    <3>1. buffers[split] \o ids \in Seq(Data)
      BY <2>3, <2>8, ConcatProperties
    <3> QED  BY <2>1, <2>8, <3>1
  <2>10. /\ owners' \in [Splits -> Seq(Data)]
         /\ owners'[split] = IF conf.pack THEN owners[split] \o numbers ELSE owners[split]
         /\ \A s \in Splits \ {split} : owners'[s] = owners[s]
    <3>1. owners[split] \o numbers \in Seq(Data)
      BY <2>3, <2>8, ConcatProperties
    <3> QED  BY <2>1, <2>8, <3>1 DEF numbers
  <2>11. Types'
    BY <1>1, <1>2, <2>2, <2>6, <2>9, <2>10 DEF DataInv, Types, Visits
  <2>12. ManifestInv'
    BY <1>1 DEF DataInv, ManifestInv, Described
  <2>13. ASSUME NEW d \in Dirs
         PROVE  /\ Follows(d)' /\ Stored(d)' /\ (Used(d) => Given(d)' = Given(d))
                /\ (Used(d) /\ Receiving(d) => Receiving(d)') /\ Used(d)' = Used(d)
    <3>1. Follows(d) /\ Stored(d) /\ SplitOf(d) \in Splits
      BY DirsTyped DEF DataInv, FlowInv
    <3>2. Stored(d)' /\ Used(d)' = Used(d) /\ WidthOf(d)' = WidthOf(d)
      BY <1>1, <3>1 DEF Stored, Used, WidthOf
    <3>3. CASE SplitOf(d) # split
      <4>1. Text(d)' = Text(d) /\ Rest(d)' = Rest(d)
        BY <2>5, <2>9, <2>10, <3>1, <3>3 DEF Text, Rest
      <4> QED  BY <1>1, <3>1, <3>2, <4>1 DEF Follows, Given, Receiving
    <3>4. CASE SplitOf(d) = split /\ ~Used(d)
      <4>1. Rest(d)' = Rest(d)
        BY <2>10, <3>4 DEF Rest, Used
      <4> QED  BY <1>1, <3>1, <3>2, <3>4, <4>1 DEF Follows
    <3>5. CASE SplitOf(d) = split /\ Used(d)
      <4>1. PICK more \in Seq(Data) : Text(d)' = Text(d) \o more /\ Rest(d)' = Rest(d) \o more
        BY <2>3, <2>7, <2>9, <2>10, <3>5 DEF Text, Rest, Used
      <4>2. Text(d) \in Seq(Data) /\ Rest(d) \in Seq(Data)
        BY TextTyped DEF DataInv
      <4>3. /\ Rest(d) = SubSeq(Text(d), (Len(Text(d)) - Len(Rest(d))) + 1, Len(Text(d)))
            /\ Wrote(writers[d], Text(d), Len(Text(d)) - Len(Rest(d)), WidthOf(d))
        BY <3>1, <3>5 DEF Follows, Given
      <4> DEFINE x == Text(d)
                 y == Rest(d)
      <4> HIDE DEF x, y
      <4>4. /\ Len(x \o more) - Len(y \o more) = Len(x) - Len(y)
            /\ y \o more = SubSeq(x \o more, (Len(x \o more) - Len(y \o more)) + 1, Len(x \o more))
            /\ Wrote(writers[d], x \o more, Len(x \o more) - Len(y \o more), WidthOf(d))
        <5>1. /\ x \in Seq(Data) /\ y \in Seq(Data) /\ y = SubSeq(x, (Len(x) - Len(y)) + 1, Len(x))
              /\ Wrote(writers[d], x, Len(x) - Len(y), WidthOf(d))
          BY <4>2, <4>3 DEF x, y
        <5> QED  BY <5>1, FollowsMore
      <4>5. Text(d)' = x \o more /\ Rest(d)' = y \o more
        BY <4>1 DEF x, y
      <4>6. Given(d)' = Given(d)
        BY <4>4, <4>5 DEF Given, x, y
      <4>7. Follows(d)'
        BY <1>1, <3>2, <3>5, <4>4, <4>5 DEF Follows, Given
      <4> QED  BY <1>1, <3>2, <4>6, <4>7 DEF Receiving
    <3> QED  BY <3>3, <3>4, <3>5
  <2>14. /\ pc' \in Phases /\ pc' \in Pushing /\ pc' # "verify" /\ ClosedAt' = {}
         /\ \A s \in Splits : pc # DocsOf(s) /\ pc' # DocsOf(s)
    BY <1>1, <2>1 DEF Phases, AtWork, Pushing, ClosedAt, DocsOf
  <2>15. \A d \in Dirs : Used(d)' => Receiving(d)'
    <3>1. \A d \in Dirs : Used(d) => Receiving(d)
      BY <1>1 DEF DataInv, FlowInv, AtWork
    <3> QED  BY <2>13, <3>1
  <2>16. InStep'
    <3> SUFFICES ASSUME NEW s \in Splits, conf.pack
                 PROVE  Given(s)' = Given(DocsOf(s))' + 0
      BY <1>1, <2>14 DEF InStep
    <3>1. Given(s) = Given(DocsOf(s)) + 0
      BY <2>14 DEF DataInv, FlowInv, InStep
    <3>2. s \in Dirs /\ DocsOf(s) \in Dirs /\ Used(s) /\ Used(DocsOf(s))
      BY DirsTyped DEF Used
    <3> QED  BY <2>13, <3>1, <3>2
  <2>17. FlowInv'
    BY <2>13, <2>14, <2>15, <2>16 DEF FlowInv
  <2> QED  BY <2>11, <2>12, <2>14, <2>17 DEF DataInv
<1> QED  BY <1>4, <1>5

\* A window goes from a buffer to its writer.
-----------------------------------------------------------------------------
(* The windows that are pushed.                                            *)

LEMMA Pushes ==
  ASSUME DataInv, pc \in AtWork, NEW dir \in Dirs, Used(dir), Window <= Len(Rest(dir)),
         AddTokens(dir, SubSeq(Rest(dir), 1, Window)),
         UNCHANGED <<conf, pending, queue, kept, manifest>>,
         buffers' \in [Splits -> Seq(Data)], owners' \in [Splits -> Seq(Data)],
         Rest(dir)' = SubSeq(Rest(dir), Window + 1, Len(Rest(dir))),
         \A d \in Dirs \ {dir} : Rest(d)' = Rest(d)
  PROVE  /\ Types' /\ ManifestInv'
         /\ \A d \in Dirs : /\ Follows(d)' /\ Stored(d)' /\ (Used(d)' => Receiving(d)')
                            /\ Used(d)' = Used(d)
                            /\ Given(d)' = Given(d) + (IF d = dir THEN Window ELSE 0)
<1>1. /\ Types /\ \A d \in Dirs : Follows(d) /\ Stored(d) /\ (Used(d) => Receiving(d))
  BY DEF DataInv, FlowInv
<1> DEFINE cut == Given(dir) + Window
<1>2. /\ Wrote(writers'[dir], Text(dir), cut, WidthOf(dir))
      /\ At(Len(writers'[dir].records)) <= cut
      /\ Stored(dir)'
      /\ writers' \in [Dirs -> Writer] /\ files' \in [Dirs -> Seq(Shard)]
      /\ \A d \in Dirs \ {dir} : writers'[d] = writers[d] /\ files'[d] = files[d]
      /\ SubSeq(Rest(dir), Window + 1, Len(Rest(dir))) = SubSeq(Text(dir), cut + 1, Len(Text(dir)))
  <2>1. Window \in Nat
    BY WindowTyped
  <2> QED  BY <1>1, <2>1, AddEffect
<1>3. Types'
  BY <1>1, <1>2 DEF Types
<1>4. ManifestInv'
  BY DEF DataInv, ManifestInv, Described
<1>5. \A d \in Dirs : Text(d)' = Text(d) /\ Used(d)' = Used(d) /\ WidthOf(d)' = WidthOf(d)
  BY DEF Text, Used, WidthOf
<1>6. Given(dir)' = cut
  <2>1. /\ Rest(dir) \in Seq(Data) /\ Len(Rest(dir)) \in Nat /\ Len(Text(dir)) \in Nat
    BY <1>1, TextTyped
  <2> DEFINE rest == Rest(dir)
             l == Len(rest)
  <2>2. Window \in Nat /\ Window + 1 \in Nat \ {0} /\ l \in Int /\ l <= Len(rest) /\ Window <= l
    BY <2>1, WindowTyped
  <2>3. Len(SubSeq(rest, Window + 1, l)) = IF Window + 1 <= l THEN l - (Window + 1) + 1 ELSE 0
    <3> HIDE DEF rest, l
    <3>1. rest \in Seq(Data)
      BY <2>1 DEF rest
    <3> QED  BY <2>2, <3>1, Middle
  <2>4. Len(Rest(dir)') = l - Window
    BY <2>2, <2>3
  <2>5. Given(dir)' = Len(Text(dir)) - Len(Rest(dir)')
    BY <1>5 DEF Given
  <2>6. Given(dir) = Len(Text(dir)) - l /\ l \in Nat
    BY <2>1 DEF Given
  <2> DEFINE before == Given(dir)
             text == Len(Text(dir))
             after == Given(dir)'
             left == Len(Rest(dir)')
  <2>7. /\ left = l - Window /\ after = text - left /\ before = text - l
        /\ text \in Nat /\ l \in Nat /\ Window \in Nat
    BY <2>1, <2>2, <2>4, <2>5, <2>6
  <2>8. after = before + Window
    <3> HIDE DEF left, after, before, text, l
    <3> QED  BY <2>7
  <2> QED  BY <2>8
<1>7. Follows(dir)' /\ Receiving(dir)'
  <2>1. Rest(dir)' = SubSeq(Text(dir), cut + 1, Len(Text(dir)))
    BY <1>2
  <2> HIDE DEF cut
  <2> QED  BY <1>2, <1>5, <1>6, <2>1 DEF Follows, Receiving
<1>8. ASSUME NEW d \in Dirs \ {dir}
      PROVE  /\ Follows(d)' /\ Stored(d)' /\ (Used(d)' => Receiving(d)')
             /\ Given(d)' = Given(d)
  <2>1. Given(d)' = Given(d)
    BY <1>5 DEF Given
  <2>2. writers'[d] = writers[d] /\ files'[d] = files[d]
    BY <1>2
  <2> QED  BY <1>1, <1>5, <2>1, <2>2 DEF Follows, Stored, Receiving
<1>9. \A d \in Dirs : Given(d) \in Int
  BY <1>1, TextTyped
<1> QED  BY <1>2, <1>3, <1>4, <1>5, <1>6, <1>7, <1>8, <1>9

LEMMA DataPushTokens ==
  ASSUME DataInv, PushTokens
  PROVE  DataInv'
<1>1. PICK split \in Splits :
        /\ FullWindow(split)
        /\ AddTokens(split, SubSeq(buffers[split], 1, Window))
        /\ buffers' = [buffers EXCEPT ![split] = SubSeq(@, Window + 1, Len(@))]
        /\ pc' = IF conf.pack THEN DocsOf(split) ELSE "push"
  BY DEF PushTokens
<1>2. pc = "push" /\ UNCHANGED <<conf, pending, queue, kept, owners, manifest>>
  BY DEF PushTokens, inputs
<1>3. /\ split \in Dirs /\ Used(split) /\ Rest(split) = buffers[split]
      /\ \A d \in Dirs \ {split} : Rest(d)' = Rest(d)
      /\ buffers' \in [Splits -> Seq(Data)]
      /\ Rest(split)' = SubSeq(Rest(split), Window + 1, Len(Rest(split)))
  <2>1. split \in Dirs /\ SplitOf(split) = split /\ Used(split)
    BY DirsTyped DEF Used
  <2>2. buffers \in [Splits -> Seq(Data)] /\ buffers[split] \in Seq(Data) /\ Len(buffers[split]) \in Nat
    BY DEF DataInv, Types
  <2>3. SubSeq(buffers[split], Window + 1, Len(buffers[split])) \in Seq(Data)
    <3>1. Window + 1 \in Nat \ {0} /\ Len(buffers[split]) \in Int /\ Len(buffers[split]) <= Len(buffers[split])
      BY <2>2, WindowTyped
    <3> QED  BY <2>2, <3>1, Middle
  <2>4. /\ buffers' \in [Splits -> Seq(Data)]
        /\ buffers'[split] = SubSeq(buffers[split], Window + 1, Len(buffers[split]))
        /\ \A s \in Splits \ {split} : buffers'[s] = buffers[s]
    BY <1>1, <2>2, <2>3
  <2>5. ASSUME NEW d \in Dirs \ {split} PROVE Rest(d)' = Rest(d)
    <3>1. SplitOf(d) \in Splits /\ (d \in Splits => SplitOf(d) = d)
      BY DirsTyped
    <3> QED  BY <1>2, <2>4, <3>1 DEF Rest
  <2> QED  BY <2>1, <2>4, <2>5 DEF Rest
<1>4. Window <= Len(Rest(split))
  <2>1. Len(buffers[split]) \in Nat
    BY DEF DataInv, Types
  <2> QED  BY <1>1, <1>3, <2>1, WindowTyped DEF FullWindow
<1>5. pc \in AtWork /\ owners' \in [Splits -> Seq(Data)]
  BY <1>2 DEF AtWork, DataInv, Types
<1>6. /\ Types' /\ ManifestInv'
      /\ \A d \in Dirs : /\ Follows(d)' /\ Stored(d)' /\ (Used(d)' => Receiving(d)')
                         /\ Used(d)' = Used(d)
                         /\ Given(d)' = Given(d) + (IF d = split THEN Window ELSE 0)
  BY <1>1, <1>2, <1>3, <1>4, <1>5, Pushes
<1>7. /\ pc' \in Phases /\ pc' \in Pushing /\ pc' # "verify" /\ ClosedAt' = {}
      /\ \A s \in Splits : pc # DocsOf(s)
      /\ conf.pack => \A s \in Splits : pc' = DocsOf(s) <=> s = split
      /\ ~conf.pack => \A s \in Splits : pc' # DocsOf(s)
  BY <1>1, <1>2 DEF Phases, AtWork, Pushing, ClosedAt, DocsOf, Splits
<1>8. InStep'
  <2> SUFFICES ASSUME NEW s \in Splits, conf.pack
               PROVE  Given(s)' = Given(DocsOf(s))' + (IF s = split THEN Window ELSE 0)
    BY <1>2, <1>7 DEF InStep
  <2>1. Given(s) = Given(DocsOf(s)) + 0
    BY <1>7 DEF DataInv, FlowInv, InStep
  <2>2. s \in Dirs /\ DocsOf(s) \in Dirs /\ DocsOf(s) # split
    BY DirsTyped
  <2>3. Given(DocsOf(s))' = Given(DocsOf(s)) + 0 /\ Given(s)' = Given(s) + (IF s = split THEN Window ELSE 0)
    BY <1>6, <2>2
  <2>4. Given(DocsOf(s)) \in Int
    BY <2>2, TextTyped DEF DataInv
  <2> QED  BY <2>1, <2>3, <2>4, WindowTyped
<1>9. FlowInv'
  BY <1>2, <1>6, <1>7, <1>8 DEF FlowInv
<1> QED  BY <1>6, <1>7, <1>9 DEF DataInv

LEMMA DataPushOwners ==
  ASSUME DataInv, PushOwners
  PROVE  DataInv'
<1>1. PICK split \in Splits :
        /\ pc = DocsOf(split)
        /\ AddTokens(DocsOf(split), Slice(owners[split], 1, Window))
        /\ owners' = [owners EXCEPT ![split] = SubSeq(@, Window + 1, Len(@))]
  BY DEF PushOwners
<1>2. pc' = "push" /\ UNCHANGED <<conf, pending, queue, kept, buffers, manifest>>
  BY DEF PushOwners, inputs
<1> DEFINE dir == DocsOf(split)
<1>3. /\ dir \in Dirs /\ Used(dir) /\ Rest(dir) = owners[split] /\ conf.pack
      /\ \A d \in Dirs \ {dir} : Rest(d)' = Rest(d)
      /\ owners' \in [Splits -> Seq(Data)]
      /\ Rest(dir)' = SubSeq(Rest(dir), Window + 1, Len(Rest(dir)))
  <2>1. dir \in Dirs /\ dir \notin Splits /\ SplitOf(dir) = split
    BY DirsTyped
  <2>0. conf.pack /\ Used(dir)
    BY <1>1 DEF DataInv, FlowInv, Used
  <2>2. owners \in [Splits -> Seq(Data)] /\ owners[split] \in Seq(Data) /\ Len(owners[split]) \in Nat
    BY DEF DataInv, Types
  <2>3. SubSeq(owners[split], Window + 1, Len(owners[split])) \in Seq(Data)
    <3>1. Window + 1 \in Nat \ {0} /\ Len(owners[split]) \in Int /\ Len(owners[split]) <= Len(owners[split])
      BY <2>2, WindowTyped
    <3> QED  BY <2>2, <3>1, Middle
  <2>4. /\ owners' \in [Splits -> Seq(Data)]
        /\ owners'[split] = SubSeq(owners[split], Window + 1, Len(owners[split]))
        /\ \A s \in Splits \ {split} : owners'[s] = owners[s]
    BY <1>1, <2>2, <2>3
  <2>5. ASSUME NEW d \in Dirs \ {dir} PROVE Rest(d)' = Rest(d)
    <3>1. SplitOf(d) \in Splits /\ (d \in Splits \/ SplitOf(d) # split)
      BY DirsTyped DEF Splits
    <3> QED  BY <1>2, <2>4, <3>1 DEF Rest
  <2> HIDE DEF dir
  <2> QED  BY <2>0, <2>1, <2>4, <2>5 DEF Rest
<1>4. Window <= Len(Rest(dir))
  <2>1. Given(split) = Given(dir) + Window
    BY <1>1, <1>3 DEF DataInv, FlowInv, InStep
  <2>2. split \in Dirs /\ SplitOf(split) = split /\ SplitOf(dir) = split
    BY DirsTyped
  <2>3. Len(Text(split)) = Len(Text(dir)) /\ Len(Text(dir)) \in Nat
        /\ Len(Rest(dir)) \in Nat /\ Len(Rest(split)) \in Nat
    BY <1>3, <2>2, TextTyped DEF DataInv
  <2> HIDE DEF dir
  <2> QED  BY <2>1, <2>3, WindowTyped DEF Given
<1>5. pc \in AtWork /\ buffers' \in [Splits -> Seq(Data)]
  BY <1>1, <1>2 DEF AtWork, DocsOf, DataInv, Types
<1>6. AddTokens(dir, SubSeq(Rest(dir), 1, Window))
  <2>1. Len(owners[split]) \in Nat /\ Window <= Len(owners[split]) /\ Window \in Nat
    BY <1>3, <1>4, WindowTyped DEF DataInv, Types
  <2>2. Min({Window, Len(owners[split])}) = Window
    BY <2>1, MinOfTwo
  <2>3. Slice(owners[split], 1, Window) = SubSeq(Rest(dir), 1, Window)
    BY <1>3, <2>2 DEF Slice
  <2> QED  BY <1>1, <2>3
<1> HIDE DEF dir
<1>7. /\ Types' /\ ManifestInv'
      /\ \A d \in Dirs : /\ Follows(d)' /\ Stored(d)' /\ (Used(d)' => Receiving(d)')
                         /\ Used(d)' = Used(d)
                         /\ Given(d)' = Given(d) + (IF d = dir THEN Window ELSE 0)
  BY <1>2, <1>3, <1>4, <1>5, <1>6, Pushes
<1>8. /\ pc' \in Phases /\ pc' \in Pushing /\ pc' # "verify" /\ ClosedAt' = {}
      /\ \A s \in Splits : pc' # DocsOf(s) /\ (pc = DocsOf(s) <=> s = split)
  BY <1>1, <1>2 DEF Phases, AtWork, Pushing, ClosedAt, DocsOf, Splits
<1>9. InStep'
  <2> SUFFICES ASSUME NEW s \in Splits
               PROVE  Given(s)' = Given(DocsOf(s))' + 0
    BY <1>8 DEF InStep
  <2>1. Given(s) = Given(DocsOf(s)) + (IF s = split THEN Window ELSE 0)
    BY <1>3, <1>8 DEF DataInv, FlowInv, InStep
  <2>2. s \in Dirs /\ DocsOf(s) \in Dirs /\ s # dir /\ (DocsOf(s) = dir <=> s = split)
    BY DirsTyped DEF dir, DocsOf, Splits
  <2>3. /\ Given(DocsOf(s))' = Given(DocsOf(s)) + (IF s = split THEN Window ELSE 0)
        /\ Given(s)' = Given(s) + 0
    BY <1>7, <2>2
  <2>4. Given(DocsOf(s)) \in Int
    BY <2>2, TextTyped DEF DataInv
  <2> QED  BY <2>1, <2>3, <2>4, WindowTyped
<1>10. FlowInv'
  BY <1>7, <1>8, <1>9 DEF FlowInv
<1> QED  BY <1>7, <1>8, <1>10 DEF DataInv

-----------------------------------------------------------------------------
(* The writers are closed, and the manifest describes what they wrote.     *)

ClosingPhases == {"close train_docs", "close val_docs", "close train", "close val"}

\* One step of the order in which they are closed.
LEMMA ClosingOrder ==
  ASSUME Close
  PROVE  /\ pc \in ClosingPhases /\ Target[pc] \in Dirs /\ Finalize(Target[pc])
         /\ pc' \in {"close val_docs", "close train", "close val", "manifest"}
         /\ ClosedAt' \subseteq ClosedAt \cup {Target[pc]}
<1>1. /\ DOMAIN Closing = 1..4 /\ Len(Closing) = 4
      /\ Closing[1] = "close train_docs" /\ Closing[2] = "close val_docs"
      /\ Closing[3] = "close train" /\ Closing[4] = "close val"
  BY DEF Closing
<1>2. ToSet(Closing) = ClosingPhases
  <2>1. ToSet(Closing) = {Closing[i] : i \in 1..4}
    BY <1>1 DEF ToSet
  <2>2. 1..4 = {1, 2, 3, 4}
    OBVIOUS
  <2> QED  BY <1>1, <2>1, <2>2 DEF ClosingPhases
<1>3. pc \in ClosingPhases /\ Finalize(Target[pc])
  BY <1>2 DEF Close
<1>4. \A p \in ClosingPhases : Target[p] =
        CASE p = "close train_docs" -> "train_docs" [] p = "close val_docs" -> "val_docs"
          [] p = "close train" -> "train" [] OTHER -> "val"
  BY <1>2 DEF Target
<1> DEFINE n == CHOOSE i \in DOMAIN Closing : Closing[i] = pc
<1>5. n \in 1..4 /\ Closing[n] = pc
  <2>1. \E i \in DOMAIN Closing : Closing[i] = pc
    <3>1. 1 \in 1..4 /\ 2 \in 1..4 /\ 3 \in 1..4 /\ 4 \in 1..4
      OBVIOUS
    <3>2. pc = Closing[1] \/ pc = Closing[2] \/ pc = Closing[3] \/ pc = Closing[4]
      BY <1>1, <1>3 DEF ClosingPhases
    <3> QED  BY <1>1, <3>1, <3>2
  <2> QED  BY <1>1, <2>1
<1>6. pc' = IF n < 4 THEN Closing[n + 1] ELSE "manifest"
  <2>1. pc' = IF n < Len(Closing) THEN Closing[n + 1] ELSE "manifest"
    BY DEF Close
  <2>2. Len(Closing) = 4
    BY <1>1
  <2> HIDE DEF n
  <2> QED  BY <2>1, <2>2
<1> HIDE DEF n
<1>7. n = 1 \/ n = 2 \/ n = 3 \/ n = 4
  BY <1>5
<1>8. \/ pc = "close train_docs" /\ pc' = "close val_docs"
      \/ pc = "close val_docs" /\ pc' = "close train"
      \/ pc = "close train" /\ pc' = "close val"
      \/ pc = "close val" /\ pc' = "manifest"
  <2>1. /\ n = 1 => n < 4 /\ n + 1 = 2
        /\ n = 2 => n < 4 /\ n + 1 = 3
        /\ n = 3 => n < 4 /\ n + 1 = 4
        /\ n = 4 => ~(n < 4)
    BY <1>7
  <2> QED  BY <1>1, <1>5, <1>6, <1>7, <2>1
<1> QED  BY <1>3, <1>4, <1>8 DEF ClosingPhases, Dirs, ClosedAt

\* finalize, in that order.
LEMMA DataClose ==
  ASSUME DataInv, Close
  PROVE  DataInv'
<1>1. PICK dir \in Dirs :
        /\ pc \in ClosingPhases /\ Finalize(dir)
        /\ pc' \in {"close val_docs", "close train", "close val", "manifest"}
        /\ ClosedAt' \subseteq ClosedAt \cup {dir}
  BY ClosingOrder
<1>2. UNCHANGED <<conf, pending, queue, kept, buffers, owners, manifest>>
  BY DEF Close, inputs
<1>3. Types /\ \A d \in Dirs : Follows(d) /\ Stored(d)
  BY DEF DataInv, FlowInv
<1>4. /\ Used(dir) => Wrote(writers'[dir], Text(dir), Given(dir), WidthOf(dir))
      /\ ~Used(dir) => writers'[dir] = writers[dir]
      /\ writers'[dir].tokens = <<>>
      /\ Stored(dir)'
      /\ writers' \in [Dirs -> Writer] /\ files' \in [Dirs -> Seq(Shard)]
      /\ \A d \in Dirs \ {dir} : writers'[d] = writers[d] /\ files'[d] = files[d]
  BY <1>1, <1>3, FinalizeEffect
<1>5. Types' /\ ManifestInv'
  BY <1>2, <1>3, <1>4 DEF Types, DataInv, ManifestInv, Described
<1>6. \A d \in Dirs : /\ Text(d)' = Text(d) /\ Rest(d)' = Rest(d) /\ Given(d)' = Given(d)
                      /\ Used(d)' = Used(d) /\ WidthOf(d)' = WidthOf(d)
  BY <1>2 DEF Text, Rest, Given, Used, WidthOf
<1>7. ASSUME NEW d \in Dirs PROVE Follows(d)' /\ Stored(d)'
  <2>1. CASE d = dir
    BY <1>3, <1>4, <1>6, <2>1 DEF Follows
  <2>2. CASE d # dir
    BY <1>3, <1>4, <1>6, <2>2 DEF Follows, Stored
  <2> QED  BY <2>1, <2>2
<1>8. /\ pc' \in Phases /\ pc' \notin AtWork /\ pc' # "verify"
      /\ pc \notin Pushing /\ \A s \in Splits : pc # DocsOf(s) /\ pc' # DocsOf(s)
  BY <1>1 DEF Phases, AtWork, Pushing, ClosingPhases, DocsOf
<1>9. \A d \in ClosedAt' : writers'[d].tokens = <<>>
  <2>1. \A d \in ClosedAt : d \in Dirs /\ writers[d].tokens = <<>>
    BY DEF DataInv, FlowInv, ClosedAt, Dirs
  <2> QED  BY <1>1, <1>4, <2>1
<1>10. InStep'
  BY <1>2, <1>6, <1>8, DirsTyped DEF InStep, DataInv, FlowInv
<1>11. FlowInv'
  BY <1>2, <1>7, <1>8, <1>9, <1>10 DEF FlowInv, DataInv
<1> QED  BY <1>5, <1>8, <1>11 DEF DataInv

\* manifest.save.
LEMMA DataSaveManifest ==
  ASSUME DataInv, SaveManifest, Widths
  PROVE  DataInv'
<1> DEFINE names == {"train"} \cup {t \in {"val"} : writers[t].records # <<>>}
<1>1. /\ pc = "manifest" /\ pc' = "verify"
      /\ manifest' = [splits |-> [s \in names |-> writers[s].records], kept |-> kept, pack |-> conf.pack]
      /\ UNCHANGED <<conf, pending, queue, kept, buffers, owners, writers, files>>
  BY DEF SaveManifest, inputs
<1>2. names \subseteq Splits
  BY DEF Splits
<1> HIDE DEF names
<1>3. /\ DOMAIN manifest'.splits = names /\ manifest'.kept = kept /\ manifest'.pack = conf.pack
      /\ \A s \in names : manifest'.splits[s] = writers[s].records
  BY <1>1
<1>4. Types' /\ Types
  BY <1>1 DEF DataInv, Types
<1>5. ASSUME NEW s \in names PROVE Described(s)'
  <2>1. s \in Splits /\ s \in Dirs /\ SplitOf(s) = s /\ Used(s)
    BY <1>2, DirsTyped DEF Used
  <2>2. Stream(kept, s) \in Seq(Pair) /\ Text(s) = Tokens(Stream(kept, s)) /\ Rest(s) = buffers[s]
    BY <1>4, <2>1 DEF Types, Text, Rest
  <2>3. Wrote(writers[s], Text(s), Given(s), WidthOf(s))
    BY <2>1 DEF DataInv, FlowInv, Follows
  <2>4. writers[s].tokens = <<>>
    BY <1>1, <2>1 DEF DataInv, FlowInv, ClosedAt
  <2>5. WidthOf(s) = Width("auto")
    BY <1>4, <2>1 DEF WidthOf, Widths, Types
  <2> DEFINE v == [tokens |-> <<>>, records |-> writers[s].records]
  <2>6. v.tokens = writers[s].tokens /\ v.records = writers[s].records
    BY <2>4
  <2> HIDE DEF v
  <2>7. Wrote(v, Text(s), Given(s), Width("auto"))
    BY <2>3, <2>5, <2>6 DEF Wrote
  <2>8. Given(s) \in Nat /\ Len(Text(s)) - Given(s) < Window
    <3>1. Len(buffers[s]) < Window
      BY <1>1, <2>1 DEF DataInv, FlowInv, Pushing
    <3>2. Given(s) \in 0..Len(Text(s)) /\ Len(Text(s)) \in Nat /\ Len(Rest(s)) \in Nat
      BY <1>4, <2>1, <2>3, TextTyped DEF Wrote
    <3>3. Given(s) = Len(Text(s)) - Len(buffers[s])
      BY <2>2 DEF Given
    <3> QED  BY <2>2, <3>1, <3>2, <3>3, WindowTyped
  <2> QED  BY <1>3, <2>2, <2>7, <2>8 DEF Described, v
<1>6. ManifestInv'
  BY <1>2, <1>3, <1>5 DEF ManifestInv
<1>7. Saved'
  BY <1>1, <1>2, <1>3 DEF Saved
<1>8. pc \notin Pushing /\ pc' \notin AtWork /\ pc' \in Phases /\ ClosedAt' = ClosedAt
      /\ \A s \in Splits : pc # DocsOf(s) /\ pc' # DocsOf(s)
  BY <1>1 DEF Phases, AtWork, Pushing, ClosedAt, DocsOf
<1>9. \A d \in Dirs : /\ Text(d)' = Text(d) /\ Rest(d)' = Rest(d) /\ Given(d)' = Given(d)
                      /\ Used(d)' = Used(d) /\ WidthOf(d)' = WidthOf(d)
  BY <1>1 DEF Text, Rest, Given, Used, WidthOf
<1>10. \A d \in Dirs : Follows(d)' /\ Stored(d)'
  BY <1>1, <1>9 DEF DataInv, FlowInv, Follows, Stored
<1>11. InStep'
  BY <1>1, <1>8, <1>9, DirsTyped DEF InStep, DataInv, FlowInv
<1>12. FlowInv'
  BY <1>1, <1>8, <1>10, <1>11 DEF FlowInv, DataInv
<1> QED  BY <1>4, <1>6, <1>7, <1>8, <1>12 DEF DataInv

\* Every step.
LEMMA DataNext ==
  ASSUME DataInv, [Next]_vars, Widths
  PROVE  DataInv'
<1>1. CASE UNCHANGED vars
  <2>1. /\ UNCHANGED <<pc, conf, pending, queue, kept, buffers, owners, writers, files, manifest>>
    BY <1>1 DEF vars, inputs, disk
  <2> QED  BY <2>1 DEF DataInv, Types, FlowInv, ManifestInv, Saved, Described, InStep, ClosedAt,
                       Follows, Stored, Receiving, Used, Given, Text, Rest, WidthOf
<1>2. CASE Next
  BY <1>2, DataEmptied, DataReads, DataDocument, DataPushTokens, DataPushOwners, DataClose,
     DataSaveManifest DEF Next
<1> QED  BY <1>1, <1>2

-----------------------------------------------------------------------------
(* What is read back.                                                      *)

\* The least of a slice that runs past the end.
LEMMA SliceIs ==
  ASSUME NEW s, Len(s) \in Nat, NEW a, NEW b \in Int
  PROVE  Slice(s, a, b) = SubSeq(s, a, IF b <= Len(s) THEN b ELSE Len(s))
<1>1. Min({b, Len(s)}) = IF b <= Len(s) THEN b ELSE Len(s)
  BY MinOfTwo
<1> QED  BY <1>1 DEF Slice

\* Shards of the tokens of a text: how many tokens each holds, and where they
\* come from.
LEMMA ShardLengths ==
  ASSUME NEW text \in Seq(Data), NEW w, NEW cut, NEW width,
         Wrote(w, text, cut, width), w.tokens = <<>>
  PROVE  LET n == Len(w.records)
         IN /\ n \in Nat /\ cut \in Nat /\ cut <= Len(text)
            /\ cut <= At(n)
            /\ \A i \in 1..n - 1 : At(i) < cut
            /\ \A i \in 1..n :
                 /\ At(i - 1) \in Nat /\ At(i) \in Nat /\ At(i) = At(i - 1) + ShardSize
                 /\ w.records[i].tokens = Cut(text, i, cut)
                 /\ Len(w.records[i].tokens)
                      = (IF At(i) <= cut THEN At(i) ELSE cut) - At(i - 1)
<1> DEFINE n == Len(w.records)
<1>0. n \in Nat /\ cut \in Nat /\ cut <= Len(text) /\ Len(text) \in Nat
  BY DEF Wrote
<1>1. /\ n = 0 \/ At(n - 1) < cut
      /\ w.tokens = SubSeq(text, At(n) + 1, cut)
      /\ \A i \in 1..n : w.records[i] = [tokens |-> Cut(text, i, cut), width |-> width]
  BY DEF Wrote
<1> HIDE DEF n
<1>2. At(n) \in Nat
  BY <1>0, AtNat
<1>3. cut <= At(n)
  <2>1. Len(SubSeq(text, At(n) + 1, cut)) = IF At(n) + 1 <= cut THEN cut - (At(n) + 1) + 1 ELSE 0
    BY <1>0, <1>2, Middle
  <2>2. Len(SubSeq(text, At(n) + 1, cut)) = 0
    <3>1. Len(<<>>) = 0 /\ w.tokens = <<>>
      OBVIOUS
    <3> QED  BY <1>1, <3>1
  <2> QED  BY <1>0, <1>2, <2>1, <2>2
<1>4. ASSUME NEW i \in 1..n
      PROVE  At(i - 1) \in Nat /\ At(i) \in Nat /\ At(i) = At(i - 1) + ShardSize
  <2>1. i - 1 \in Nat /\ i \in Nat /\ i - 1 \in Int /\ (i - 1) + 1 = i
    BY <1>0
  <2>2. At(i - 1) \in Nat /\ At(i) \in Nat
    BY <2>1, AtNat
  <2>3. At((i - 1) + 1) = At(i - 1) + ShardSize
    BY <2>1, AtStep
  <2> QED  BY <2>1, <2>2, <2>3
<1>5. ASSUME NEW i \in 1..n
      PROVE  At(i - 1) < cut
  <2>1. i - 1 \in Int /\ n - 1 \in Int /\ i - 1 <= n - 1 /\ n # 0
    BY <1>0
  <2>2. At(i - 1) <= At(n - 1) /\ At(n - 1) \in Int
    BY <2>1, AtGrows, AtStep
  <2>3. At(n - 1) < cut
    BY <1>1, <2>1
  <2> QED  BY <1>0, <1>4, <2>2, <2>3
<1>6. ASSUME NEW i \in 1..n - 1
      PROVE  At(i) < cut
  <2>1. i + 1 \in 1..n /\ (i + 1) - 1 = i
    BY <1>0
  <2> QED  BY <1>5, <2>1
<1>7. ASSUME NEW i \in 1..n
      PROVE  /\ w.records[i].tokens = Cut(text, i, cut)
             /\ Len(w.records[i].tokens) = (IF At(i) <= cut THEN At(i) ELSE cut) - At(i - 1)
  <2>1. w.records[i].tokens = Cut(text, i, cut)
    <3>1. w.records[i] = [tokens |-> Cut(text, i, cut), width |-> width]
      BY <1>1
    <3> QED  BY <3>1
  <2> DEFINE end == IF At(i) <= cut THEN At(i) ELSE cut
  <2>2. At(i - 1) < end /\ end \in Nat /\ end <= Len(text) /\ At(i - 1) \in Nat
    BY <1>0, <1>4, <1>5, LengthsAssumption
  <2>3. Cut(text, i, cut) = SubSeq(text, At(i - 1) + 1, end)
    BY DEF Cut
  <2> HIDE DEF end
  <2>4. Len(SubSeq(text, At(i - 1) + 1, end))
          = IF At(i - 1) + 1 <= end THEN end - (At(i - 1) + 1) + 1 ELSE 0
    BY <2>2, Middle
  <2>5. Len(SubSeq(text, At(i - 1) + 1, end)) = end - At(i - 1)
    BY <2>2, <2>4
  <2> QED  BY <2>1, <2>3, <2>5 DEF end
<1> QED  BY <1>0, <1>3, <1>4, <1>6, <1>7 DEF n

\* A shard, as a piece of the text.
LEMMA ShardIs ==
  ASSUME NEW text \in Seq(Data), NEW w, NEW cut, NEW width,
         Wrote(w, text, cut, width), w.tokens = <<>>, NEW i \in 1..Len(w.records)
  PROVE  LET len == Len(w.records[i].tokens)
         IN /\ At(i - 1) \in Nat /\ len \in Nat
            /\ At(i - 1) + len <= Len(text)
            /\ w.records[i].tokens = SubSeq(text, At(i - 1) + 1, At(i - 1) + len)
            /\ w.records[i].tokens \in Seq(Data)
<1> DEFINE len == Len(w.records[i].tokens)
           from == At(i - 1)
           end == IF At(i) <= cut THEN At(i) ELSE cut
<1>1. /\ cut \in Nat /\ cut <= Len(text) /\ from \in Nat /\ At(i) \in Nat
      /\ w.records[i].tokens = Cut(text, i, cut)
      /\ len = end - from
  BY ShardLengths
<1>2. w.records[i].tokens \in Seq(Data)
  <2>1. w.records[i] \in Shard
    BY DEF Wrote
  <2> QED  BY <2>1 DEF Shard
<1>3. len \in Nat
  BY <1>2
<1>4. end \in Nat /\ end <= Len(text)
  BY <1>1
<1>5. w.records[i].tokens = SubSeq(text, from + 1, end)
  BY <1>1 DEF Cut
<1>6. from + len = end
  <2> HIDE DEF end, len, from
  <2> QED  BY <1>1, <1>3, <1>4
<1> QED  BY <1>1, <1>2, <1>3, <1>4, <1>5, <1>6

\* The cut tells how many shards there are.
LEMMA AsManyShards ==
  ASSUME NEW a \in Seq(Data), NEW b \in Seq(Data), NEW v, NEW w, NEW cut, NEW vw, NEW ww,
         Wrote(v, a, cut, vw), v.tokens = <<>>, Wrote(w, b, cut, ww), w.tokens = <<>>
  PROVE  Len(v.records) = Len(w.records)
<1> DEFINE m == Len(v.records)
           n == Len(w.records)
<1>1. m \in Nat /\ cut \in Nat /\ cut <= At(m) /\ (m = 0 \/ At(m - 1) < cut)
  <2>1. m \in Nat /\ cut \in Nat /\ cut <= At(m)
    BY ShardLengths
  <2>2. m = 0 \/ At(m - 1) < cut
    BY DEF Wrote
  <2> QED  BY <2>1, <2>2
<1>2. n \in Nat /\ cut <= At(n) /\ (n = 0 \/ At(n - 1) < cut)
  <2>1. n \in Nat /\ cut <= At(n)
    BY ShardLengths
  <2>2. n = 0 \/ At(n - 1) < cut
    BY DEF Wrote
  <2> QED  BY <2>1, <2>2
<1> HIDE DEF m, n
<1>3. ASSUME NEW i \in Nat, NEW j \in Nat, i < j, cut <= At(i), At(j - 1) < cut PROVE FALSE
  <2>1. i \in Int /\ j - 1 \in Int /\ i <= j - 1
    BY <1>3
  <2>2. At(i) <= At(j - 1) /\ At(i) \in Int /\ At(j - 1) \in Int
    BY <2>1, AtGrows, AtStep
  <2> QED  BY <1>1, <1>3, <2>2
<1>4. ~(m < n) /\ ~(n < m)
  BY <1>1, <1>2, <1>3
<1> QED  BY <1>1, <1>2, <1>4 DEF m, n

\* A window of a shard lies within it.
LEMMA WindowFits ==
  ASSUME NEW len \in Nat, NEW j \in Nat \ {0}, j \in WindowsOf(len)
  PROVE  (j - 1) * SequenceLength \in Nat /\ (j - 1) * SequenceLength + SequenceLength + 1 <= len
<1> DEFINE m == (len - 1) \div SequenceLength
<1>1. SequenceLength \in Nat \ {0}
  BY LengthsAssumption
<1>2. m \in Int /\ m * SequenceLength <= len - 1
  BY <1>1
<1>3. j <= m
  BY <1>2 DEF WindowsOf
<1> HIDE DEF m
<1>4. j * SequenceLength <= m * SequenceLength
  <2>1. m - j \in Nat
    BY <1>2, <1>3
  <2>2. (m - j) * SequenceLength >= 0
    BY <1>1, <2>1
  <2>3. (m - j) * SequenceLength = m * SequenceLength - j * SequenceLength
    BY <1>1, <1>2
  <2> QED  BY <1>1, <1>2, <2>2, <2>3
<1>5. (j - 1) * SequenceLength = j * SequenceLength - SequenceLength
  BY <1>1
<1>6. (j - 1) * SequenceLength >= 0 /\ (j - 1) * SequenceLength \in Int /\ j * SequenceLength \in Int
      /\ m * SequenceLength \in Int
  BY <1>1, <1>2
<1> QED  BY <1>1, <1>2, <1>4, <1>5, <1>6

\* A window of a manifest, and where it lies.
LEMMA WindowLies ==
  ASSUME NEW split, NEW text \in Seq(Data), NEW v, NEW cut, NEW width,
         Wrote(v, text, cut, width), v.tokens = <<>>, v.records = manifest.splits[split],
         NEW w \in Index(split)
  PROVE  /\ w[1] \in 1..Len(v.records)
         /\ Start0(w) \in Nat
         /\ Start0(w) + SequenceLength + 1 <= Len(v.records[w[1]].tokens)
         /\ Total(split, w[1] - 1) = At(w[1] - 1)
         /\ At(w[1] - 1) \in Nat
         /\ At(w[1] - 1) + Len(v.records[w[1]].tokens) <= Len(text)
         /\ Len(v.records[w[1]].tokens) \in Nat
         /\ v.records[w[1]].tokens
              = SubSeq(text, At(w[1] - 1) + 1, At(w[1] - 1) + Len(v.records[w[1]].tokens))
<1> DEFINE n == Len(v.records)
           i == w[1]
           j == w[2]
           len == Len(v.records[i].tokens)
<1>1. v.records \in Seq(Shard) /\ DOMAIN v.records = 1..n
  BY DEF Wrote
<1>2. i \in 1..n /\ j \in 1..ShardSize /\ j \in WindowsOf(len)
  BY <1>1 DEF Index
<1>3. /\ n \in Nat /\ cut \in Nat
      /\ \A k \in 1..n - 1 : At(k) < cut
      /\ \A k \in 1..n :
           /\ At(k - 1) \in Nat /\ At(k) \in Nat /\ At(k) = At(k - 1) + ShardSize
           /\ Len(v.records[k].tokens) = (IF At(k) <= cut THEN At(k) ELSE cut) - At(k - 1)
  BY ShardLengths
<1>4. /\ At(i - 1) \in Nat /\ len \in Nat /\ At(i - 1) + len <= Len(text)
      /\ v.records[i].tokens = SubSeq(text, At(i - 1) + 1, At(i - 1) + len)
  BY <1>2, ShardIs
<1>5. Start0(w) \in Nat /\ Start0(w) + SequenceLength + 1 <= len
  <2>1. j \in Nat \ {0}
    BY <1>2, LengthsAssumption
  <2>2. (j - 1) * SequenceLength \in Nat /\ (j - 1) * SequenceLength + SequenceLength + 1 <= len
    <3> HIDE DEF len, j
    <3> QED  BY <1>2, <1>4, <2>1, WindowFits
  <2> HIDE DEF len
  <2> QED  BY <2>2 DEF Start0
<1>6. Total(split, i - 1) = At(i - 1)
  <2>1. CASE i = 1
    BY <2>1, AtStep DEF Total
  <2>2. CASE i # 1
    <3>1. i - 1 \in 1..n /\ i - 1 \in 1..n - 1 /\ i - 1 # 0
      BY <1>2, <1>3, <2>2
    <3> DEFINE k == i - 1
    <3>2. k \in 1..n /\ k \in 1..n - 1 /\ k # 0 /\ k \in Int
      BY <3>1
    <3> HIDE DEF k
    <3>3. At(k) < cut /\ At(k - 1) \in Nat /\ At(k) \in Nat /\ At(k) = At(k - 1) + ShardSize
          /\ Len(v.records[k].tokens) = (IF At(k) <= cut THEN At(k) ELSE cut) - At(k - 1)
      BY <1>3, <3>2
    <3>4. Len(v.records[k].tokens) = ShardSize
      BY <1>3, <3>3, LengthsAssumption
    <3>5. Total(split, k) = (k - 1) * ShardSize + ShardSize
      BY <3>2, <3>4 DEF Total
    <3>6. At(k) = (k - 1) * ShardSize + ShardSize
      BY <3>2, <3>3 DEF At
    <3> QED  BY <3>5, <3>6 DEF k
  <2> QED  BY <2>1, <2>2
<1> QED  BY <1>2, <1>4, <1>5, <1>6

\* The window of a file is the window of the text.
LEMMA WindowIs ==
  \A whole, piece \in Seq(Data) : \A base, skip, k \in Nat :
    /\ piece = SubSeq(whole, base + 1, base + Len(piece))
    /\ skip + k <= Len(piece) /\ base + Len(piece) <= Len(whole)
    => Slice(piece, skip + 1, skip + k) = SubSeq(whole, base + skip + 1, base + skip + k)
<1> SUFFICES ASSUME NEW whole \in Seq(Data), NEW piece \in Seq(Data),
                    NEW base \in Nat, NEW skip \in Nat, NEW k \in Nat,
                    piece = SubSeq(whole, base + 1, base + Len(piece)),
                    skip + k <= Len(piece), base + Len(piece) <= Len(whole)
             PROVE  Slice(piece, skip + 1, skip + k) = SubSeq(whole, base + skip + 1, base + skip + k)
  OBVIOUS
<1> DEFINE len == Len(piece)
<1>1. len \in Nat /\ Len(whole) \in Nat
  OBVIOUS
<1>2. Slice(piece, skip + 1, skip + k) = SubSeq(piece, skip + 1, skip + k)
  <2> DEFINE end == skip + k
  <2>1. end \in Int /\ end <= len
    OBVIOUS
  <2> HIDE DEF end
  <2>2. Slice(piece, skip + 1, end)
          = SubSeq(piece, skip + 1, IF end <= Len(piece) THEN end ELSE Len(piece))
    BY <1>1, <2>1, SliceIs
  <2>3. Slice(piece, skip + 1, end) = SubSeq(piece, skip + 1, end)
    BY <2>1, <2>2
  <2> QED  BY <2>3 DEF end
<1>3. /\ base + 1 \in Nat \ {0} /\ base + len \in Int /\ base + len <= Len(whole)
      /\ base + 1 <= (base + len) + 1
      /\ skip + 1 \in Nat \ {0} /\ skip + k \in Int
      /\ skip + k <= (base + len) - (base + 1) + 1
  BY <1>1
<1>4. SubSeq(SubSeq(whole, base + 1, base + len), skip + 1, skip + k)
        = SubSeq(whole, (base + 1) + (skip + 1) - 1, (base + 1) + (skip + k) - 1)
  <2> HIDE DEF len
  <2> QED  BY <1>3, MiddleOfMiddle
<1>5. /\ (base + 1) + (skip + 1) - 1 = base + skip + 1
      /\ (base + 1) + (skip + k) - 1 = base + skip + k
  OBVIOUS
<1> QED  BY <1>2, <1>4, <1>5

\* A dataset whose checksums agree: its items are pieces of the text of the
\* preparation that wrote the manifest.
LEMMA ItemsAreText ==
  ASSUME ManifestInv, Valid(TRUE), NEW split \in DOMAIN manifest.splits
  PROVE  LET text == Tokens(Stream(manifest.kept, split))
             n == Len(manifest.splits[split])
         IN /\ Len(text) - Total(split, n) \in 0..Window - 1
            /\ \A i \in 1..n - 1 : Len(manifest.splits[split][i].tokens) = ShardSize
            /\ \A w \in Index(split) :
                 LET first == First(split, w)
                 IN /\ first + SequenceLength <= Len(text)
                    /\ Item(split, w) = SubSeq(text, first, first + SequenceLength)
<1> DEFINE records == manifest.splits[split]
           text == Tokens(Stream(manifest.kept, split))
           v == [tokens |-> <<>>, records |-> records]
           n == Len(records)
           width == Width("auto")
<1>1. /\ Stream(manifest.kept, split) \in Seq(Pair)
      /\ \E cut \in Nat : Wrote(v, text, cut, width) /\ Len(text) - cut < Window
  BY DEF ManifestInv, Described, Valid
<1>2. PICK cut \in Nat : Wrote(v, text, cut, width) /\ Len(text) - cut < Window
  BY <1>1
<1>3. text \in Seq(Data) /\ Len(text) \in Nat
  BY <1>1, Halves, LenProperties
<1>4. v.tokens = <<>> /\ v.records = records
  OBVIOUS
<1> HIDE DEF text, width, v
<1>5. /\ n \in Nat /\ cut <= Len(text) /\ cut <= At(n)
      /\ \A i \in 1..n - 1 : At(i) < cut
      /\ \A i \in 1..n :
           /\ At(i - 1) \in Nat /\ At(i) \in Nat /\ At(i) = At(i - 1) + ShardSize
           /\ Len(records[i].tokens) = (IF At(i) <= cut THEN At(i) ELSE cut) - At(i - 1)
  BY <1>2, <1>3, <1>4, ShardLengths
<1>6. /\ records \in Seq(Shard) /\ DOMAIN records = 1..n
      /\ \A i \in 1..n : records[i].width = width /\ records[i].tokens \in Seq(Data)
  <2>1. records \in Seq(Shard)
        /\ \A i \in 1..n : records[i] = [tokens |-> Cut(text, i, cut), width |-> width]
    BY <1>2, <1>4 DEF Wrote
  <2>2. DOMAIN records = 1..n
    BY <2>1
  <2>3. ASSUME NEW i \in 1..n PROVE records[i].width = width /\ records[i].tokens \in Seq(Data)
    <3>1. records[i] = [tokens |-> Cut(text, i, cut), width |-> width]
      BY <2>1
    <3>2. records[i] \in Shard
      BY <2>1, <2>2
    <3> QED  BY <3>1, <3>2 DEF Shard
  <2> QED  BY <2>1, <2>2, <2>3
<1>7. \A i \in 1..n : files[split][i] = records[i]
  BY <1>6 DEF Valid
<1> HIDE DEF n, records
<1>8. ASSUME NEW i \in 1..n - 1 PROVE Len(records[i].tokens) = ShardSize
  <2>1. i \in 1..n
    BY <1>5
  <2> QED  BY <1>5, <2>1, LengthsAssumption
<1>9. Total(split, n) = cut
  <2>1. CASE n = 0
    <3>1. At(0) = 0
      BY AtStep
    <3>2. cut = 0
      BY <1>5, <2>1, <3>1
    <3>3. Total(split, 0) = 0
      BY DEF Total
    <3> QED  BY <2>1, <3>2, <3>3
  <2>2. CASE n # 0
    <3>1. n \in 1..n
      BY <1>5, <2>2
    <3>2. /\ At(n - 1) \in Nat /\ At(n) \in Nat
          /\ Len(records[n].tokens) = (IF At(n) <= cut THEN At(n) ELSE cut) - At(n - 1)
      BY <1>5, <3>1
    <3>3. Len(records[n].tokens) = cut - At(n - 1)
      BY <1>5, <3>2
    <3>4. Total(split, n) = (n - 1) * ShardSize + Len(records[n].tokens)
      BY <2>2 DEF Total, records
    <3>5. At(n - 1) = (n - 1) * ShardSize
      BY DEF At
    <3> QED  BY <3>2, <3>3, <3>4, <3>5
  <2> QED  BY <2>1, <2>2
<1>10. Len(text) - Total(split, n) \in 0..Window - 1
  BY <1>2, <1>3, <1>5, <1>9, WindowTyped
<1>11. ASSUME NEW w \in Index(split)
       PROVE  /\ First(split, w) + SequenceLength <= Len(text)
              /\ Item(split, w) = SubSeq(text, First(split, w), First(split, w) + SequenceLength)
  <2> DEFINE i == w[1]
             shard == records[i].tokens
             from == At(i - 1)
             start == Start0(w)
             length == SequenceLength + 1
  <2>1. v.records = manifest.splits[split]
    BY <1>4 DEF records
  <2>2. /\ i \in 1..n /\ start \in Nat /\ start + SequenceLength + 1 <= Len(shard)
        /\ Total(split, i - 1) = from /\ from \in Nat
        /\ from + Len(shard) <= Len(text) /\ Len(shard) \in Nat
        /\ shard = SubSeq(text, from + 1, from + Len(shard))
    <3>1. /\ w[1] \in 1..Len(v.records)
          /\ Start0(w) \in Nat
          /\ Start0(w) + SequenceLength + 1 <= Len(v.records[w[1]].tokens)
          /\ Total(split, w[1] - 1) = At(w[1] - 1)
          /\ At(w[1] - 1) \in Nat
          /\ At(w[1] - 1) + Len(v.records[w[1]].tokens) <= Len(text)
          /\ Len(v.records[w[1]].tokens) \in Nat
          /\ v.records[w[1]].tokens
               = SubSeq(text, At(w[1] - 1) + 1, At(w[1] - 1) + Len(v.records[w[1]].tokens))
      BY <1>2, <1>3, <1>4, <2>1, WindowLies
    <3> QED  BY <1>4, <3>1 DEF n
  <2>3. shard \in Seq(Data) /\ files[split][i] = records[i] /\ records[i].width = width
    <3>1. i \in 1..n
      BY <2>2
    <3> HIDE DEF i
    <3> QED  BY <1>6, <1>7, <3>1
  <2>4. Item(split, w) = Slice(shard, start + 1, start + SequenceLength + 1)
    BY <2>3 DEF Item, Mapped, width
  <2>5. First(split, w) = from + start + 1
    BY <2>2 DEF First
  <2> HIDE DEF shard, from, start, i
  <2>6. length \in Nat /\ start + length <= Len(shard) /\ start + SequenceLength + 1 = start + length
        /\ (from + start + 1) + SequenceLength = from + start + length
    BY <2>2, WindowTyped
  <2>7. Slice(shard, start + 1, start + length) = SubSeq(text, from + start + 1, from + start + length)
    <3> HIDE DEF length
    <3>1. /\ text \in Seq(Data) /\ shard \in Seq(Data) /\ from \in Nat /\ start \in Nat
          /\ length \in Nat
          /\ shard = SubSeq(text, from + 1, from + Len(shard))
          /\ start + length <= Len(shard) /\ from + Len(shard) <= Len(text)
      BY <1>3, <2>2, <2>3, <2>6
    <3>2. text \in Seq(Data) /\ shard \in Seq(Data)
      BY <3>1
    <3>3. from \in Nat /\ start \in Nat /\ length \in Nat
      BY <3>1
    <3>4. shard = SubSeq(text, from + 1, from + Len(shard))
      BY <3>1
    <3>5. start + length <= Len(shard) /\ from + Len(shard) <= Len(text)
      BY <3>1
    <3>6. \A f, a, l \in Nat :
            /\ shard = SubSeq(text, f + 1, f + Len(shard))
            /\ a + l <= Len(shard) /\ f + Len(shard) <= Len(text)
            => Slice(shard, a + 1, a + l) = SubSeq(text, f + a + 1, f + a + l)
      BY <3>2, WindowIs, Zenon
    <3> QED  BY <3>3, <3>4, <3>5, <3>6, Zenon
  <2>8. from + start + length <= Len(text)
    BY <1>3, <2>2, <2>6
  <2> QED  BY <2>4, <2>5, <2>6, <2>7, <2>8
<1> QED  BY <1>8, <1>10, <1>11 DEF n, records, text

-----------------------------------------------------------------------------
(* The owners, cut as the tokens are.                                      *)

\* Two streams of one length, cut at the same places.
LEMMA OwnersAreInStep ==
  ASSUME DataInv, pc = "verify", manifest.pack, NEW split \in DOMAIN manifest.splits,
         NEW w \in Index(split)
  PROVE  LET first == First(split, w)
         IN /\ HasOwners(split, w)
            /\ ItemOwners(split, w)
                 = SubSeq(Owners(Stream(kept, split)), first, first + SequenceLength - 1)
<1> DEFINE dir == DocsOf(split)
           stream == Stream(kept, split)
           i == w[1]
<1>1. /\ split \in Splits /\ split \in Dirs /\ dir \in Dirs /\ SplitOf(split) = split
      /\ SplitOf(dir) = split /\ dir \notin Splits
  BY DirsTyped DEF DataInv, Saved
<1>2. /\ conf.pack /\ manifest.splits[split] = writers[split].records
      /\ writers[split].tokens = <<>> /\ writers[dir].tokens = <<>>
  BY <1>1 DEF DataInv, Saved, FlowInv, ClosedAt
<1>3. Used(split) /\ Used(dir)
  BY <1>1, <1>2 DEF Used
<1>4. Text(split) = Tokens(stream) /\ Text(dir) = Owners(stream)
  BY <1>1 DEF Text
<1>5. /\ Wrote(writers[split], Tokens(stream), Given(split), WidthOf(split))
      /\ Wrote(writers[dir], Owners(stream), Given(dir), WidthOf(dir))
  BY <1>1, <1>3, <1>4 DEF DataInv, FlowInv, Follows
<1>6. Given(split) = Given(dir)
  <2>1. Given(split) = Given(dir) + 0
    BY <1>1, <1>2 DEF DataInv, FlowInv, InStep, DocsOf
  <2>2. Given(dir) \in Int
    BY <1>1, TextTyped DEF DataInv
  <2> QED  BY <2>1, <2>2
<1> DEFINE tokens == Tokens(stream)
           docs == Owners(stream)
           a == writers[split]
           b == writers[dir]
           cut == Given(dir)
           aw == WidthOf(split)
           bw == WidthOf(dir)
<1>7. /\ tokens \in Seq(Data) /\ docs \in Seq(Data) /\ Wrote(a, tokens, cut, aw) /\ Wrote(b, docs, cut, bw)
      /\ a.tokens = <<>> /\ b.tokens = <<>> /\ a.records = manifest.splits[split]
  <2>1. stream \in Seq(Pair)
    BY <1>1 DEF DataInv, Types
  <2>2. tokens \in Seq(Data) /\ docs \in Seq(Data)
    BY <2>1, Halves
  <2> QED  BY <1>2, <1>5, <1>6, <2>2
<1>8. \A j \in 1..Len(b.records) : files[dir][j] = b.records[j] /\ j <= Len(files[dir])
  <2>1. Stored(dir) /\ files[dir] \in Seq(Shard)
    BY <1>1 DEF DataInv, FlowInv, Types
  <2>2. b.records \in Seq(Shard)
    BY <1>7 DEF Wrote
  <2>3. Len(b.records) \in Nat /\ Len(files[dir]) \in Nat
    BY <2>1, <2>2
  <2> HIDE DEF dir
  <2> QED  BY <2>1, <2>3 DEF Stored
<1> HIDE DEF tokens, docs, a, b, cut, aw, bw, dir
<1> DEFINE from == At(i - 1)
           start == Start0(w)
           shard == b.records[i].tokens
<1>9. /\ i \in 1..Len(a.records) /\ start \in Nat
      /\ start + SequenceLength + 1 <= Len(a.records[i].tokens)
      /\ Total(split, i - 1) = from
  BY <1>7, WindowLies
<1>10. Len(a.records) = Len(b.records)
  BY <1>7, AsManyShards
<1> HIDE DEF i
<1>11. i \in 1..Len(b.records)
  BY <1>9, <1>10
<1>12. Len(shard) = Len(a.records[i].tokens)
  <2>1. Len(a.records[i].tokens) = (IF At(i) <= cut THEN At(i) ELSE cut) - At(i - 1)
    BY <1>7, <1>9, ShardLengths
  <2>2. Len(b.records[i].tokens) = (IF At(i) <= cut THEN At(i) ELSE cut) - At(i - 1)
    BY <1>7, <1>11, ShardLengths
  <2> QED  BY <2>1, <2>2
<1>13. /\ from \in Nat /\ Len(shard) \in Nat /\ from + Len(shard) <= Len(docs)
       /\ shard = SubSeq(docs, from + 1, from + Len(shard)) /\ shard \in Seq(Data)
  BY <1>7, <1>11, ShardIs
<1>14. HasOwners(split, w)
  BY <1>8, <1>11 DEF HasOwners, dir, i
<1>15. ItemOwners(split, w) = Slice(shard, start + 1, start + SequenceLength)
  <2>1. files[dir][i] = b.records[i]
    BY <1>8, <1>11
  <2> QED  BY <2>1 DEF ItemOwners, dir, i
<1>16. First(split, w) = from + start + 1
  BY <1>9 DEF First, i
<1> HIDE DEF from, start, shard
<1>17. Slice(shard, start + 1, start + SequenceLength)
         = SubSeq(docs, from + start + 1, from + start + SequenceLength)
  <2>1. \A f, k, l \in Nat :
          /\ shard = SubSeq(docs, f + 1, f + Len(shard))
          /\ k + l <= Len(shard) /\ f + Len(shard) <= Len(docs)
          => Slice(shard, k + 1, k + l) = SubSeq(docs, f + k + 1, f + k + l)
    BY <1>7, <1>13, WindowIs, Zenon
  <2>2. from \in Nat /\ start \in Nat /\ SequenceLength \in Nat
    BY <1>9, <1>13, WindowTyped
  <2>3. start + SequenceLength <= Len(shard)
    BY <1>9, <1>12, <1>13, <2>2
  <2>4. shard = SubSeq(docs, from + 1, from + Len(shard)) /\ from + Len(shard) <= Len(docs)
    BY <1>13
  <2> QED  BY <2>1, <2>2, <2>3, <2>4, Zenon
<1>18. (from + start + 1) + SequenceLength - 1 = from + start + SequenceLength
  BY <1>9, <1>13, WindowTyped
<1> QED  BY <1>14, <1>15, <1>16, <1>17, <1>18 DEF docs

-----------------------------------------------------------------------------

\* The invariant holds of every preparation.
LEMMA DataInvariant ==
  ASSUME Widths
  PROVE  Spec => []DataInv
<1>1. DataInv /\ [Next]_vars => DataInv'
  BY DataNext
<1> QED  BY <1>1, DataInit, PTL DEF Spec

\* When the checksums of a dataset agree, whatever preparations and crashes
\* there were since, each of its items is a piece of the text of one
\* preparation, whose shards are full but the last and hold all but less than a
\* window of it (prepare_dataset, TokenShardWriter, TokenShardDataset). The
\* reader takes the tokens to have the width of the vocabulary, whatever the
\* configuration says: the theorem is about the configurations that ask for it.
THEOREM ItemsArePiecesOfText ==
  ASSUME Widths
  PROVE  Spec => []IntactIsText
<1>1. DataInv => IntactIsText
  BY ItemsAreText DEF DataInv, IntactIsText
<1>2. Spec => []DataInv
  BY DataInvariant
<1> QED  BY <1>1, <1>2, PTL

\* When a preparation that packs documents saves its manifest, each token of
\* an item comes with the number of the document it is of (the owners that
\* prepare_dataset pushes, and those __getitem__ reads beside the tokens).
THEOREM OwnersFollowTokens ==
  ASSUME Widths
  PROVE  Spec => []OwnersMatchTokens
<1>1. DataInv => OwnersMatchTokens
  BY OwnersAreInStep DEF OwnersMatchTokens
<1>2. Spec => []DataInv
  BY DataInvariant
<1> QED  BY <1>1, <1>2, PTL

-----------------------------------------------------------------------------
(* Conversations: what a sequence of messages becomes, message by message. *)

\* A function by recursion over the numbers up to N.
Recurs(f, N, base, step) ==
  /\ f = [n \in 0..N |-> f[n]] /\ f[0] = base
  /\ \A n \in 1..N : f[n] = step[n][f[n - 1]]

LEMMA Recursion ==
  ASSUME NEW N \in Nat, NEW A, NEW base \in A, NEW step \in [1..N -> [A -> A]]
  PROVE  \E f \in [0..N -> A] : Recurs(f, N, base, step)
<1> DEFINE S == {k \in Nat : k <= N => \E f \in [0..k -> A] : Recurs(f, k, base, step)}
<1>1. 0 \in S
  <2> DEFINE f == [n \in 0..0 |-> base]
  <2>1. f \in [0..0 -> A] /\ f[0] = base /\ f = [n \in 0..0 |-> f[n]] /\ 1..0 = {}
    OBVIOUS
  <2> HIDE DEF f
  <2> QED  BY <2>1 DEF Recurs
<1>2. ASSUME NEW k \in S PROVE k + 1 \in S
  <2> SUFFICES ASSUME k + 1 <= N PROVE \E f \in [0..k + 1 -> A] : Recurs(f, k + 1, base, step)
    OBVIOUS
  <2>1. k \in Nat /\ k <= N
    OBVIOUS
  <2>2. PICK f \in [0..k -> A] : Recurs(f, k, base, step)
    BY <2>1
  <2> DEFINE g == [n \in 0..k + 1 |-> IF n = k + 1 THEN step[k + 1][f[k]] ELSE f[n]]
  <2>3. k + 1 \in 1..N /\ k \in 0..k /\ 0 \in 0..k /\ 0 # k + 1 /\ (k + 1) - 1 = k
    BY <2>1
  <2>4. step[k + 1] \in [A -> A] /\ f[k] \in A
    BY <2>3
  <2>5. \A n \in 0..k + 1 : n # k + 1 => n \in 0..k
    BY <2>1
  <2>6. g \in [0..k + 1 -> A]
    BY <2>4, <2>5
  <2>7. /\ g[k + 1] = step[k + 1][f[k]]
        /\ \A n \in 0..k : g[n] = f[n]
    <3>1. k + 1 \in 0..k + 1 /\ \A n \in 0..k : n \in 0..k + 1 /\ n # k + 1
      BY <2>1
    <3> QED  BY <3>1
  <2>8. g = [n \in 0..k + 1 |-> g[n]]
    OBVIOUS
  <2> HIDE DEF g
  <2>9. g[0] = base
    BY <2>2, <2>3, <2>7 DEF Recurs
  <2>10. ASSUME NEW n \in 1..k + 1 PROVE g[n] = step[n][g[n - 1]]
    <3>1. CASE n = k + 1
      <4>1. n - 1 = k
        BY <2>1, <3>1
      <4> QED  BY <2>3, <2>7, <3>1, <4>1
    <3>2. CASE n # k + 1
      <4>1. n \in 1..k /\ n \in 0..k /\ n - 1 \in 0..k
        BY <2>1, <3>2
      <4> QED  BY <2>2, <2>7, <4>1 DEF Recurs
    <3> QED  BY <3>1, <3>2
  <2> QED  BY <2>6, <2>8, <2>9, <2>10 DEF Recurs
<1>3. S = Nat
  <2> HIDE DEF S
  <2>1. S \in SUBSET Nat
    BY DEF S
  <2> QED  BY <1>1, <1>2, <2>1, Induction
<1> QED  BY <1>3

\* Induction up to N.
LEMMA UpTo ==
  ASSUME NEW N \in Nat, NEW P, 0 \in P, \A n \in 1..N : n - 1 \in P => n \in P
  PROVE  \A n \in 0..N : n \in P
<1> DEFINE S == {n \in Nat : n <= N => n \in P}
<1>1. 0 \in S
  OBVIOUS
<1>2. ASSUME NEW n \in S PROVE n + 1 \in S
  <2> SUFFICES ASSUME n + 1 <= N PROVE n + 1 \in P
    OBVIOUS
  <2>1. n + 1 \in 1..N /\ (n + 1) - 1 = n /\ n \in P
    OBVIOUS
  <2> QED  BY <2>1
<1>3. S = Nat
  <2>1. S \in SUBSET Nat
    OBVIOUS
  <2> HIDE DEF S
  <2> QED  BY <1>1, <1>2, <2>1, Induction
<1> QED  BY <1>3

\* The words of a message and the headings around them.
Spelled == Spoken \cup {Gap, Instruction, Input, Response}
Prose == Seq(Spelled)
Talks == [system : Seq(Prose), turns : Seq(Prose), pending : Prose \cup {None}]

\* A message that is stripped ends in no heading, which ends in a newline.
Utterance == {t \in Prose : t # <<>> => t[Len(t)] # Response}
Message == [role : STRING, words : Utterance]

LEMMA JoinedIs ==
  ASSUME NEW parts \in Seq(Prose)
  PROVE  \E f \in [0..Len(parts) -> Prose] :
           /\ Joined(parts) = f[Len(parts)]
           /\ f[0] = <<>>
           /\ \A n \in 1..Len(parts) :
                f[n] = IF n = 1 THEN parts[n] ELSE f[n - 1] \o <<Gap>> \o parts[n]
<1> DEFINE N == Len(parts)
           step == [n \in 1..N |-> [a \in Prose |->
                     IF n = 1 THEN parts[n] ELSE a \o <<Gap>> \o parts[n]]]
           base == <<>>
<1>1. N \in Nat /\ base \in Prose /\ <<Gap>> \in Prose /\ \A n \in 1..N : parts[n] \in Prose
  BY DEF Prose, Spelled
<1>2. \A n \in 1..N : step[n] \in [Prose -> Prose]
  <2>1. \A n \in 1..N : \A a \in Prose :
          (IF n = 1 THEN parts[n] ELSE a \o <<Gap>> \o parts[n]) \in Prose
    <3>1. \A a, b \in Prose : a \o <<Gap>> \o b \in Prose
      BY <1>1 DEF Prose
    <3> QED  BY <1>1, <3>1
  <2> QED  BY <2>1
<1>3. step \in [1..N -> [Prose -> Prose]]
  BY <1>2
<1> HIDE DEF step, base, N
<1>4. PICK f \in [0..N -> Prose] : Recurs(f, N, base, step)
  BY <1>1, <1>3, Recursion
<1>5. f[0] = <<>>
  BY <1>4 DEF Recurs, base
<1>6. ASSUME NEW n \in 1..N
      PROVE  f[n] = IF n = 1 THEN parts[n] ELSE f[n - 1] \o <<Gap>> \o parts[n]
  <2>1. f[n] = step[n][f[n - 1]] /\ f[n - 1] \in Prose
    <3>1. n - 1 \in 0..N
      BY <1>1
    <3> QED  BY <1>4, <3>1 DEF Recurs
  <2> QED  BY <2>1 DEF step
<1>7. f = [n \in 0..N |-> IF n = 0 THEN <<>>
                          ELSE IF n = 1 THEN parts[n] ELSE f[n - 1] \o <<Gap>> \o parts[n]]
  <2>1. \A n \in 0..N : n = 0 \/ n \in 1..N
    BY <1>1
  <2>2. \A n \in 0..N : f[n] = IF n = 0 THEN <<>>
                          ELSE IF n = 1 THEN parts[n] ELSE f[n - 1] \o <<Gap>> \o parts[n]
    BY <1>5, <1>6, <2>1
  <2>3. f = [n \in 0..N |-> f[n]]
    BY <1>4 DEF Recurs
  <2> QED  BY <2>2, <2>3
<1> DEFINE g == CHOOSE g : g = [n \in 0..N |-> IF n = 0 THEN <<>>
                          ELSE IF n = 1 THEN parts[n] ELSE g[n - 1] \o <<Gap>> \o parts[n]]
<1>8. Joined(parts) = g[N]
  BY DEF Joined, N
<1>9. g = [n \in 0..N |-> IF n = 0 THEN <<>>
                          ELSE IF n = 1 THEN parts[n] ELSE g[n - 1] \o <<Gap>> \o parts[n]]
  BY <1>7
<1> HIDE DEF g
<1>10. g[0] = <<>> /\ g = [n \in 0..N |-> g[n]]
  <2>1. 0 \in 0..N
    BY <1>1
  <2> QED  BY <1>9, <2>1
<1>11. \A n \in 1..N : g[n] = IF n = 1 THEN parts[n] ELSE g[n - 1] \o <<Gap>> \o parts[n]
  <2>1. \A n \in 1..N : n \in 0..N /\ n # 0
    BY <1>1
  <2> QED  BY <1>9, <2>1
<1>12. \A n \in 0..N : g[n] \in Prose
  <2> DEFINE P == {n \in 0..N : g[n] \in Prose}
  <2>1. 0 \in P
    BY <1>1, <1>10 DEF base
  <2>2. ASSUME NEW n \in 1..N, n - 1 \in P PROVE n \in P
    <3>1. n \in 0..N /\ g[n - 1] \in Prose /\ parts[n] \in Prose
      BY <1>1, <2>2
    <3>2. g[n - 1] \o <<Gap>> \o parts[n] \in Prose
      BY <1>1, <3>1 DEF Prose
    <3> QED  BY <1>11, <3>1, <3>2
  <2> HIDE DEF P
  <2>3. \A n \in 0..N : n \in P
    BY <1>1, <2>1, <2>2, UpTo
  <2> QED  BY <2>3 DEF P
<1> QED  BY <1>8, <1>10, <1>11, <1>12 DEF N

LEMMA ProseTyped ==
  /\ <<>> \in Prose /\ <<Gap>> \in Prose /\ Silent \in Talks
  /\ \A a, b \in Prose : a \o b \in Prose /\ Turn(a, b) \in Prose
  /\ \A a, b \in Prose : Joined(<<a, b>>) \in Prose
<1>1. <<>> \in Prose /\ <<Gap>> \in Prose /\ <<Instruction>> \in Prose /\ <<Gap, Response>> \in Prose
  BY DEF Prose, Spelled
<1>2. Silent \in Talks
  BY <1>1 DEF Silent, Talks
<1>3. \A a, b \in Prose : a \o b \in Prose
  BY DEF Prose
<1>4. \A a, b \in Prose : Turn(a, b) \in Prose
  BY <1>1, <1>3 DEF Turn
<1>5. ASSUME NEW a \in Prose, NEW b \in Prose PROVE Joined(<<a, b>>) \in Prose
  <2>1. <<a, b>> \in Seq(Prose) /\ Len(<<a, b>>) = 2
    OBVIOUS
  <2>2. PICK f \in [0..2 -> Prose] : Joined(<<a, b>>) = f[2]
    BY <2>1, JoinedIs
  <2> QED  BY <2>2
<1> QED  BY <1>1, <1>2, <1>3, <1>4, <1>5

LEMMA SaysTyped ==
  ASSUME NEW talk \in Talks, NEW message \in Message
  PROVE  Says(talk, message) \in Talks
<1> DEFINE words == message.words
<1>1. words \in Prose
  BY DEF Message, Utterance
<1>2. talk.system \in Seq(Prose) /\ talk.turns \in Seq(Prose) /\ talk.pending \in Prose \cup {None}
      /\ talk = [system |-> talk.system, turns |-> talk.turns, pending |-> talk.pending]
  BY DEF Talks
<1> HIDE DEF words
<1>3. [talk EXCEPT !.system = Append(@, words)] \in Talks
  <2>1. Append(talk.system, words) \in Seq(Prose)
    BY <1>1, <1>2
  <2> QED  BY <1>2, <2>1 DEF Talks
<1>4. UserSays(talk, words) \in Talks
  <2>1. (IF talk.pending = None THEN words ELSE Joined(<<talk.pending, words>>)) \in Prose \cup {None}
    BY <1>1, <1>2, ProseTyped
  <2> QED  BY <1>2, <2>1 DEF UserSays, Talks
<1>5. AssistantSays(talk, words) \in Talks
  <2>1. CASE talk.pending # None
    <3>1. Append(talk.turns, Turn(talk.pending, words)) \in Seq(Prose)
      BY <1>1, <1>2, <2>1, ProseTyped
    <3>2. AssistantSays(talk, words)
            = [system |-> talk.system, turns |-> Append(talk.turns, Turn(talk.pending, words)),
               pending |-> None]
      BY <1>2, <2>1 DEF AssistantSays
    <3> QED  BY <1>2, <3>1, <3>2 DEF Talks
  <2>2. CASE talk.pending = None /\ talk.turns # <<>>
    <3> DEFINE n == Len(talk.turns)
               turns == [talk.turns EXCEPT ![n] = Joined(<<@, words>>)]
    <3>1. n \in 1..n /\ talk.turns[n] \in Prose
      BY <1>2, <2>2
    <3>2. Joined(<<talk.turns[n], words>>) \in Prose
      BY <1>1, <3>1, ProseTyped
    <3>3. turns \in Seq(Prose)
      BY <1>2, <3>1, <3>2
    <3>4. AssistantSays(talk, words) = [talk EXCEPT !.turns = turns]
      BY <1>2, <2>2 DEF AssistantSays
    <3> HIDE DEF turns
    <3> QED  BY <1>2, <3>3, <3>4 DEF Talks
  <2>3. CASE talk.pending = None /\ talk.turns = <<>>
    BY <2>3 DEF AssistantSays
  <2> QED  BY <2>1, <2>2, <2>3
<1> QED  BY <1>3, <1>4, <1>5 DEF Says, words

LEMMA TalkIs ==
  ASSUME NEW messages \in Seq(Message)
  PROVE  LET talk == Talk(messages)
         IN /\ \A n \in 0..Len(messages) : talk[n] \in Talks
            /\ talk[0] = Silent
            /\ \A n \in 1..Len(messages) : talk[n] = Says(talk[n - 1], messages[n])
<1> DEFINE N == Len(messages)
           step == [n \in 1..N |-> [a \in Talks |-> Says(a, messages[n])]]
           g == Talk(messages)
<1>1. N \in Nat /\ Silent \in Talks /\ \A n \in 1..N : messages[n] \in Message
  BY ProseTyped
<1>2. step \in [1..N -> [Talks -> Talks]]
  <2>1. \A n \in 1..N : [a \in Talks |-> Says(a, messages[n])] \in [Talks -> Talks]
    BY <1>1, SaysTyped
  <2> QED  BY <2>1
<1> HIDE DEF step, N
<1>3. PICK f \in [0..N -> Talks] : Recurs(f, N, Silent, step)
  BY <1>1, <1>2, Recursion
<1>4. \A n \in 1..N : f[n] = Says(f[n - 1], messages[n])
  <2>1. \A n \in 1..N : n - 1 \in 0..N /\ f[n] = step[n][f[n - 1]] /\ f[n - 1] \in Talks
    BY <1>1, <1>3 DEF Recurs
  <2> QED  BY <2>1 DEF step
<1>5. f = [n \in 0..N |-> IF n = 0 THEN Silent ELSE Says(f[n - 1], messages[n])]
  <2>1. \A n \in 0..N : n = 0 \/ n \in 1..N
    BY <1>1
  <2>2. f[0] = Silent /\ f = [n \in 0..N |-> f[n]]
    BY <1>3 DEF Recurs
  <2> QED  BY <1>4, <2>1, <2>2
<1>6. g = [n \in 0..N |-> IF n = 0 THEN Silent ELSE Says(g[n - 1], messages[n])]
  BY <1>5 DEF Talk, N
<1> HIDE DEF g
<1>7. g[0] = Silent /\ \A n \in 1..N : g[n] = Says(g[n - 1], messages[n])
  <2>1. 0 \in 0..N /\ \A n \in 1..N : n \in 0..N /\ n # 0
    BY <1>1
  <2> QED  BY <1>6, <2>1
<1>8. \A n \in 0..N : g[n] \in Talks
  <2> DEFINE P == {n \in 0..N : g[n] \in Talks}
  <2>1. 0 \in P
    BY <1>1, <1>7
  <2>2. ASSUME NEW n \in 1..N, n - 1 \in P PROVE n \in P
    <3>1. n \in 0..N /\ g[n - 1] \in Talks /\ messages[n] \in Message
      BY <1>1, <2>2
    <3>2. Says(g[n - 1], messages[n]) \in Talks
      BY <3>1, SaysTyped
    <3> QED  BY <1>7, <3>1, <3>2
  <2> HIDE DEF P
  <2>3. \A n \in 0..N : n \in P
    BY <1>1, <2>1, <2>2, UpTo
  <2> QED  BY <2>3 DEF P
<1> QED  BY <1>7, <1>8 DEF N, g

LEMMA ContentsIs ==
  ASSUME NEW messages \in Seq(Message)
  PROVE  LET found == Contents(messages)
         IN /\ \A n \in 0..Len(messages) : found[n] \in Seq(Utterance)
            /\ found[0] = <<>>
            /\ \A n \in 1..Len(messages) :
                 found[n] = IF messages[n].role = "system" THEN Append(found[n - 1], messages[n].words)
                            ELSE found[n - 1]
<1> DEFINE N == Len(messages)
           A == Seq(Utterance)
           step == [n \in 1..N |-> [a \in A |->
                     IF messages[n].role = "system" THEN Append(a, messages[n].words) ELSE a]]
           base == <<>>
           g == Contents(messages)
<1>1. N \in Nat /\ base \in A /\ \A n \in 1..N : messages[n].words \in Utterance
  <2>1. \A n \in 1..N : messages[n] \in Message
    OBVIOUS
  <2> QED  BY <2>1 DEF Message
<1>2. \A a \in A : \A n \in 1..N :
        (IF messages[n].role = "system" THEN Append(a, messages[n].words) ELSE a) \in A
  BY <1>1
<1> HIDE DEF A, N
<1>3. step \in [1..N -> [A -> A]]
  <2>1. \A n \in 1..N : [a \in A |->
            IF messages[n].role = "system" THEN Append(a, messages[n].words) ELSE a] \in [A -> A]
    BY <1>2
  <2> QED  BY <2>1
<1> HIDE DEF step
<1>4. PICK f \in [0..N -> A] : Recurs(f, N, base, step)
  <2> HIDE DEF base
  <2> QED  BY <1>1, <1>3, Recursion
<1>5. \A n \in 1..N :
        f[n] = IF messages[n].role = "system" THEN Append(f[n - 1], messages[n].words) ELSE f[n - 1]
  <2>0. \A n \in 1..N : n - 1 \in 0..N
    BY <1>1
  <2>1. \A n \in 1..N : f[n] = step[n][f[n - 1]] /\ f[n - 1] \in A
    BY <1>4, <2>0 DEF Recurs
  <2> QED  BY <2>1 DEF step
<1>6. f = [n \in 0..N |-> IF n = 0 THEN <<>> ELSE
             IF messages[n].role = "system" THEN Append(f[n - 1], messages[n].words) ELSE f[n - 1]]
  <2>1. \A n \in 0..N : n = 0 \/ n \in 1..N
    BY <1>1
  <2>2. f[0] = <<>> /\ f = [n \in 0..N |-> f[n]]
    BY <1>4 DEF Recurs
  <2> QED  BY <1>5, <2>1, <2>2
<1>7. g = [n \in 0..N |-> IF n = 0 THEN <<>> ELSE
             IF messages[n].role = "system" THEN Append(g[n - 1], messages[n].words) ELSE g[n - 1]]
  BY <1>6 DEF Contents, N
<1> HIDE DEF g
<1>8. /\ g[0] = <<>>
      /\ \A n \in 1..N :
           g[n] = IF messages[n].role = "system" THEN Append(g[n - 1], messages[n].words) ELSE g[n - 1]
  <2>1. 0 \in 0..N /\ \A n \in 1..N : n \in 0..N /\ n # 0
    BY <1>1
  <2> QED  BY <1>7, <2>1
<1>9. \A n \in 0..N : g[n] \in A
  <2> DEFINE P == {n \in 0..N : g[n] \in A}
  <2>1. 0 \in P
    BY <1>1, <1>8
  <2>2. ASSUME NEW n \in 1..N, n - 1 \in P PROVE n \in P
    BY <1>1, <1>2, <1>8, <2>2
  <2> HIDE DEF P
  <2>3. \A n \in 0..N : n \in P
    BY <1>1, <2>1, <2>2, UpTo
  <2> QED  BY <2>3 DEF P
<1> QED  BY <1>8, <1>9 DEF N, g, A

LEMMA AddTyped ==
  ASSUME NEW blocks \in Seq(Prose), NEW message \in Message
  PROVE  AddMessage(blocks, message) \in Seq(Prose)
<1>1. message.words \in Prose /\ Turn(message.words, <<>>) \in Prose
  BY ProseTyped DEF Message, Utterance
<1> DEFINE n == Len(blocks)
<1>2. [blocks EXCEPT ![n] = @ \o message.words] \in Seq(Prose)
  <2>1. CASE n \in DOMAIN blocks
    <3>1. blocks[n] \o message.words \in Prose
      BY <1>1, <2>1, ProseTyped
    <3> QED  BY <2>1, <3>1
  <2>2. CASE n \notin DOMAIN blocks
    <3>1. [blocks EXCEPT ![n] = @ \o message.words] = blocks
      BY <2>2
    <3> QED  BY <3>1
  <2> QED  BY <2>1, <2>2
<1> QED  BY <1>1, <1>2 DEF AddMessage

LEMMA FirstTyped ==
  ASSUME NEW messages \in Seq(Message)
  PROVE  FirstBlocks(messages) \in Seq(Prose)
<1> DEFINE system == Contents(messages)[Len(messages)]
<1>1. system \in Seq(Utterance)
  <2>1. Len(messages) \in 0..Len(messages)
    OBVIOUS
  <2> QED  BY <2>1, ContentsIs
<1> HIDE DEF system
<1>2. system \in Seq(Prose)
  BY <1>1 DEF Utterance
<1>3. Joined(system) \in Prose
  <2>1. PICK f \in [0..Len(system) -> Prose] : Joined(system) = f[Len(system)]
    BY <1>2, JoinedIs
  <2>2. Len(system) \in 0..Len(system)
    BY <1>2
  <2> QED  BY <2>1, <2>2
<1> QED  BY <1>3 DEF FirstBlocks, system

LEMMA BlocksIs ==
  ASSUME NEW messages \in Seq(Message)
  PROVE  LET blocks == Blocks(messages)
         IN /\ \A n \in 0..Len(messages) : blocks[n] \in Seq(Prose)
            /\ blocks[0] = FirstBlocks(messages)
            /\ \A n \in 1..Len(messages) : blocks[n] = AddMessage(blocks[n - 1], messages[n])
<1> DEFINE N == Len(messages)
           A == Seq(Prose)
           base == FirstBlocks(messages)
           step == [n \in 1..N |-> [a \in A |-> AddMessage(a, messages[n])]]
           g == Blocks(messages)
<1>1. N \in Nat /\ base \in A /\ \A n \in 1..N : messages[n] \in Message
  BY FirstTyped
<1>2. \A a \in A : \A n \in 1..N : AddMessage(a, messages[n]) \in A
  BY <1>1, AddTyped
<1> HIDE DEF A, N, base
<1>3. step \in [1..N -> [A -> A]]
  <2>1. \A n \in 1..N : [a \in A |-> AddMessage(a, messages[n])] \in [A -> A]
    BY <1>2
  <2> QED  BY <2>1
<1> HIDE DEF step
<1>4. PICK f \in [0..N -> A] : Recurs(f, N, base, step)
  BY <1>1, <1>3, Recursion
<1>5. \A n \in 1..N : f[n] = AddMessage(f[n - 1], messages[n])
  <2>0. \A n \in 1..N : n - 1 \in 0..N
    BY <1>1
  <2>1. \A n \in 1..N : f[n] = step[n][f[n - 1]] /\ f[n - 1] \in A
    BY <1>4, <2>0 DEF Recurs
  <2> QED  BY <2>1 DEF step
<1>6. f = [n \in 0..N |-> IF n = 0 THEN base ELSE AddMessage(f[n - 1], messages[n])]
  <2>1. \A n \in 0..N : n = 0 \/ n \in 1..N
    BY <1>1
  <2>2. f[0] = base /\ f = [n \in 0..N |-> f[n]]
    BY <1>4 DEF Recurs
  <2> QED  BY <1>5, <2>1, <2>2
<1>7. g = [n \in 0..N |-> IF n = 0 THEN base ELSE AddMessage(g[n - 1], messages[n])]
  BY <1>6 DEF Blocks, N, base
<1> HIDE DEF g
<1>8. g[0] = base /\ \A n \in 1..N : g[n] = AddMessage(g[n - 1], messages[n])
  <2>1. 0 \in 0..N /\ \A n \in 1..N : n \in 0..N /\ n # 0
    BY <1>1
  <2> QED  BY <1>7, <2>1
<1>9. \A n \in 0..N : g[n] \in A
  <2> DEFINE P == {n \in 0..N : g[n] \in A}
  <2>1. 0 \in P
    BY <1>1, <1>8
  <2>2. ASSUME NEW n \in 1..N, n - 1 \in P PROVE n \in P
    <3>1. n \in 0..N /\ g[n - 1] \in A
      BY <1>1, <2>2
    <3> QED  BY <1>2, <1>8, <3>1
  <2> HIDE DEF P
  <2>3. \A n \in 0..N : n \in P
    BY <1>1, <2>1, <2>2, UpTo
  <2> QED  BY <2>3 DEF P
<1> QED  BY <1>8, <1>9 DEF N, g, A, base

\* What the prompt does not take for a heading that waits for its answer.
Ends(text) == text # <<>> /\ text[Len(text)] # Response

LEMMA EndOfConcat ==
  ASSUME NEW a \in Prose, NEW b \in Prose, b # <<>>
  PROVE  a \o b # <<>> /\ (a \o b)[Len(a \o b)] = b[Len(b)]
<1> DEFINE c == a \o b
           m == Len(a)
           n == Len(b)
<1>1. /\ c \in Seq(Spelled) /\ Len(c) = m + n /\ m \in Nat /\ n \in Nat \ {0}
      /\ \A i \in 1..m + n : c[i] = IF i <= m THEN a[i] ELSE b[i - m]
  BY ConcatProperties DEF Prose
<1> HIDE DEF c, m, n
<1>2. c # <<>> /\ m + n \in 1..m + n /\ ~(m + n <= m) /\ (m + n) - m = n
  BY <1>1
<1>3. c[m + n] = b[n]
  BY <1>1, <1>2
<1> QED  BY <1>1, <1>2, <1>3 DEF c, n

LEMMA JoinedAppend ==
  ASSUME NEW parts \in Seq(Prose), NEW part \in Prose
  PROVE  Joined(Append(parts, part)) = IF parts = <<>> THEN part ELSE Joined(parts) \o <<Gap>> \o part
<1> DEFINE more == Append(parts, part)
           len == Len(parts)
<1>1. /\ more \in Seq(Prose) /\ Len(more) = len + 1 /\ len \in Nat
      /\ \A n \in 1..len : more[n] = parts[n]
      /\ more[len + 1] = part
      /\ (parts = <<>> <=> len = 0)
  OBVIOUS
<1> HIDE DEF more
<1>2. PICK a \in [0..len -> Prose] :
        /\ Joined(parts) = a[len] /\ a[0] = <<>>
        /\ \A n \in 1..len : a[n] = IF n = 1 THEN parts[n] ELSE a[n - 1] \o <<Gap>> \o parts[n]
  BY JoinedIs
<1>3. PICK b \in [0..len + 1 -> Prose] :
        /\ Joined(more) = b[len + 1] /\ b[0] = <<>>
        /\ \A n \in 1..len + 1 : b[n] = IF n = 1 THEN more[n] ELSE b[n - 1] \o <<Gap>> \o more[n]
  <2> HIDE DEF len
  <2>1. PICK b \in [0..Len(more) -> Prose] :
        /\ Joined(more) = b[Len(more)] /\ b[0] = <<>>
        /\ \A n \in 1..Len(more) : b[n] = IF n = 1 THEN more[n] ELSE b[n - 1] \o <<Gap>> \o more[n]
    BY <1>1, JoinedIs
  <2>2. Len(more) = len + 1
    BY <1>1
  <2> QED  BY <2>1, <2>2
<1> HIDE DEF len
<1>4. \A n \in 0..len : b[n] = a[n]
  <2> DEFINE P == {n \in 0..len : b[n] = a[n]}
  <2>1. 0 \in P
    BY <1>1, <1>2, <1>3
  <2>2. ASSUME NEW n \in 1..len, n - 1 \in P PROVE n \in P
    <3>1. n \in 0..len /\ n \in 1..len + 1 /\ b[n - 1] = a[n - 1] /\ more[n] = parts[n]
      BY <1>1, <2>2
    <3> QED  BY <1>2, <1>3, <3>1
  <2> HIDE DEF P
  <2>3. \A n \in 0..len : n \in P
    BY <1>1, <2>1, <2>2, UpTo
  <2> QED  BY <2>3 DEF P
<1>5. len + 1 \in 1..len + 1 /\ (len + 1) - 1 = len /\ len \in 0..len /\ (len + 1 = 1 <=> len = 0)
  BY <1>1
<1>6. Joined(more) = IF len = 0 THEN part ELSE b[len] \o <<Gap>> \o part
  BY <1>1, <1>3, <1>5
<1> QED  BY <1>1, <1>2, <1>4, <1>5, <1>6 DEF more

\* An answer that is joined last may as well be written after the rest.
LEMMA JoinedLast ==
  ASSUME NEW parts \in Seq(Prose), NEW a \in Prose, NEW b \in Prose
  PROVE  Joined(Append(parts, a \o b)) = Joined(Append(parts, a)) \o b
<1>1. a \o b \in Prose
  BY ProseTyped
<1>2. /\ Joined(Append(parts, a \o b)) = IF parts = <<>> THEN a \o b ELSE Joined(parts) \o <<Gap>> \o (a \o b)
      /\ Joined(Append(parts, a)) = IF parts = <<>> THEN a ELSE Joined(parts) \o <<Gap>> \o a
  BY <1>1, JoinedAppend
<1>3. Joined(parts) \in Prose
  <2>1. PICK f \in [0..Len(parts) -> Prose] : Joined(parts) = f[Len(parts)]
    BY JoinedIs
  <2>2. Len(parts) \in 0..Len(parts)
    OBVIOUS
  <2> QED  BY <2>1, <2>2
<1>4. (Joined(parts) \o <<Gap>> \o a) \o b = Joined(parts) \o <<Gap>> \o (a \o b)
  <2> DEFINE head == Joined(parts) \o <<Gap>>
  <2>1. head \in Prose
    BY <1>3, ProseTyped
  <2> HIDE DEF head
  <2>2. (head \o a) \o b = head \o (a \o b)
    BY <2>1, ConcatAssociative DEF Prose
  <2> QED  BY <2>2 DEF head
<1> QED  BY <1>2, <1>4

LEMMA JoinedEnds ==
  ASSUME NEW parts \in Seq(Prose), parts # <<>>, \A i \in DOMAIN parts : Ends(parts[i])
  PROVE  Ends(Joined(parts))
<1> DEFINE N == Len(parts)
<1>1. N \in Nat \ {0} /\ N \in 1..N /\ parts[N] \in Prose /\ Ends(parts[N])
  OBVIOUS
<1>2. PICK f \in [0..N -> Prose] :
        /\ Joined(parts) = f[N]
        /\ \A n \in 1..N : f[n] = IF n = 1 THEN parts[n] ELSE f[n - 1] \o <<Gap>> \o parts[n]
  BY JoinedIs
<1> HIDE DEF N
<1>3. CASE N = 1
  BY <1>1, <1>2, <1>3
<1>4. CASE N # 1
  <2>1. N - 1 \in 0..N
    BY <1>1
  <2>2. f[N - 1] \o <<Gap>> \in Prose /\ f[N] = f[N - 1] \o <<Gap>> \o parts[N]
    BY <1>1, <1>2, <1>4, <2>1, ProseTyped
  <2> DEFINE head == f[N - 1] \o <<Gap>>
             last == parts[N]
  <2>3. head \in Prose /\ last \in Prose /\ last # <<>> /\ Joined(parts) = head \o last
        /\ last[Len(last)] # Response
    BY <1>1, <1>2, <2>2 DEF Ends
  <2> HIDE DEF head, last
  <2> QED  BY <2>3, EndOfConcat DEF Ends
<1> QED  BY <1>3, <1>4

LEMMA FirstEnds ==
  ASSUME NEW messages \in Seq(Message), \A i \in DOMAIN messages : messages[i].words # <<>>
  PROVE  \A i \in DOMAIN FirstBlocks(messages) : Ends(FirstBlocks(messages)[i])
<1> DEFINE N == Len(messages)
           found == Contents(messages)
<1>1. /\ found[0] = <<>> /\ N \in Nat
      /\ \A n \in 0..N : found[n] \in Seq(Utterance)
      /\ \A n \in 1..N :
           found[n] = IF messages[n].role = "system" THEN Append(found[n - 1], messages[n].words)
                      ELSE found[n - 1]
  BY ContentsIs
<1>2. \A n \in 1..N : messages[n].words \in Utterance /\ messages[n].words # <<>>
  <2>1. \A n \in 1..N : messages[n] \in Message
    OBVIOUS
  <2> QED  BY <2>1 DEF Message
<1> HIDE DEF N, found
<1> DEFINE Worded == {t \in Utterance : t # <<>>}
           P == {n \in 0..N : found[n] \in Seq(Worded)}
<1>3. 0 \in P
  BY <1>1
<1>4. ASSUME NEW n \in 1..N, n - 1 \in P PROVE n \in P
  <2>1. n \in 0..N /\ found[n - 1] \in Seq(Worded) /\ messages[n].words \in Worded
    BY <1>1, <1>2, <1>4
  <2> HIDE DEF Worded
  <2>2. Append(found[n - 1], messages[n].words) \in Seq(Worded)
    BY <2>1
  <2> QED  BY <1>1, <2>1, <2>2
<1>5. \A n \in 0..N : n \in P
  <2> HIDE DEF P
  <2> QED  BY <1>1, <1>3, <1>4, UpTo
<1>6. found[N] \in Seq(Worded)
  BY <1>1, <1>5
<1> DEFINE system == found[N]
<1>7. system # <<>> => Ends(Joined(system))
  <2>1. system \in Seq(Prose) /\ \A i \in DOMAIN system : system[i] \in Worded
    <3>1. Worded \subseteq Prose
      BY DEF Utterance
    <3> HIDE DEF Worded
    <3> QED  BY <1>6, <3>1
  <2>2. \A i \in DOMAIN system : Ends(system[i])
    BY <2>1 DEF Ends, Utterance
  <2> HIDE DEF system
  <2> QED  BY <2>1, <2>2, JoinedEnds
<1>8. FirstBlocks(messages) = IF system = <<>> THEN <<>> ELSE <<Joined(system)>>
  BY DEF FirstBlocks, found, N
<1> HIDE DEF system
<1> QED  BY <1>7, <1>8

\* No two messages of the user without an answer between them.
Replied(messages) ==
  \A i, j \in 1..Len(messages) :
    i < j /\ messages[i].role = "user" /\ messages[j].role = "user"
    => \E k \in i..j : messages[k].role = "assistant"

\* What is said and not answered, as the prompt writes it.
Open(talk) == IF talk.pending = None THEN <<>> ELSE <<Turn(talk.pending, <<>>)>>

\* After n messages the record and the prompt have come equally far.
InPace(messages, n) ==
  LET talk == Talk(messages)[n]
  IN /\ talk.system = Contents(messages)[n]
     /\ \A i \in DOMAIN talk.turns : Ends(talk.turns[i])
     /\ Blocks(messages)[n] = (FirstBlocks(messages) \o talk.turns) \o Open(talk)
     /\ talk.pending # None =>
          \E i \in 1..n : messages[i].role = "user" /\ \A k \in i..n : messages[k].role # "assistant"

LEMMA EndedNeverWaits ==
  ASSUME NEW blocks \in Seq(Prose), \A i \in DOMAIN blocks : Ends(blocks[i])
  PROVE  ~Waits(blocks)
<1> SUFFICES ASSUME blocks # <<>> PROVE Last(Last(blocks)) # Response
  BY DEF Waits
<1>1. Len(blocks) \in DOMAIN blocks
  OBVIOUS
<1> QED  BY <1>1 DEF Ends, Last

LEMMA EndsOfConcat ==
  ASSUME NEW a \in Seq(Prose), NEW b \in Seq(Prose),
         \A i \in DOMAIN a : Ends(a[i]), \A i \in DOMAIN b : Ends(b[i])
  PROVE  \A i \in DOMAIN (a \o b) : Ends((a \o b)[i])
<1> DEFINE c == a \o b
<1>1. /\ c \in Seq(Prose) /\ Len(c) = Len(a) + Len(b)
      /\ \A i \in 1..Len(a) + Len(b) : c[i] = IF i <= Len(a) THEN a[i] ELSE b[i - Len(a)]
  BY ConcatProperties
<1> HIDE DEF c
<1>2. ASSUME NEW i \in DOMAIN c PROVE Ends(c[i])
  <2>1. i \in 1..Len(a) + Len(b) /\ Len(a) \in Nat /\ Len(b) \in Nat
    BY <1>1
  <2>2. CASE i <= Len(a)
    <3>1. i \in DOMAIN a
      BY <2>1, <2>2
    <3> QED  BY <1>1, <2>1, <2>2, <3>1
  <2>3. CASE ~(i <= Len(a))
    <3>1. i - Len(a) \in DOMAIN b
      BY <2>1, <2>3
    <3>2. c[i] = b[i - Len(a)]
      BY <1>1, <2>1, <2>3
    <3> QED  BY <3>1, <3>2
  <2> QED  BY <2>2, <2>3
<1> QED  BY <1>2 DEF c

\* A turn is its prompt and then its answer.
LEMMA TurnIs ==
  ASSUME NEW p \in Prose, NEW w \in Prose
  PROVE  Turn(p, <<>>) \in Prose /\ Turn(p, w) = Turn(p, <<>>) \o w
<1> DEFINE a == <<Instruction>> \o p \o <<Gap, Response>>
<1>1. a \in Prose
  <2>1. <<Instruction>> \in Prose /\ <<Gap, Response>> \in Prose
    BY DEF Prose, Spelled
  <2> QED  BY <2>1, ProseTyped
<1>2. Turn(p, <<>>) = a \o <<>> /\ Turn(p, w) = a \o w
  BY DEF Turn
<1> HIDE DEF a
<1>3. a \o <<>> = a
  BY <1>1, ConcatEmptySeq DEF Prose
<1> QED  BY <1>1, <1>2, <1>3

LEMMA AppendIs ==
  ASSUME NEW S, NEW s \in Seq(S), NEW e \in S
  PROVE  LET n == Len(s) + 1
         IN /\ Append(s, e) \in [1..n -> S] /\ Len(Append(s, e)) = n /\ n \in 1..n
            /\ Append(s, e)[n] = e
            /\ \A i \in 1..n : i # n => Append(s, e)[i] = s[i]
<1>1. Append(s, e) \in Seq(S) /\ Len(Append(s, e)) = Len(s) + 1 /\ Append(s, e)[Len(s) + 1] = e
      /\ \A i \in 1..Len(s) : Append(s, e)[i] = s[i]
  BY AppendProperties
<1>2. Len(s) \in Nat
  OBVIOUS
<1>3. Append(s, e) \in [1..Len(s) + 1 -> S]
  <2> DEFINE t == Append(s, e)
  <2>1. t \in Seq(S) /\ Len(t) = Len(s) + 1
    BY <1>1
  <2> HIDE DEF t
  <2>2. t \in [1..Len(t) -> S]
    BY <2>1, LenProperties
  <2> QED  BY <2>1, <2>2 DEF t
<1> QED  BY <1>1, <1>2, <1>3

\* The last block goes on.
LEMMA LastGoesOn ==
  ASSUME NEW blocks \in Seq(Prose), NEW text \in Prose, NEW w \in Prose
  PROVE  LET all == Append(blocks, text)
         IN [all EXCEPT ![Len(all)] = @ \o w] = Append(blocks, text \o w)
<1> DEFINE more == text \o w
           all == Append(blocks, text)
           longer == Append(blocks, more)
           n == Len(blocks) + 1
<1>1. more \in Prose
  BY ProseTyped
<1> HIDE DEF more
<1>2. /\ all \in [1..n -> Prose] /\ Len(all) = n /\ n \in 1..n /\ all[n] = text
      /\ \A i \in 1..n : i # n => all[i] = blocks[i]
  BY AppendIs
<1>3. /\ longer \in [1..n -> Prose] /\ longer[n] = more
      /\ \A i \in 1..n : i # n => longer[i] = blocks[i]
  BY <1>1, AppendIs
<1> HIDE DEF all, longer, n
<1>4. [all EXCEPT ![n] = @ \o w] = longer
  BY <1>2, <1>3 DEF more
<1> QED  BY <1>2, <1>4 DEF all, longer, more

\* A Python None is no text.
NoText == None \notin Prose

LEMMA SaysIs ==
  ASSUME NEW talk, NEW message, message.words # <<>>
  PROVE  /\ message.role = "system" =>
              Says(talk, message) = [talk EXCEPT !.system = Append(@, message.words)]
         /\ message.role = "user" => Says(talk, message) = UserSays(talk, message.words)
         /\ message.role = "assistant" => Says(talk, message) = AssistantSays(talk, message.words)
<1>1. Role("system") = "system" /\ Role("user") = "user" /\ Role("assistant") = "assistant"
  BY DEF Role
<1> DEFINE role == Role(message.role)
<1>2. /\ role = "system" => Says(talk, message) = [talk EXCEPT !.system = Append(@, message.words)]
      /\ role = "user" => Says(talk, message) = UserSays(talk, message.words)
      /\ role = "assistant" => Says(talk, message) = AssistantSays(talk, message.words)
  BY DEF Says
<1> QED  BY <1>1, <1>2

LEMMA InPaceFirst ==
  ASSUME NEW messages \in Seq(Message)
  PROVE  InPace(messages, 0)
<1> DEFINE first == FirstBlocks(messages)
<1>1. Talk(messages)[0] = Silent /\ Contents(messages)[0] = <<>> /\ Blocks(messages)[0] = first
  BY TalkIs, ContentsIs, BlocksIs
<1>2. first \in Seq(Prose)
  BY FirstTyped
<1> HIDE DEF first
<1>3. (first \o <<>>) \o <<>> = first
  BY <1>2, ConcatEmptySeq
<1>4. Silent.system = <<>> /\ Silent.turns = <<>> /\ Silent.pending = None /\ Open(Silent) = <<>>
  BY DEF Silent, Open
<1> QED  BY <1>1, <1>3, <1>4 DEF InPace, first

LEMMA InPaceNext ==
  ASSUME NoText, NEW messages \in Seq(Message), Accepts(messages), Replied(messages),
         NEW n \in 1..Len(messages), InPace(messages, n - 1)
  PROVE  InPace(messages, n)
<1> DEFINE N == Len(messages)
           talk == Talk(messages)[n - 1]
           next == Talk(messages)[n]
           first == FirstBlocks(messages)
           blocks == Blocks(messages)[n - 1]
           message == messages[n]
           words == message.words
<1>1. n - 1 \in 0..N /\ n \in 0..N /\ n \in Nat /\ N \in Nat
  OBVIOUS
<1>2. /\ message \in Message /\ message.role \in {"system", "user", "assistant"} /\ words # <<>>
      /\ message.role = "assistant" => Waits(blocks)
  BY DEF Accepts
<1>3. words \in Prose /\ words \in Utterance /\ Ends(words)
  <2>1. words \in Utterance
    BY <1>2 DEF Message
  <2> HIDE DEF words
  <2> QED  BY <1>2, <2>1 DEF Utterance, Ends
<1>4. next = Says(talk, message) /\ talk \in Talks
  BY <1>1, TalkIs
<1>5. Contents(messages)[n]
        = IF message.role = "system" THEN Append(Contents(messages)[n - 1], words)
          ELSE Contents(messages)[n - 1]
  BY ContentsIs
<1>6. Blocks(messages)[n] = AddMessage(blocks, message) /\ blocks \in Seq(Prose)
  BY <1>1, BlocksIs
<1>7. /\ first \in Seq(Prose)
      /\ \A i \in DOMAIN first : Ends(first[i])
  <2>1. \A i \in DOMAIN messages : messages[i].words # <<>>
    BY DEF Accepts
  <2> QED  BY <2>1, FirstTyped, FirstEnds
<1>13. next = Says(talk, message) /\ words = message.words
  BY <1>4
<1>14. /\ message.role = "system" => next = [talk EXCEPT !.system = Append(@, words)]
       /\ message.role = "user" => next = UserSays(talk, words)
       /\ message.role = "assistant" => next = AssistantSays(talk, words)
  <2> HIDE DEF talk, next, message, words
  <2> QED  BY <1>2, <1>13, SaysIs
<1>8. /\ talk.system = Contents(messages)[n - 1]
      /\ \A i \in DOMAIN talk.turns : Ends(talk.turns[i])
      /\ blocks = (first \o talk.turns) \o Open(talk)
      /\ talk.pending # None =>
           \E i \in 1..n - 1 : messages[i].role = "user"
                               /\ \A k \in i..n - 1 : messages[k].role # "assistant"
  BY DEF InPace
<1>9. talk.turns \in Seq(Prose) /\ talk.pending \in Prose \cup {None} /\ first \o talk.turns \in Seq(Prose)
      /\ talk = [system |-> talk.system, turns |-> talk.turns, pending |-> talk.pending]
  BY <1>4, <1>7, ConcatProperties DEF Talks
<1> SUFFICES /\ next.system = Contents(messages)[n]
             /\ \A i \in DOMAIN next.turns : Ends(next.turns[i])
             /\ Blocks(messages)[n] = (first \o next.turns) \o Open(next)
             /\ next.pending # None =>
                  \E i \in 1..n : messages[i].role = "user"
                                  /\ \A k \in i..n : messages[k].role # "assistant"
  BY DEF InPace
<1>10. CASE message.role = "system"
  <2>1. next = [talk EXCEPT !.system = Append(@, words)]
    BY <1>14, <1>10
  <2>2. next.system = Append(talk.system, words) /\ next.turns = talk.turns /\ next.pending = talk.pending
    <3> HIDE DEF talk, next, words
    <3> QED  BY <1>9, <2>1
  <2>3. Blocks(messages)[n] = blocks
    BY <1>6, <1>10 DEF AddMessage
  <2>4. Open(next) = Open(talk)
    BY <2>2 DEF Open
  <2>5. ASSUME next.pending # None
        PROVE  \E i \in 1..n : messages[i].role = "user"
                               /\ \A k \in i..n : messages[k].role # "assistant"
    <3>1. PICK i \in 1..n - 1 : messages[i].role = "user"
                                /\ \A k \in i..n - 1 : messages[k].role # "assistant"
      BY <1>8, <2>2, <2>5
    <3>2. i \in 1..n /\ \A k \in i..n : k \in i..n - 1 \/ k = n
      BY <1>1
    <3>3. \A k \in i..n : messages[k].role # "assistant"
      BY <1>10, <3>1, <3>2
    <3> QED  BY <3>1, <3>2, <3>3
  <2> HIDE DEF talk, next, first, blocks, words
  <2> QED  BY <1>5, <1>8, <1>10, <2>2, <2>3, <2>4, <2>5
<1>11. CASE message.role = "user"
  <2>1. talk.pending = None
    <3> SUFFICES ASSUME talk.pending # None PROVE FALSE
      OBVIOUS
    <3>1. PICK i \in 1..n - 1 : messages[i].role = "user"
                                /\ \A k \in i..n - 1 : messages[k].role # "assistant"
      BY <1>8
    <3>2. i \in 1..N /\ n \in 1..N /\ i < n /\ \A k \in i..n : k \in i..n - 1 \/ k = n
      BY <1>1
    <3>3. PICK k \in i..n : messages[k].role = "assistant"
      BY <1>11, <3>1, <3>2 DEF Replied
    <3> QED  BY <1>11, <3>1, <3>2, <3>3
  <2>2. next = [talk EXCEPT !.pending = words]
    <3>1. next = UserSays(talk, words)
      BY <1>14, <1>11
    <3> HIDE DEF talk, next, words
    <3> QED  BY <1>9, <2>1, <3>1 DEF UserSays
  <2>3. next.system = talk.system /\ next.turns = talk.turns /\ next.pending = words
    <3> HIDE DEF talk, next, words
    <3> QED  BY <1>9, <2>2
  <2>4. Blocks(messages)[n] = Append(blocks, Turn(words, <<>>))
    BY <1>6, <1>11 DEF AddMessage
  <2>5. blocks = first \o talk.turns
    <3>1. Open(talk) = <<>>
      BY <2>1 DEF Open
    <3> HIDE DEF talk, first, blocks
    <3> QED  BY <1>8, <1>9, <3>1, ConcatEmptySeq
  <2>6. Blocks(messages)[n] = blocks \o Open(next)
    <3>1. Turn(words, <<>>) \in Prose
      BY <1>3, ProseTyped
    <3>2. words # None
      BY <1>3 DEF NoText
    <3>3. Open(next) = <<Turn(words, <<>>)>>
      BY <2>3, <3>2 DEF Open
    <3> HIDE DEF words, blocks, next
    <3> QED  BY <1>6, <2>4, <3>1, <3>3, AppendIsConcat
  <2>7. \E i \in 1..n : messages[i].role = "user" /\ \A k \in i..n : messages[k].role # "assistant"
    <3>1. n \in 1..n /\ \A k \in n..n : k = n
      BY <1>1
    <3> QED  BY <1>11, <3>1
  <2> HIDE DEF talk, next, first, blocks, words
  <2> QED  BY <1>5, <1>8, <1>11, <2>3, <2>5, <2>6, <2>7
<1>12. CASE message.role = "assistant"
  <2>1. talk.pending # None
    <3> SUFFICES ASSUME talk.pending = None PROVE FALSE
      OBVIOUS
    <3>1. Open(talk) = <<>>
      BY DEF Open
    <3>2. blocks = first \o talk.turns
      <4> HIDE DEF talk, first, blocks
      <4> QED  BY <1>8, <1>9, <3>1, ConcatEmptySeq
    <3>3. \A i \in DOMAIN blocks : Ends(blocks[i])
      <4> HIDE DEF talk, first, blocks
      <4> QED  BY <1>7, <1>8, <1>9, <3>2, EndsOfConcat
    <3>4. ~Waits(blocks)
      <4> HIDE DEF blocks
      <4> QED  BY <1>6, <3>3, EndedNeverWaits
    <3> QED  BY <1>2, <1>12, <3>4
  <2> DEFINE p == talk.pending
             turn == Turn(p, words)
             turns == Append(talk.turns, turn)
  <2>2. p \in Prose /\ Turn(p, <<>>) \in Prose /\ turn = Turn(p, <<>>) \o words /\ turn \in Prose
    BY <1>3, <1>9, <2>1, TurnIs, ProseTyped
  <2>3. next = [talk EXCEPT !.turns = turns, !.pending = None]
    <3>1. next = AssistantSays(talk, words)
      BY <1>14, <1>12
    <3> HIDE DEF talk, next, words
    <3> QED  BY <1>9, <2>1, <3>1 DEF AssistantSays
  <2> HIDE DEF turns
  <2>4. next.system = talk.system /\ next.turns = turns /\ next.pending = None
    <3> HIDE DEF talk, next, words
    <3> QED  BY <1>9, <2>3
  <2>5. Ends(turn)
    <3> HIDE DEF turn, p, words
    <3> QED  BY <1>3, <2>2, EndOfConcat DEF Ends
  <2>6. \A i \in DOMAIN turns : Ends(turns[i])
    <3> HIDE DEF turn, talk
    <3>1. \A i \in DOMAIN turns : \/ i = Len(talk.turns) + 1 /\ turns[i] = turn
                                  \/ i \in DOMAIN talk.turns /\ turns[i] = talk.turns[i]
      <4>1. talk.turns \in Seq(Prose) /\ turn \in Prose
        BY <1>9, <2>2
      <4>2. /\ DOMAIN turns = 1..Len(talk.turns) + 1 /\ turns[Len(talk.turns) + 1] = turn
            /\ \A i \in 1..Len(talk.turns) + 1 : i # Len(talk.turns) + 1 => turns[i] = talk.turns[i]
        BY <4>1, AppendIs DEF turns
      <4>3. DOMAIN talk.turns = 1..Len(talk.turns) /\ Len(talk.turns) \in Nat
        BY <4>1
      <4> QED  BY <4>2, <4>3
    <3> QED  BY <1>8, <2>5, <3>1
  <2>7. blocks = Append(first \o talk.turns, Turn(p, <<>>))
    <3>1. Open(talk) = <<Turn(p, <<>>)>>
      BY <2>1 DEF Open
    <3> HIDE DEF talk, first, blocks, p
    <3> QED  BY <1>8, <1>9, <2>2, <3>1, AppendIsConcat
  <2>8. Blocks(messages)[n] = Append(first \o talk.turns, turn)
    <3>1. Blocks(messages)[n] = [blocks EXCEPT ![Len(blocks)] = @ \o words]
      BY <1>6, <1>12 DEF AddMessage
    <3> DEFINE shut == first \o talk.turns
               open == Turn(p, <<>>)
    <3>2. shut \in Seq(Prose) /\ open \in Prose /\ words \in Prose /\ blocks = Append(shut, open)
          /\ turn = open \o words
      BY <1>3, <1>9, <2>2, <2>7
    <3> HIDE DEF shut, open, blocks, words, turn
    <3>3. [blocks EXCEPT ![Len(blocks)] = @ \o words] = Append(shut, turn)
      BY <3>2, LastGoesOn
    <3> QED  BY <3>1, <3>3 DEF shut
  <2>9. Append(first \o talk.turns, turn) = first \o turns
    <3> HIDE DEF talk, first, turn
    <3>0. talk.turns \in Seq(Prose) /\ turn \in Prose
      BY <1>9, <2>2
    <3>1. turns = talk.turns \o <<turn>> /\ <<turn>> \in Seq(Prose)
      BY <3>0, AppendIsConcat DEF turns
    <3>2. Append(first \o talk.turns, turn) = (first \o talk.turns) \o <<turn>>
      BY <1>9, <2>2, AppendIsConcat
    <3> QED  BY <1>7, <1>9, <3>1, <3>2, ConcatAssociative
  <2>10. Blocks(messages)[n] = (first \o next.turns) \o Open(next)
    <3>1. Open(next) = <<>>
      BY <2>4 DEF Open
    <3>2. turns \in Seq(Prose)
      <4> HIDE DEF talk, turn
      <4> QED  BY <1>9, <2>2 DEF turns
    <3>3. first \o turns \in Seq(Prose)
      <4> HIDE DEF first
      <4> QED  BY <1>7, <3>2, ConcatProperties
    <3> HIDE DEF first, next
    <3> QED  BY <2>4, <2>8, <2>9, <3>1, <3>3, ConcatEmptySeq
  <2> HIDE DEF talk, first, next, words
  <2> QED  BY <1>5, <1>8, <1>12, <2>4, <2>6, <2>10
<1> QED  BY <1>2, <1>10, <1>11, <1>12

\* The messages before the last one, when that is an answer.
LEMMA FrontIs ==
  ASSUME NEW messages \in Seq(Message), messages # <<>>, messages[Len(messages)].role = "assistant"
  PROVE  LET front == SubSeq(messages, 1, Len(messages) - 1)
         IN ChatPrompt(front) = Joined(Blocks(messages)[Len(messages) - 1])
<1> DEFINE N == Len(messages)
           m == N - 1
           front == SubSeq(messages, 1, m)
<1>1. /\ N \in Nat \ {0} /\ m \in Nat /\ front \in Seq(Message) /\ Len(front) = m
      /\ \A n \in 1..m : front[n] = messages[n]
      /\ \A n \in 1..m : n \in 1..N
      /\ N \in 1..N /\ m \in 0..m
  <2>1. N \in Nat \ {0} /\ m \in Nat /\ m <= N /\ N = m + 1
    OBVIOUS
  <2>2. \A n \in 1..m : messages[n] \in Message
    OBVIOUS
  <2> HIDE DEF N
  <2>3. front = [n \in 1..m |-> messages[n]]
    BY <2>1
  <2>4. front \in [1..m -> Message]
    BY <2>2, <2>3
  <2> HIDE DEF m, front
  <2> QED  BY <2>1, <2>3, <2>4
<1> HIDE DEF m, front
<1>2. /\ Contents(messages)[0] = <<>>
      /\ \A n \in 1..N :
           Contents(messages)[n] = IF messages[n].role = "system"
                                   THEN Append(Contents(messages)[n - 1], messages[n].words)
                                   ELSE Contents(messages)[n - 1]
  BY ContentsIs
<1>3. /\ Contents(front)[0] = <<>>
      /\ \A n \in 1..m :
           Contents(front)[n] = IF front[n].role = "system"
                                THEN Append(Contents(front)[n - 1], front[n].words)
                                ELSE Contents(front)[n - 1]
  BY <1>1, ContentsIs
<1>4. /\ Blocks(messages)[0] = FirstBlocks(messages)
      /\ \A n \in 1..N : Blocks(messages)[n] = AddMessage(Blocks(messages)[n - 1], messages[n])
  BY BlocksIs
<1>5. /\ Blocks(front)[0] = FirstBlocks(front)
      /\ \A n \in 1..m : Blocks(front)[n] = AddMessage(Blocks(front)[n - 1], front[n])
  BY <1>1, BlocksIs
<1>6. \A n \in 0..m : Contents(front)[n] = Contents(messages)[n]
  <2> DEFINE P == {n \in 0..m : Contents(front)[n] = Contents(messages)[n]}
  <2>1. 0 \in P
    BY <1>1, <1>2, <1>3
  <2>2. ASSUME NEW n \in 1..m, n - 1 \in P PROVE n \in P
    <3>1. n \in 0..m /\ n \in 1..N /\ front[n] = messages[n]
          /\ Contents(front)[n - 1] = Contents(messages)[n - 1]
      BY <1>1, <2>2
    <3> QED  BY <1>2, <1>3, <3>1
  <2> HIDE DEF P
  <2>3. \A n \in 0..m : n \in P
    BY <1>1, <2>1, <2>2, UpTo
  <2> QED  BY <2>3 DEF P
<1>7. FirstBlocks(front) = FirstBlocks(messages)
  <2>1. Contents(messages)[N] = Contents(messages)[m]
    BY <1>1, <1>2 DEF m
  <2>2. Contents(front)[m] = Contents(messages)[N]
    BY <1>1, <1>6, <2>1
  <2> QED  BY <1>1, <2>2 DEF FirstBlocks
<1>8. \A n \in 0..m : Blocks(front)[n] = Blocks(messages)[n]
  <2> DEFINE P == {n \in 0..m : Blocks(front)[n] = Blocks(messages)[n]}
  <2>1. 0 \in P
    BY <1>1, <1>4, <1>5, <1>7
  <2>2. ASSUME NEW n \in 1..m, n - 1 \in P PROVE n \in P
    <3>1. n \in 0..m /\ n \in 1..N /\ front[n] = messages[n]
          /\ Blocks(front)[n - 1] = Blocks(messages)[n - 1]
      BY <1>1, <2>2
    <3> QED  BY <1>4, <1>5, <3>1
  <2> HIDE DEF P
  <2>3. \A n \in 0..m : n \in P
    BY <1>1, <2>1, <2>2, UpTo
  <2> QED  BY <2>3 DEF P
<1>9. ChatPrompt(front) = Joined(Blocks(messages)[m])
  BY <1>1, <1>8 DEF ChatPrompt
<1> QED  BY <1>9 DEF m, front

LEMMA LastOfAll ==
  ASSUME NEW all \in Seq(Prose), all # <<>>
  PROVE  \E shut \in Seq(Prose), open \in Prose : all = Append(shut, open)
<1> DEFINE m == Len(all) - 1
           shut == [i \in 1..m |-> all[i]]
           open == all[m + 1]
<1>1. m \in Nat /\ Len(all) = m + 1
  OBVIOUS
<1>2. shut \in Seq(Prose) /\ Len(shut) = m /\ open \in Prose
  <2>1. shut \in [1..m -> Prose]
    OBVIOUS
  <2>2. open \in Prose
    BY <1>1
  <2> HIDE DEF m, open
  <2> QED  BY <1>1, <2>1, <2>2
<1>3. \A i \in 1..m : shut[i] = all[i]
  OBVIOUS
<1> HIDE DEF shut, m
<1>4. /\ Append(shut, open) \in Seq(Prose) /\ Len(Append(shut, open)) = m + 1
      /\ \A i \in 1..m : Append(shut, open)[i] = all[i]
      /\ Append(shut, open)[m + 1] = all[m + 1]
  BY <1>2, <1>3, AppendProperties
<1>5. \A i \in 1..m + 1 : i = m + 1 \/ i \in 1..m
  BY <1>1
<1>6. Append(shut, open) = all
  <2> HIDE DEF open
  <2> QED  BY <1>1, <1>4, <1>5, SeqEqual
<1> QED  BY <1>2, <1>6

\* A conversation that is answered is rendered as its prompt and the answer.
LEMMA AnswerFollowsPrompt ==
  ASSUME NoText, NEW messages \in Seq(Message), Accepts(messages), Replied(messages),
         messages[Len(messages)].role = "assistant"
  PROVE  RenderConversation(messages)
           = ChatPrompt(SubSeq(messages, 1, Len(messages) - 1)) \o messages[Len(messages)].words
<1> DEFINE N == Len(messages)
           first == FirstBlocks(messages)
           talk == Talk(messages)[N - 1]
           next == Talk(messages)[N]
           blocks == Blocks(messages)[N - 1]
           words == messages[N].words
<1>1. messages # <<>> /\ N \in Nat \ {0} /\ N \in 1..N /\ N \in 0..N /\ N - 1 \in 0..N
      /\ messages[N] \in Message
  BY DEF Accepts
<1>2. /\ ChatPrompt(SubSeq(messages, 1, N - 1)) = Joined(blocks)
  BY <1>1, FrontIs
<1>3. \A n \in 0..N : InPace(messages, n)
  <2> DEFINE P == {n \in 0..N : InPace(messages, n)}
  <2>1. 0 \in P
    BY <1>1, InPaceFirst
  <2>2. ASSUME NEW n \in 1..N, n - 1 \in P PROVE n \in P
    BY <1>1, <2>2, InPaceNext
  <2> HIDE DEF P
  <2>3. \A n \in 0..N : n \in P
    BY <1>1, <2>1, <2>2, UpTo
  <2> QED  BY <2>3 DEF P
<1>4. /\ next = Says(talk, messages[N]) /\ talk \in Talks /\ next \in Talks
      /\ Blocks(messages)[N] = AddMessage(blocks, messages[N])
      /\ blocks \in Seq(Prose) /\ first \in Seq(Prose)
  BY <1>1, TalkIs, BlocksIs, FirstTyped
<1>5. words \in Prose /\ words # <<>> /\ Waits(blocks)
  <2>1. words \in Utterance
    BY <1>1 DEF Message
  <2>2. words # <<>> /\ Waits(blocks)
    BY <1>1 DEF Accepts
  <2> HIDE DEF words
  <2> QED  BY <2>1, <2>2 DEF Utterance
<1>6. /\ talk.turns \in Seq(Prose) /\ next.turns \in Seq(Prose)
      /\ blocks = (first \o talk.turns) \o Open(talk)
      /\ \A i \in DOMAIN talk.turns : Ends(talk.turns[i])
      /\ next.system = Contents(messages)[N]
      /\ Blocks(messages)[N] = (first \o next.turns) \o Open(next)
      /\ next.pending = None
  <2>1. InPace(messages, N - 1) /\ InPace(messages, N)
    BY <1>1, <1>3
  <2>2. ~\E i \in 1..N : messages[i].role = "user" /\ \A k \in i..N : messages[k].role # "assistant"
    <3>1. \A i \in 1..N : N \in i..N
      BY <1>1
    <3> QED  BY <3>1
  <2> HIDE DEF N
  <2> QED  BY <1>4, <2>1, <2>2 DEF InPace, Talks
<1> HIDE DEF first, talk, next, blocks, words
<1>7. Blocks(messages)[N] = first \o next.turns
  <2>1. Open(next) = <<>>
    BY <1>6 DEF Open
  <2>2. first \o next.turns \in Seq(Prose)
    BY <1>4, <1>6, ConcatProperties
  <2> QED  BY <1>6, <2>1, <2>2, ConcatEmptySeq
<1>8. next.turns # <<>>
  <2> SUFFICES ASSUME next.turns = <<>> PROVE FALSE
    OBVIOUS
  <2>1. next = AssistantSays(talk, words)
    BY <1>4, <1>5, SaysIs DEF words
  <2>2. talk.pending = None /\ talk.turns = <<>>
    <3>0. talk = [system |-> talk.system, turns |-> talk.turns, pending |-> talk.pending]
      BY <1>4 DEF Talks
    <3>1. CASE talk.pending # None
      <4>1. next.turns = Append(talk.turns, Turn(talk.pending, words))
        BY <2>1, <3>0, <3>1 DEF AssistantSays
      <4> QED  BY <1>6, <4>1
    <3>2. CASE talk.pending = None /\ talk.turns # <<>>
      <4>1. next.turns = [talk.turns EXCEPT ![Len(talk.turns)] = Joined(<<@, words>>)]
        BY <2>1, <3>0, <3>2 DEF AssistantSays
      <4>2. DOMAIN next.turns = DOMAIN talk.turns /\ 1 \in DOMAIN talk.turns
        BY <1>6, <3>2, <4>1
      <4> QED  BY <4>2
    <3> QED  BY <3>1, <3>2
  <2>3. blocks = first
    <3>1. Open(talk) = <<>>
      BY <2>2 DEF Open
    <3> QED  BY <1>4, <1>6, <2>2, <3>1, ConcatEmptySeq
  <2>4. \A i \in DOMAIN blocks : Ends(blocks[i])
    <3>1. \A i \in DOMAIN messages : messages[i].words # <<>>
      BY DEF Accepts
    <3> QED  BY <2>3, <3>1, FirstEnds DEF first
  <2> QED  BY <1>4, <1>5, <2>4, EndedNeverWaits
<1>9. RenderConversation(messages) = Joined(Blocks(messages)[N])
  <2>1. first = IF next.system = <<>> THEN <<>> ELSE <<Joined(next.system)>>
    BY <1>6 DEF first, FirstBlocks
  <2> QED  BY <1>7, <1>8, <2>1 DEF RenderConversation, next
<1>10. Joined(Blocks(messages)[N]) = Joined(blocks) \o words
  <2>1. Blocks(messages)[N] = [blocks EXCEPT ![Len(blocks)] = @ \o words]
    <3>1. messages[N].role = "assistant"
      OBVIOUS
    <3> QED  BY <1>4, <3>1 DEF AddMessage, words
  <2>2. PICK shut \in Seq(Prose), open \in Prose : blocks = Append(shut, open)
    <3>1. blocks # <<>>
      BY <1>5 DEF Waits
    <3> QED  BY <1>4, <3>1, LastOfAll
  <2>3. Blocks(messages)[N] = Append(shut, open \o words)
    BY <1>5, <2>1, <2>2, LastGoesOn
  <2> QED  BY <1>5, <2>2, <2>3, JoinedLast
<1> QED  BY <1>2, <1>9, <1>10 DEF words

\* The .json files are conversations.
Conversational == \A node \in Nodes : node.kind = "json" => node.items \in Seq(Message)

Reading == pending \in Visits

LEMMA ReadingInit == Init => Reading
BY DEF Init, Reading, Visits

LEMMA ReadingNext == Reading /\ [Next]_vars => Reading'
<1> SUFFICES ASSUME Reading, [Next]_vars PROVE Reading'
  OBVIOUS
<1> DEFINE Visit == [node : Nodes, depth : 0..MaxArchiveDepth]
<1>1. CASE Start
  <2>1. PICK corpus \in Corpora : pending' = [i \in DOMAIN corpus |-> [node |-> corpus[i], depth |-> 0]]
    BY <1>1 DEF Start
  <2>2. corpus \in Seq(Nodes) /\ 0 \in 0..MaxArchiveDepth
    BY SourcesAssumption, DepthAssumption
  <2>3. pending' \in [1..Len(corpus) -> Visit]
    BY <2>1, <2>2
  <2> HIDE DEF Visit
  <2>4. pending' \in Seq(Visit)
    BY <2>2, <2>3
  <2> QED  BY <2>4 DEF Visit, Visits, Reading
<1>2. CASE NextNode
  <2> DEFINE next == Head(pending)
  <2>1. pending # <<>> /\ pending \in Seq(Visit)
    BY <1>2 DEF NextNode, Reading, Visits
  <2>2. next \in Visit /\ Tail(pending) \in Seq(Visit)
    <3> HIDE DEF Visit
    <3> QED  BY <2>1, HeadTailProperties
  <2>3. IsContainer(next.node) => Inside(next.node, next.depth) \in Seq(Visit)
    BY <2>2, SourcesAssumption
  <2>4. pending' = IF IsContainer(next.node) THEN Inside(next.node, next.depth) \o Tail(pending)
                   ELSE Tail(pending)
    BY <1>2 DEF NextNode
  <2>5. pending' \in Seq(Visit)
    <3> HIDE DEF Visit
    <3> QED  BY <2>2, <2>3, <2>4, ConcatProperties
  <2> QED  BY <2>5 DEF Visits, Reading
<1>3. CASE Verify \/ Crash
  <2>1. pending' = <<>>
    BY <1>3 DEF Verify, Crash, Leave
  <2> QED  BY <2>1 DEF Reading, Visits
<1>4. CASE Skip \/ Document \/ PushTokens \/ PushOwners \/ Pushed \/ EndDocuments \/ Close \/ SaveManifest
  <2>1. pending' = pending
    BY <1>4 DEF Skip, Document, PushTokens, PushOwners, Pushed, EndDocuments, Close, SaveManifest, inputs
  <2> QED  BY <2>1 DEF Reading
<1>5. CASE UNCHANGED vars
  BY <1>5 DEF vars, inputs, Reading
<1> QED  BY <1>1, <1>2, <1>3, <1>4, <1>5 DEF Next

\* A conversation that /api/chat would accept up to its last answer is trained
\* on in the words the model is prompted with (render_conversation and
\* build_chat_prompt), when no message ends in the heading of an answer: both
\* strip the texts they are given, and the heading ends in a line break.
THEOREM TrainingMatchesPrompting ==
  ASSUME NoText, Conversational
  PROVE  Spec => []TrainedAsPrompted
<1>1. Reading => TrainedAsPrompted
  <2> SUFFICES ASSUME Reading, NEW p \in DOMAIN pending, pending[p].node.kind = "json"
               PROVE  LET messages == pending[p].node.items
                          n == Len(messages)
                      IN Accepts(messages) /\ messages[n].role = "assistant" /\ Replied(messages)
                         => RenderConversation(messages)
                              = ChatPrompt(SubSeq(messages, 1, n - 1)) \o messages[n].words
    BY DEF TrainedAsPrompted, Replied
  <2>1. pending[p].node \in Nodes
    <3> DEFINE Visit == [node : Nodes, depth : 0..MaxArchiveDepth]
    <3>1. pending \in Seq(Visit)
      BY DEF Reading, Visits
    <3> HIDE DEF Visit
    <3>2. pending[p] \in Visit
      BY <3>1
    <3> QED  BY <3>2 DEF Visit
  <2>2. pending[p].node.items \in Seq(Message)
    BY <2>1 DEF Conversational
  <2> QED  BY <2>2, AnswerFollowsPrompt
<1>2. Spec => []Reading
  BY ReadingInit, ReadingNext, PTL DEF Spec
<1> QED  BY <1>1, <1>2, PTL
================================================================================
