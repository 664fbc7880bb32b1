-------------------------------- MODULE Cleaning --------------------------------
(***************************************************************************)
(* The decision of DocumentCleaner (data/cleaning.py, data/quality.py) on  *)
(* one document, given what it saw before.                                 *)
(*                                                                         *)
(* A text is a sequence of words, and a word stands for the characters it  *)
(* has: lengths are counted in words. Hashes are not modelled (no two      *)
(* texts collide), except the simhash, which is made to.                   *)
(***************************************************************************)
EXTENDS Integers, FiniteSets, Sequences, SequencesExt, FiniteSetsExt

CONSTANTS
  Wide,          \* words with another spelling that NFKC maps to Narrow[word]
  Narrow,
  Space,         \* a word of white space
  Null,          \* a word with a zero byte
  Private,       \* words redact_pii finds
  Mask,          \* what it puts in their place
  Foreign,       \* words outside the configured script
  HeldOut,       \* the evaluation texts of contamination_paths
  MinLength, MaxLength,
  RepeatLength,  \* the 20 of is_malformed
  GramSize,      \* the 3 of simhash
  ShingleSize,   \* the 5 of shingles
  NumBands,      \* the 4 bands of NearDeduper
  BandBits,      \* 1..BandBits: the bits of one band
  Digest,        \* gram -> the bits of its hash that are set
  MaxDistance    \* near_dedup_max_distance

Bands == 1..NumBands
Bits == Bands \X (1..BandBits)

ASSUME BandsAssumption == NumBands \in Nat /\ BandBits \in Nat
ASSUME DistanceAssumption == MaxDistance \in Nat

-----------------------------------------------------------------------------
(* Texts.                                                                  *)

Normalized(text) == [i \in DOMAIN text |-> IF text[i] \in Wide THEN Narrow[text[i]] ELSE text[i]]

Words(text) == {i \in DOMAIN text : text[i] # Space}

Stripped(text) ==
  IF Words(text) = {} THEN <<>> ELSE SubSeq(text, Min(Words(text)), Max(Words(text)))

Redacted(text) == [i \in DOMAIN text |-> IF text[i] \in Private THEN Mask ELSE text[i]]

\* A zero byte, or one character more than half of a text that is not short.
Malformed(text) ==
  \/ Null \in ToSet(text)
  \/ /\ Len(text) >= RepeatLength
     /\ \E w \in ToSet(text) : 2 * Cardinality({i \in DOMAIN text : text[i] = w}) > Len(text)

InScript(text) ==
  /\ Words(text) # {}
  /\ 2 * Cardinality({i \in Words(text) : text[i] \notin Foreign}) >= Cardinality(Words(text))

\* text.split()
Split(text) == SelectSeq(text, LAMBDA w : w # Space)

\* Every window of n words of a text, or the words it has when they are fewer.
Grams(text, n) ==
  LET words == Split(text)
  IN IF Len(words) < n THEN <<words>>
     ELSE [i \in 1..Len(words) - n + 1 |-> SubSeq(words, i, i + n - 1)]

Shingles(text) == ToSet(Grams(text, ShingleSize)) \ {<<>>}

HeldOutShingles == UNION {Shingles(t) : t \in HeldOut}

\* The held-out fraction is at least a half here; white space does not count.
Contaminated(text) ==
  \/ \E t \in HeldOut : Split(text) = Split(t)
  \/ /\ Shingles(text) # {}
     /\ 2 * Cardinality(Shingles(text) \cap HeldOutShingles) >= Cardinality(Shingles(text))

-----------------------------------------------------------------------------
(* Near duplicates.                                                        *)

\* A bit is set when most grams set it.
Simhash(text) ==
  LET grams == Grams(text, GramSize)
  IN {b \in Bits : 2 * Cardinality({i \in DOMAIN grams : b \in Digest[grams[i]]}) > Len(grams)}

\* The bits in which two hashes differ, and how many they are.
Differing(h, k) == {b \in Bits : (b \in h) # (b \in k)}
Hamming(h, k) == Cardinality(Differing(h, k))

\* Mutant: only one band is looked up.
SameBand_FirstOnly(h, k) == \A b \in Differing(h, k) : b[1] # 1

\* The two hashes meet in the table of some band.
SameBand(h, k) == \E n \in Bands : \A b \in Differing(h, k) : b[1] # n

NearDuplicate(h, kept) == \E k \in kept : SameBand(h, k) /\ Hamming(h, k) <= MaxDistance

-----------------------------------------------------------------------------
(* One document: what becomes of it, in the order of the code's checks.    *)
(* A cleaner is [texts seen, hashes kept]; a conf is the DataConfig.       *)

Fresh == [seen |-> {}, hashes |-> {}]

Prepared(raw) == Stripped(Normalized(raw))

\* What the later filters work on.
Shown(conf, raw) == IF conf.pii THEN Redacted(Prepared(raw)) ELSE Prepared(raw)

TooShortOrLong(raw) ==
  \/ Prepared(raw) = <<>>
  \/ Len(Prepared(raw)) < MinLength
  \/ Len(Prepared(raw)) > MaxLength

Refused(conf, cleaner, raw) ==
  \/ TooShortOrLong(raw)
  \/ conf.dedup /\ Prepared(raw) \in cleaner.seen
  \/ conf.malformed /\ Malformed(Prepared(raw))
  \/ conf.pii /\ Len(Shown(conf, raw)) < MinLength
  \/ conf.script /\ ~InScript(Shown(conf, raw))

Near(conf, cleaner, raw) ==
  conf.near /\ NearDuplicate(Simhash(Shown(conf, raw)), cleaner.hashes)

Kept(conf, cleaner, raw) ==
  /\ ~Refused(conf, cleaner, raw)
  /\ ~Near(conf, cleaner, raw)
  /\ conf.contamination => ~Contaminated(Shown(conf, raw))

\* A text is remembered before the filters that may still drop it.
After(conf, cleaner, raw) ==
  [seen |-> IF conf.dedup /\ ~TooShortOrLong(raw) THEN cleaner.seen \cup {Prepared(raw)}
            ELSE cleaner.seen,
   hashes |-> IF conf.near /\ ~Refused(conf, cleaner, raw) /\ ~Near(conf, cleaner, raw)
              THEN cleaner.hashes \cup {Simhash(Shown(conf, raw))}
              ELSE cleaner.hashes]
================================================================================
