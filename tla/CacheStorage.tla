------------------------------ MODULE CacheStorage ------------------------------
(***************************************************************************)
(* The three key/value caches of models/kv_cache.py under a forward pass   *)
(* (models/transformer.py): one tensor of the whole window, one that grows *)
(* with the text, and pages allocated as tokens arrive.                    *)
(*                                                                         *)
(* Keys and values are stored by the same statements with the same         *)
(* indices: the model has one of them, and names an entry by its token.    *)
(* Sequences count from 1 where the code's positions count from 0.         *)
(***************************************************************************)
EXTENDS Integers, Sequences, SequencesExt, FiniteSetsExt

CONSTANTS
  Vocabulary,
  Zero,        \* what torch.zeros leaves at a position; no token
  NumLayers,   \* config.num_layers
  Window,      \* config.max_sequence_length
  MaxChunk,    \* bound on the tokens of one pass
  FirstSize,   \* the 16 of DynamicKVCache._grow
  PageSize

ASSUME SizesAssumption ==
  /\ NumLayers \in Nat \ {0}
  /\ Window \in Nat \ {0}
  /\ FirstSize \in Nat
  /\ PageSize \in Nat \ {0}
  /\ MaxChunk \in Nat
ASSUME ZeroAssumption == Zero \notin Vocabulary

VARIABLES
  kind,     \* of build_kv_cache
  keys,     \* keys of a static or dynamic cache: layer -> positions
  pages,    \* pages_k of a paged one: each layer -> offsets
  pos,      \* tokens of the passes that were completed
  chunk,    \* tokens of the pass under way
  layer,    \* the next block of that pass
  answer    \* what the last update() returned

storageVars == <<kind, keys, pages, pos, chunk, layer, answer>>

Layers == 1..NumLayers

Zeros(n) == [i \in 1..n |-> Zero]

CacheInit ==
  /\ kind \in {"static", "dynamic", "paged"}
  /\ keys = [l \in Layers |-> IF kind = "static" THEN Zeros(Window) ELSE <<>>]
  /\ pages = <<>>
  /\ pos = 0
  /\ chunk = <<>>
  /\ layer = 0
  /\ answer = <<>>

-----------------------------------------------------------------------------
(* Contiguous tensors.                                                     *)

Size == Len(keys[1])

\* _grow: at least double, never beyond the window.
Grown(needed) ==
  IF kind = "dynamic" /\ needed > Size
  THEN Min({Window, Max({needed, FirstSize, 2 * Size})})
  ELSE Size

UpdateKeys(l) ==
  LET end == pos + Len(chunk)
  IN /\ keys' = [m \in Layers |->
                   [i \in 1..Grown(end) |->
                      IF m = l /\ i \in pos + 1..end THEN chunk[i - pos]
                      ELSE IF i <= Size THEN keys[m][i] ELSE Zero]]
     /\ answer' = SubSeq(keys'[l], 1, end)
     /\ UNCHANGED pages

-----------------------------------------------------------------------------
(* Pages.                                                                  *)

\* Mutant: a piece is cut at the page size, not at the end of its page.
Take_IgnoresOffset(from, to) == Min({to - from, PageSize})

Take(from, to) == Min({to - from, PageSize - (from % PageSize)})

\* Where the rounds of the loops of _write and _gather over positions from..to - 1
\* begin: each stays in one page. There are at most as many as positions; those
\* left over begin at `to` and take nothing.
Rounds(from, to) ==
  LET at[n \in 0..to - from] == IF n = 0 THEN from
                                ELSE LET p == at[n - 1] IN p + Take(p, to)
  IN at

\* _ensure_pages: enough pages for the positions, rounded up.
PagesFor(needed) == (needed + PageSize - 1) \div PageSize

Ensured(needed) ==
  pages \o [n \in 1..Max({0, PagesFor(needed) - Len(pages)}) |->
              [l \in Layers |-> Zeros(PageSize)]]

\* A round of _write at position p: the end of the chunk it has room for.
WriteRound(into, l, p) ==
  LET offset == p % PageSize
      taken  == offset + 1..offset + Take(p, pos + Len(chunk))
  IN [into EXCEPT ![p \div PageSize + 1][l] =
        [o \in 1..PageSize |-> IF o \in taken THEN chunk[p - pos + o - offset] ELSE @[o]]]

Write(into, l) ==
  LET end == pos + Len(chunk)
      after[n \in 0..Len(chunk)] ==
        IF n = 0 THEN into
        ELSE LET p == Rounds(pos, end)[n - 1]
             IN IF p = end THEN after[n - 1] ELSE WriteRound(after[n - 1], l, p)
  IN after[Len(chunk)]

\* A round of _gather at position p.
Piece(from, l, p, end) ==
  LET offset == p % PageSize
  IN SubSeq(from[p \div PageSize + 1][l], offset + 1, offset + Take(p, end))

Gather(from, l, end) ==
  LET gathered[n \in 0..end] ==
        IF n = 0 THEN <<>>
        ELSE LET p == Rounds(0, end)[n - 1]
             IN IF p = end THEN gathered[n - 1] ELSE gathered[n - 1] \o Piece(from, l, p, end)
  IN gathered[end]

UpdatePages(l) ==
  LET end == pos + Len(chunk)
  IN /\ pages' = Write(Ensured(end), l)
     /\ answer' = Gather(pages', l, end)
     /\ UNCHANGED keys

-----------------------------------------------------------------------------
(* A forward pass, layer by layer, and its caller.                         *)

\* forward() raises before it touches the cache when the window is too small.
Begin ==
  /\ chunk = <<>>
  /\ \E n \in 1..MaxChunk :
       /\ pos + n <= Window
       /\ chunk' \in [1..n -> Vocabulary]
  /\ UNCHANGED <<kind, keys, pages, pos, layer, answer>>

\* The attention of the next block calls update().
Update ==
  /\ chunk # <<>>
  /\ layer < NumLayers
  /\ IF kind = "paged" THEN UpdatePages(layer + 1) ELSE UpdateKeys(layer + 1)
  /\ layer' = layer + 1
  /\ UNCHANGED <<kind, pos, chunk>>

\* The pass returned, and its caller calls advance().
Advance ==
  /\ chunk # <<>>
  /\ layer = NumLayers
  /\ pos' = pos + Len(chunk)
  /\ chunk' = <<>>
  /\ layer' = 0
  /\ UNCHANGED <<kind, keys, pages, answer>>

\* The pass raises between two blocks (no memory): a batcher tries the same
\* cache again in its next step, with some layers written and others not.
Abort ==
  /\ chunk # <<>>
  /\ chunk' = <<>>
  /\ layer' = 0
  /\ UNCHANGED <<kind, keys, pages, pos, answer>>

\* Tensors stay as they are, pages are dropped.
Reset ==
  /\ chunk = <<>>
  /\ pos' = 0
  /\ pages' = <<>>
  /\ UNCHANGED <<kind, keys, chunk, layer, answer>>

CacheNext == Begin \/ Update \/ Advance \/ Abort \/ Reset

CacheSpec == CacheInit /\ [][CacheNext]_storageVars

-----------------------------------------------------------------------------
(* Properties.                                                             *)

Entries == Vocabulary \cup {Zero}

\* Tensors have the shape the code gives them: a dynamic one never exceeds the
\* window, and pages never exceed it by a whole page.
StorageTypeOK ==
  /\ kind \in {"static", "dynamic", "paged"}
  /\ \A l \in Layers : keys[l] \in [1..Size -> Entries]
  /\ Size \in (IF kind = "static" THEN {Window}
               ELSE IF kind = "dynamic" THEN 0..Window ELSE {0})
  /\ Len(pages) \in 0..(IF kind = "paged" THEN PagesFor(Window) ELSE 0)
  /\ \A n \in DOMAIN pages : pages[n] \in [Layers -> [1..PageSize -> Entries]]
  /\ pos \in 0..Window
  /\ Len(chunk) \in 0..MaxChunk /\ ToSet(chunk) \subseteq Vocabulary
  /\ layer \in 0..NumLayers
  /\ Len(answer) \in 0..Window /\ ToSet(answer) \subseteq Entries

\* The first pos entries of the first layer.
Text == IF kind = "paged" THEN Gather(pages, 1, pos) ELSE SubSeq(keys[1], 1, pos)

\* Whatever its kind, the cache answers as KVCache: what an aborted pass or an
\* earlier generation left in a tensor is never seen, growth keeps what was
\* stored, and pages are read in the order they were written.
Cache == INSTANCE KVCache WITH text <- Text

ImplementsKVCache == Cache!Spec
================================================================================
