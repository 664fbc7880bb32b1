--------------------------------- MODULE Dataset ---------------------------------
(***************************************************************************)
(* prepare_dataset (data/pipeline.py): the documents of the sources, clean *)
(* ones only, become two streams of tokens, cut into windows, written to   *)
(* shards and described by a manifest; and the windows a TokenShardDataset *)
(* (data/shards.py) reads back. A preparation may die between two file     *)
(* operations, and the next one writes into the same directory.            *)
(*                                                                         *)
(* The tokenizer gives one token per word. A file keeps its tokens and     *)
(* their width; the SHA-256 of a file is its content.                      *)
(***************************************************************************)
EXTENDS Cleaning, Sources

CONSTANTS
  Confs,           \* the DataConfigs a preparation may be given
  Corpora,         \* the raw_paths: sequences of nodes
  SequenceLength,
  ShardSize,       \* shard_size_tokens
  Vocab16,         \* BOOLEAN: the vocabulary fits 16 bits
  Eos, ZeroToken,
  Nodes,           \* the nodes there may be under a path
  Spoken,          \* the words there may be in a document
  MaxPreparations  \* bound

ASSUME LengthsAssumption ==
  /\ SequenceLength \in Nat \ {0, 1}
  /\ ShardSize \in Nat /\ ShardSize >= SequenceLength

\* Opening a container gives nodes, reading a file gives texts.
ASSUME SourcesAssumption ==
  /\ \A corpus \in Corpora : corpus \in Seq(Nodes)
  /\ \A node \in Nodes :
       IF IsContainer(node)
       THEN \A depth \in 0..MaxArchiveDepth :
              Inside(node, depth) \in Seq([node : Nodes, depth : 0..MaxArchiveDepth])
       ELSE Documents(node) \in Seq(Seq(Spoken))

ASSUME SpellingAssumption == Narrow \in [Wide -> Spoken] /\ Mask \in Spoken

Splits == {"train", "val"}
Dirs == {"train", "val", "train_docs", "val_docs"}
DocsOf(split) == IF split = "train" THEN "train_docs" ELSE "val_docs"
Window == SequenceLength + 1

\* s[a - 1 : b]
Slice(s, a, b) == SubSeq(s, a, Min({b, Len(s)}))

VARIABLES
  pc,        \* where prepare_dataset is; "idle" outside
  conf,      \* its DataConfig
  pending,   \* nodes still to be read, the next one first
  queue,     \* documents of the file under way
  cleaner,
  kept,      \* of each document that was kept: its split and text
  buffers,   \* tokens of a split that fill no window yet
  owners,    \* the document of each of them
  writers,   \* of each directory: tokens of the shard under way, records
  files,     \* of each directory: its shards, by index
  manifest,  \* manifest.json, or None
  count      \* preparations begun

inputs == <<conf, pending, queue, cleaner>>
disk == <<files, manifest>>
vars == <<pc, inputs, kept, buffers, owners, writers, disk, count>>

Closed == [tokens |-> <<>>, records |-> <<>>]

Init ==
  /\ pc = "idle"
  /\ conf \in Confs
  /\ pending = <<>> /\ queue = <<>> /\ cleaner = Fresh
  /\ kept = <<>>
  /\ buffers = [s \in Splits |-> <<>>] /\ owners = [s \in Splits |-> <<>>]
  /\ writers = [d \in Dirs |-> Closed]
  /\ files = [d \in Dirs |-> <<>>] /\ manifest = None
  /\ count = 0

-----------------------------------------------------------------------------
(* Shards.                                                                 *)

\* resolve_token_dtype: bits of a token.
Width(requested) ==
  IF requested = "auto" THEN IF Vocab16 THEN 16 ELSE 32
  ELSE IF requested = "uint16" THEN 16 ELSE 32

WidthOf(dir) == IF dir \in Splits THEN Width(conf.dtype) ELSE 32

\* _flush of each of the pieces: the file of its index is replaced.
Flush(dir, pieces, rest) ==
  LET n == Len(writers[dir].records)
      shards == [i \in DOMAIN pieces |-> [tokens |-> pieces[i], width |-> WidthOf(dir)]]
  IN /\ writers' = [writers EXCEPT ![dir] = [tokens |-> rest, records |-> @.records \o shards]]
     /\ files' = [files EXCEPT ![dir] =
          [i \in 1..Max({Len(@), n + Len(pieces)}) |->
             IF i \in n + 1..n + Len(pieces) THEN shards[i - n] ELSE @[i]]]

\* add_tokens: what fills a shard is flushed.
AddTokens(dir, tokens) ==
  LET all == writers[dir].tokens \o tokens
      full == Len(all) \div ShardSize
  IN Flush(dir,
           [i \in 1..full |-> SubSeq(all, (i - 1) * ShardSize + 1, i * ShardSize)],
           SubSeq(all, full * ShardSize + 1, Len(all)))

\* finalize: the last shard may be a partial one.
Finalize(dir) ==
  IF writers[dir].tokens = <<>> THEN UNCHANGED <<writers, files>>
  ELSE Flush(dir, <<writers[dir].tokens>>, <<>>)

-----------------------------------------------------------------------------
(* prepare_dataset.                                                        *)

\* The process ends, or the call: its variables are gone.
Leave ==
  /\ conf' = conf /\ pending' = <<>> /\ queue' = <<>> /\ cleaner' = Fresh /\ kept' = <<>>
  /\ buffers' = [s \in Splits |-> <<>>] /\ owners' = [s \in Splits |-> <<>>]
  /\ writers' = [d \in Dirs |-> Closed]
  /\ UNCHANGED <<disk, count>>

Start ==
  /\ pc = "idle"
  /\ count < MaxPreparations
  /\ count' = count + 1
  /\ conf' \in {c \in Confs : c.dtype = "uint16" => Vocab16}
  /\ \E corpus \in Corpora :
       pending' = [i \in DOMAIN corpus |-> [node |-> corpus[i], depth |-> 0]]
  /\ queue' = <<>> /\ cleaner' = Fresh /\ kept' = <<>>
  /\ buffers' = [s \in Splits |-> <<>>] /\ owners' = [s \in Splits |-> <<>>]
  /\ writers' = [d \in Dirs |-> Closed]
  /\ pc' = "documents"
  /\ UNCHANGED disk

\* iter_documents goes on to the next node.
NextNode ==
  /\ pc = "documents" /\ queue = <<>> /\ pending # <<>>
  /\ LET next == Head(pending)
     IN IF IsContainer(next.node)
        THEN /\ pending' = Inside(next.node, next.depth) \o Tail(pending)
             /\ UNCHANGED queue
        ELSE /\ pending' = Tail(pending)
             /\ queue' = Documents(next.node)
  /\ UNCHANGED <<pc, conf, cleaner, kept, buffers, owners, writers, disk, count>>

Encoded(text) == text \o <<Eos>>

\* The documents of a weighted mixture are drawn: this one is not.
Skip ==
  /\ pc = "documents" /\ queue # <<>> /\ conf.mixture
  /\ queue' = Tail(queue)
  /\ UNCHANGED <<pc, conf, pending, cleaner, kept, buffers, owners, writers, disk, count>>

\* One round of the loop, up to the call of push().
Document ==
  /\ pc = "documents" /\ queue # <<>>
  /\ queue' = Tail(queue)
  /\ cleaner' = After(conf, cleaner, Head(queue))
  /\ IF Kept(conf, cleaner, Head(queue))
     THEN \E split \in (IF conf.val THEN Splits ELSE {"train"}) :
            LET ids == Encoded(Shown(conf, Head(queue)))
            IN /\ kept' = Append(kept, [split |-> split, text |-> Shown(conf, Head(queue))])
               /\ buffers' = [buffers EXCEPT ![split] = @ \o ids]
               /\ owners' = IF ~conf.pack THEN owners
                            ELSE [owners EXCEPT ![split] =
                                    @ \o [i \in DOMAIN ids |-> Len(kept) + 1]]
               /\ pc' = "push"
     ELSE UNCHANGED <<kept, buffers, owners, pc>>
  /\ UNCHANGED <<conf, pending, writers, disk, count>>

FullWindow(split) == Len(buffers[split]) >= Window

\* push(): a window of tokens, and then a window of owners, go to the writers.
PushTokens ==
  /\ pc = "push"
  /\ \E split \in Splits :
       /\ FullWindow(split)
       /\ AddTokens(split, SubSeq(buffers[split], 1, Window))
       /\ buffers' = [buffers EXCEPT ![split] = SubSeq(@, Window + 1, Len(@))]
       /\ pc' = IF conf.pack THEN DocsOf(split) ELSE "push"
  /\ UNCHANGED <<inputs, kept, owners, manifest, count>>

\* Mutant: the owners that were written stay in their buffer.
PushOwners_KeepsThem ==
  /\ \E split \in Splits :
       /\ pc = DocsOf(split)
       /\ AddTokens(DocsOf(split), Slice(owners[split], 1, Window))
  /\ pc' = "push"
  /\ UNCHANGED <<inputs, kept, buffers, owners, manifest, count>>

PushOwners ==
  /\ \E split \in Splits :
       /\ pc = DocsOf(split)
       /\ AddTokens(DocsOf(split), Slice(owners[split], 1, Window))
       /\ owners' = [owners EXCEPT ![split] = SubSeq(@, Window + 1, Len(@))]
  /\ pc' = "push"
  /\ UNCHANGED <<inputs, kept, buffers, manifest, count>>

Pushed ==
  /\ pc = "push"
  /\ ~\E split \in Splits : FullWindow(split)
  /\ pc' = "documents"
  /\ UNCHANGED <<inputs, kept, buffers, owners, writers, disk, count>>

\* The writers are closed in this order.
Closing == <<"close train_docs", "close val_docs", "close train", "close val">>
Target == [p \in ToSet(Closing) |->
             CASE p = "close train_docs" -> "train_docs" [] p = "close val_docs" -> "val_docs"
               [] p = "close train" -> "train" [] OTHER -> "val"]

EndDocuments ==
  /\ pc = "documents" /\ queue = <<>> /\ pending = <<>>
  /\ pc' = "close train_docs"
  /\ UNCHANGED <<inputs, kept, buffers, owners, writers, disk, count>>

Close ==
  /\ pc \in ToSet(Closing)
  /\ Finalize(Target[pc])
  /\ pc' = LET n == CHOOSE i \in DOMAIN Closing : Closing[i] = pc
           IN IF n < Len(Closing) THEN Closing[n + 1] ELSE "manifest"
  /\ UNCHANGED <<inputs, kept, buffers, owners, manifest, count>>

\* manifest.save replaces the file in one step; what it says of the documents
\* is their number, the model keeps them and the configuration.
SaveManifest ==
  /\ pc = "manifest"
  /\ manifest' = [splits |-> [s \in {"train"} \cup {t \in {"val"} : writers[t].records # <<>>} |->
                                writers[s].records],
                  kept |-> kept, pack |-> conf.pack]
  /\ pc' = "verify"
  /\ UNCHANGED <<inputs, kept, buffers, owners, writers, files, count>>

\* DatasetManifest.validate: the files are there, the counts agree by
\* construction of the records, and the checksums when asked for.
Valid(checksums) ==
  /\ manifest # None
  /\ \A s \in DOMAIN manifest.splits :
       /\ Len(manifest.splits[s]) <= Len(files[s])
       /\ checksums => \A i \in DOMAIN manifest.splits[s] : files[s][i] = manifest.splits[s][i]

\* prepare_dataset returns, or raises what validate() raises.
Verify ==
  /\ pc = "verify"
  /\ pc' = IF Valid(TRUE) THEN "idle" ELSE "refused"
  /\ Leave

Crash ==
  /\ pc \notin {"idle", "refused"}
  /\ pc' = "idle"
  /\ Leave

Next == Start \/ NextNode \/ Skip \/ Document \/ PushTokens \/ PushOwners \/ Pushed
        \/ EndDocuments \/ Close \/ SaveManifest \/ Verify \/ Crash

Spec == Init /\ [][Next]_vars

-----------------------------------------------------------------------------
(* TokenShardDataset over what is on disk.                                 *)

\* A memory map of tokens of one width over a file of another.
Mapped(shard, width) ==
  IF shard.width = width THEN shard.tokens
  ELSE FlattenSeq([i \in DOMAIN shard.tokens |-> <<shard.tokens[i], ZeroToken>>])

\* Mutant: the last token of a shard may begin a window.
WindowsOf_OneMore(n) == 1..((n + SequenceLength - 1) \div SequenceLength)

\* The windows of a shard of n tokens.
WindowsOf(n) == 1..((n - 1) \div SequenceLength)

\* self._index, shard by shard.
Index(split) ==
  {w \in (DOMAIN manifest.splits[split]) \X (1..ShardSize) :
     w[2] \in WindowsOf(Len(manifest.splits[split][w[1]].tokens))}

\* __getitem__: where a window begins, its tokens, and its document ids.
Start0(w) == (w[2] - 1) * SequenceLength

Item(split, w) ==
  Slice(Mapped(files[split][w[1]], Width("auto")), Start0(w) + 1, Start0(w) + SequenceLength + 1)

HasOwners(split, w) == w[1] <= Len(files[DocsOf(split)])

ItemOwners(split, w) ==
  Slice(files[DocsOf(split)][w[1]].tokens, Start0(w) + 1, Start0(w) + SequenceLength)

-----------------------------------------------------------------------------
(* Properties.                                                             *)

\* Document n: its tokens and the separator, each with the number.
Marked(doc, n) ==
  [i \in 1..Len(doc.text) + 1 |-> [token |-> Encoded(doc.text)[i], doc |-> n]]

Joins(stream, doc, n, split) == IF doc.split = split THEN stream \o Marked(doc, n) ELSE stream

\* The stream of a split: its documents, each token with the one it is of.
Stream(docs, split) ==
  LET upTo[n \in 0..Len(docs)] ==
        IF n = 0 THEN <<>> ELSE Joins(upTo[n - 1], docs[n], n, split)
  IN upTo[Len(docs)]

Tokens(stream) == [i \in DOMAIN stream |-> stream[i].token]
Owners(stream) == [i \in DOMAIN stream |-> stream[i].doc]

\* The tokens of the first n shards.
Total(split, n) ==
  IF n = 0 THEN 0 ELSE (n - 1) * ShardSize + Len(manifest.splits[split][n].tokens)

\* Where a window begins in the stream.
First(split, w) == Total(split, w[1] - 1) + Start0(w) + 1

\* When the checksums agree, at any moment of any later preparation, each item
\* of the dataset is a piece of the text of one preparation, and the shards are
\* that text up to a remainder that fills no window, all full but the last.
IntactIsText ==
  Valid(TRUE) =>
    \A split \in DOMAIN manifest.splits :
      LET text == Tokens(Stream(manifest.kept, split))
          n == Len(manifest.splits[split])
      IN /\ Len(text) - Total(split, n) \in 0..Window - 1
         /\ \A i \in 1..n - 1 : Len(manifest.splits[split][i].tokens) = ShardSize
         /\ \A w \in Index(split) :
              LET first == First(split, w)
              IN /\ first + SequenceLength <= Len(text)
                 /\ Item(split, w) = SubSeq(text, first, first + SequenceLength)

\* After a preparation that packs documents has returned, each token is given
\* with the document it comes from: the owners are cut, flushed and closed in
\* step with the tokens.
OwnersMatchTokens ==
  pc = "verify" /\ manifest.pack =>
    \A split \in DOMAIN manifest.splits : \A w \in Index(split) :
      LET first == First(split, w)
      IN HasOwners(split, w)
         /\ ItemOwners(split, w)
              = SubSeq(Owners(Stream(kept, split)), first, first + SequenceLength - 1)

\* Documents that are kept together are farther apart than the configured
\* distance, although only hashes that share a band are compared: a distance
\* below the number of bands leaves one band without a difference.
KeptFarApart ==
  conf.near /\ MaxDistance < NumBands =>
    \A i, j \in DOMAIN kept :
      i # j => Hamming(Simhash(kept[i].text), Simhash(kept[j].text)) > MaxDistance

\* A conversation that /api/chat would accept up to its last answer, without
\* two user messages that no answer separates, is trained on in the very words the model is
\* prompted with.
TrainedAsPrompted ==
  \A p \in DOMAIN pending :
    LET node == pending[p].node
    IN node.kind = "json" =>
         LET messages == node.items
             n == Len(messages)
         IN /\ Accepts(messages) /\ messages[n].role = "assistant"
            /\ \A i, j \in 1..n :
                 i < j /\ messages[i].role = "user" /\ messages[j].role = "user"
                 => \E k \in i..j : messages[k].role = "assistant"
            => RenderConversation(messages)
                 = ChatPrompt(SubSeq(messages, 1, n - 1)) \o messages[n].words
================================================================================
