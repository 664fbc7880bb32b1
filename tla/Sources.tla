--------------------------------- MODULE Sources ---------------------------------
(***************************************************************************)
(* Files, archives and directories as streams of documents                 *)
(* (data/sources.py). A node of the tree of sources is a record: its kind, *)
(* which the code tells by the file's name, and its items.                 *)
(***************************************************************************)
EXTENDS Records

CONSTANTS
  MaxArchiveDepth,
  Broken            \* a line or member that cannot be read

ASSUME DepthAssumption == MaxArchiveDepth \in Nat

\* _is_hidden, and members no reader can open
Listed(nodes) == SelectSeq(nodes, LAMBDA node : ~node.hidden /\ node.items # Broken)

\* _paragraphs: blank lines end a paragraph.
Paragraphs(lines) ==
  LET read == FoldLeft(LAMBDA acc, line :
                IF line # <<>> THEN [acc EXCEPT !.buffer = @ \o line]
                ELSE IF acc.buffer = <<>> THEN acc
                ELSE [done |-> Append(acc.done, acc.buffer), buffer |-> <<>>],
                [done |-> <<>>, buffer |-> <<>>], lines)
  IN IF read.buffer = <<>> THEN read.done ELSE Append(read.done, read.buffer)

\* _emit for each record; a broken line of .jsonl is skipped, and a record of
\* no known layout.
Emitted(records) ==
  FoldLeft(LAMBDA docs, record :
             IF record = Broken \/ DocumentFromRecord(record) \in {None, <<>>} THEN docs
             ELSE Append(docs, DocumentFromRecord(record)),
           <<>>, records)

\* _json: a file that is one list of messages is one conversation.
JsonRecords(items) ==
  IF items # <<>> /\ \A i \in DOMAIN items : "role" \in DOMAIN items[i]
  THEN <<[messages |-> items]>>
  ELSE items

\* _delimited: a table of one column is text whatever the column is called; the
\* rows of a table without a known column give nothing.
Rows(records) ==
  Emitted([i \in DOMAIN records |->
    IF records[i] # Broken /\ Cardinality(DOMAIN records[i]) = 1
    THEN [text |-> records[i][CHOOSE field \in DOMAIN records[i] : TRUE]]
    ELSE records[i]])

\* _notebook: the cells that say something are one document.
Notebook(cells) ==
  LET said == SelectSeq(cells, LAMBDA cell : cell # <<>>)
  IN IF said = <<>> THEN <<>> ELSE <<Joined(said)>>

IsContainer(node) == node.kind \in {"directory", "zip", "tar", "compressed"}

\* What a container gives way to, with the depth of archives around it.
Inside(node, depth) ==
  LET deeper == IF node.kind \in {"zip", "tar"} THEN depth + 1 ELSE depth
      members == IF node.items = Broken THEN <<>>
                 ELSE IF node.kind = "compressed" THEN node.items ELSE Listed(node.items)
  IN IF deeper > MaxArchiveDepth THEN <<>>
     ELSE [i \in DOMAIN members |-> [node |-> members[i], depth |-> deeper]]

\* The readers of iter_stream_documents, by suffix.
Documents(node) ==
  IF node.items = Broken THEN <<>>
  ELSE CASE node.kind = "paragraphs" -> Paragraphs(node.items)
         [] node.kind \in {"jsonl", "parquet"} -> Emitted(node.items)
         [] node.kind = "csv" -> Rows(node.items)
         [] node.kind = "notebook" -> Notebook(node.items)
         [] node.kind = "json" -> Emitted(JsonRecords(node.items))
         [] node.kind = "whole" -> IF node.items = <<>> THEN <<>> ELSE <<node.items>>
         [] OTHER -> <<>>
================================================================================
