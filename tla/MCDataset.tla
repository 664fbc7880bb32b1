-------------------------------- MODULE MCDataset --------------------------------
(* Small sources for Dataset. *)
EXTENDS Dataset

\* Four bits in two bands. Hashes of a and b are one bit apart, in the second
\* band; e is far from both.
MCDigest ==
  [g \in {<<w>> : w \in {"a", "b", "c", "e", "f", "M", "0", "i", "r", "n", "s", "u", "v", "I", "h", "p", "W"}} |->
     CASE g = <<"a">> -> {}
       [] g = <<"b">> -> {<<2, 1>>}
       [] g = <<"c">> -> {<<1, 1>>}
       [] g = <<"M">> -> {<<1, 1>>, <<1, 2>>}
       [] g = <<"e">> -> {<<1, 1>>, <<2, 1>>, <<2, 2>>}
       [] OTHER -> Bits]

MCHeldOut == {<<"b", "e">>}

MCNarrow == [w \in {"W"} |-> "a"]

Node(kind, items) == [kind |-> kind, items |-> items, hidden |-> FALSE]
Hidden(kind, items) == [kind |-> kind, items |-> items, hidden |-> TRUE]

Paragraphs4 ==
  Node("paragraphs",
       << <<"a">>, <<"a", "_">>, <<>>, <<"_", "W", "a">>, <<>>, <<"b", "b">>, <<>>, <<"e", "e", "e">>,
          <<>>, <<"0", "c">> >>)

TreeCorpus ==
  <<Node("directory",
      <<Hidden("whole", <<"c">>), Node("binary", <<>>), Paragraphs4,
        Node("zip", <<Node("compressed", <<Node("whole", <<"e", "p">>)>>),
                      Node("tar", <<Node("zip", <<Node("whole", <<"c">>)>>)>>),
                      Node("whole", Broken)>>)>>)>>

RecordCorpus ==
  <<Node("jsonl",
      <<[text |-> <<"p", "p">>], Broken, [label |-> <<"a">>], [content |-> <<"c", "c", "f", "f">>],
        [text |-> <<"e">>], [text |-> <<"a", "a", "a">>], [content |-> <<"h", "e">>], [content |-> <<"b", "e", "c">>]>>),
    Node("csv", <<[label |-> <<"b", "b", "c">>], [label |-> <<>>]>>),
    Node("notebook", <<<<"b">>, <<>>, <<"c">>>>)>>

TurnCorpus ==
  <<Node("csv",
      <<[prompt |-> <<"a">>, response |-> <<"e">>],
        [prompt |-> <<"a">>, response |-> <<"e">>, input |-> <<"b">>, system |-> <<"c">>],
        [prompt |-> <<"a">>, chosen |-> <<[role |-> "human", words |-> <<"e">>],
                                          [role |-> "gpt", words |-> <<"e">>],
                                          [role |-> "gpt", words |-> <<"e">>]>>],
        [prompt |-> <<"b">>, response |-> <<"c">>, chosen |-> <<[role |-> "gpt", words |-> <<"e">>]>>],
        [prompt |-> <<"p">>, chosen |-> <<>>]>>)>>

\* Every conversation of at most MaxMessages messages.
MaxMessages == 4
Said == <<"s", "u", "v", "a">>
Conversations ==
  {<<Node("json", [i \in DOMAIN roles |-> [role |-> roles[i], words |-> <<Said[i], Said[i]>>]])>> :
     roles \in UNION {[1..n -> {"system", "user", "assistant"}] : n \in 2..MaxMessages}}

MCCorpora == {TreeCorpus, RecordCorpus, TurnCorpus} \cup Conversations

\* What those sources hold.
Opened(nodes) ==
  nodes \cup UNION {ToSet(n.items) : n \in {m \in nodes : IsContainer(m) /\ m.items # Broken}}

MCNodes == Opened(Opened(Opened(Opened(UNION {ToSet(corpus) : corpus \in MCCorpora}))))

MCSpoken ==
  {"a", "b", "c", "e", "f", "h", "p", "s", "u", "v", "W", "M", "0", "_", "i", "I", "n", "r"}

Conf(pack, val, strict, mixture, dtype) ==
  [pack |-> pack, val |-> val, near |-> strict, pii |-> strict, malformed |-> strict,
   script |-> strict, dedup |-> strict, contamination |-> strict, mixture |-> mixture,
   dtype |-> dtype]

AutoConfs ==
  {Conf(TRUE, TRUE, TRUE, FALSE, "auto"), Conf(FALSE, FALSE, FALSE, FALSE, "auto"),
   Conf(TRUE, FALSE, TRUE, TRUE, "auto")}

WideConfs == {Conf(FALSE, FALSE, FALSE, FALSE, "uint32")}
================================================================================
