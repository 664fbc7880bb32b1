--------------------------------- MODULE Records ---------------------------------
(***************************************************************************)
(* What one structured record becomes (data/records.py), and the prompt    *)
(* /api/chat builds from the messages of a client                          *)
(* (inference/chat_template.py). A text is a sequence of words; the blank  *)
(* line and the headings are words of their own.                           *)
(***************************************************************************)
EXTENDS Integers, Sequences, SequencesExt

CONSTANTS Gap, Instruction, Input, Response, None

ASSUME HeadingsAssumption == Cardinality({Gap, Instruction, Input, Response}) = 4

\* "\n\n".join(parts)
Joined(parts) ==
  LET upTo[n \in 0..Len(parts)] ==
        IF n = 0 THEN <<>>
        ELSE IF n = 1 THEN parts[n] ELSE upTo[n - 1] \o <<Gap>> \o parts[n]
  IN upTo[Len(parts)]

\* _role
Role(name) ==
  CASE name \in {"user", "human", "prompter"} -> "user"
    [] name \in {"assistant", "gpt", "bot"} -> "assistant"
    [] name \in {"system", "developer"} -> "system"
    [] OTHER -> ""

Turn(prompt, answer) == <<Instruction>> \o prompt \o <<Gap, Response>> \o answer

\* render_instruction
RenderInstruction(prompt, answer, input, system) ==
  Joined((IF system = <<>> THEN <<>> ELSE <<system>>)
         \o <<IF input = <<>> THEN Turn(prompt, answer)
              ELSE <<Instruction>> \o prompt \o <<Gap, Input>> \o input
                   \o <<Gap, Response>> \o answer>>)

-----------------------------------------------------------------------------
(* render_conversation                                                     *)

Silent == [system |-> <<>>, turns |-> <<>>, pending |-> None]

\* User messages in a row are one prompt.
UserSays(talk, words) ==
  [talk EXCEPT !.pending = IF @ = None THEN words ELSE Joined(<<@, words>>)]

\* Mutant: the prompt that was answered stays pending.
AssistantSays_KeepsPrompt(talk, words) ==
  IF talk.pending # None THEN [talk EXCEPT !.turns = Append(@, Turn(talk.pending, words))]
  ELSE talk

\* An answer closes the turn, continues the last one, or has none to belong to.
AssistantSays(talk, words) ==
  IF talk.pending # None
  THEN [talk EXCEPT !.turns = Append(@, Turn(talk.pending, words)), !.pending = None]
  ELSE IF talk.turns # <<>>
       THEN [talk EXCEPT !.turns[Len(talk.turns)] = Joined(<<@, words>>)]
       ELSE talk

Says(talk, message) ==
  LET role == Role(message.role)
  IN IF message.words = <<>> \/ role = "" THEN talk
     ELSE IF role = "system" THEN [talk EXCEPT !.system = Append(@, message.words)]
     ELSE IF role = "user" THEN UserSays(talk, message.words)
     ELSE AssistantSays(talk, message.words)

\* After each of the messages.
Talk(messages) ==
  LET upTo[n \in 0..Len(messages)] ==
        IF n = 0 THEN Silent ELSE Says(upTo[n - 1], messages[n])
  IN upTo

RenderConversation(messages) ==
  LET talk == Talk(messages)[Len(messages)]
  IN IF talk.turns = <<>> THEN None
     ELSE Joined((IF talk.system = <<>> THEN <<>> ELSE <<Joined(talk.system)>>) \o talk.turns)

-----------------------------------------------------------------------------
(* document_from_record: the layouts in the order they are tried. A record *)
(* is a function from its fields.                                          *)

Has(record, field) == field \in DOMAIN record /\ record[field] \notin {None, <<>>}

OrEmpty(record, field) == IF Has(record, field) THEN record[field] ELSE <<>>

\* The fields of an answer are tried in order: a text, then the messages chosen.
Answered(record) == Has(record, "response") \/ "chosen" \in DOMAIN record

Chosen(record) ==
  IF Answered(record) /\ ~Has(record, "response") THEN RenderConversation(record.chosen) ELSE None

DocumentFromRecord(record) ==
  IF Has(record, "text") THEN record.text
  ELSE IF "messages" \in DOMAIN record THEN RenderConversation(record.messages)
  ELSE IF Chosen(record) # None THEN Chosen(record)
  ELSE IF Has(record, "prompt") /\ Answered(record)
  THEN RenderInstruction(record.prompt, OrEmpty(record, "response"),
                         OrEmpty(record, "input"), OrEmpty(record, "system"))
  ELSE IF Has(record, "content") THEN record.content
  ELSE None

-----------------------------------------------------------------------------
(* build_chat_prompt                                                       *)

\* The texts of the system messages, up to each of the messages.
Contents(messages) ==
  LET upTo[n \in 0..Len(messages)] ==
        IF n = 0 THEN <<>>
        ELSE IF messages[n].role = "system" THEN Append(upTo[n - 1], messages[n].words)
        ELSE upTo[n - 1]
  IN upTo

\* A block of the prompt waits for its answer.
Waits(blocks) == blocks # <<>> /\ Last(Last(blocks)) = Response

AddMessage(blocks, message) ==
  IF message.role = "user" THEN Append(blocks, Turn(message.words, <<>>))
  ELSE IF message.role = "system" THEN blocks
  ELSE [blocks EXCEPT ![Len(blocks)] = @ \o message.words]

FirstBlocks(messages) ==
  LET system == Contents(messages)[Len(messages)]
  IN IF system = <<>> THEN <<>> ELSE <<Joined(system)>>

\* The blocks after each of the messages.
Blocks(messages) ==
  LET upTo[n \in 0..Len(messages)] ==
        IF n = 0 THEN FirstBlocks(messages) ELSE AddMessage(upTo[n - 1], messages[n])
  IN upTo

\* What ChatTemplateError refuses: no text, a role of another dialect, an
\* assistant message that answers nothing.
Accepts(messages) ==
  /\ messages # <<>>
  /\ \A i \in DOMAIN messages :
       /\ messages[i].role \in {"system", "user", "assistant"}
       /\ messages[i].words # <<>>
       /\ \/ messages[i].role # "assistant"
          \/ Waits(Blocks(messages)[i - 1])

ChatPrompt(messages) == Joined(Blocks(messages)[Len(messages)])
================================================================================
