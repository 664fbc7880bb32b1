-------------------------------- MODULE Serving --------------------------------
(***************************************************************************)
(* The HTTP server (src/src/fontaine/inference/server.py): one thread per  *)
(* request, all of them sharing one Generator, whose lock a streaming      *)
(* request keeps while its client reads (Generator._stream, engine.py).    *)
(*                                                                         *)
(* A request is a thread of its own (ThreadingHTTPServer, external) and a  *)
(* client that may read slowly or hang up.  What the model writes is a     *)
(* free choice: visible or blank pieces, an end, or an exception.          *)
(***************************************************************************)
EXTENDS Integers

CONSTANTS
  Requests,    \* request threads, each with its client
  Endpoints,   \* endpoints the clients use; a subset of AllEndpoints
  MaxPieces,   \* bound on the pieces of one answer
  Nobody       \* no request

AllEndpoints ==
  [family : {"native", "ollama_chat", "ollama_generate", "openai"}, stream : BOOLEAN]
  \cup {[family |-> "context", stream |-> FALSE]}

ASSUME EndpointsAssumption == Endpoints \subseteq AllEndpoints /\ Endpoints # {}
ASSUME PiecesAssumption    == MaxPieces \in Nat
ASSUME NobodyAssumption    == Nobody \notin Requests

VARIABLES
  endpoint,  \* what each client asked for
  pc,        \* where each request thread is
  chunks,    \* the generator object of each request
  lock,      \* the request whose thread or generator holds Generator._lock
  pieces,    \* count of pieces, and whether one of them is visible
  wire,      \* what the client got: status lines, visible text, ends of the answer
  client     \* "fresh": has not stalled yet; it does so at most once

vars == <<endpoint, pc, chunks, lock, pieces, wire, client>>

Nothing == [status |-> 0, visible |-> FALSE, ends |-> 0]

Init ==
  /\ endpoint \in [Requests -> Endpoints]
  /\ pc = [r \in Requests |-> "idle"]
  /\ chunks = [r \in Requests |-> "none"]
  /\ lock = Nobody
  /\ pieces = [r \in Requests |-> [count |-> 0, visible |-> FALSE]]
  /\ wire = [r \in Requests |-> Nothing]
  /\ client = [r \in Requests |-> "fresh"]

Chat(r)   == endpoint[r].family \in {"ollama_chat", "openai"}
Streams(r) == endpoint[r].stream

Goto(r, place) == pc' = [pc EXCEPT ![r] = place]

Reads(r) == client[r] \in {"fresh", "reading"}

-----------------------------------------------------------------------------
(* Writing to the client.                                                  *)

\* The socket takes the bytes of a client that reads, blocks while it stalls,
\* and takes them (they are lost) or raises when it is gone.
Delivers(r, status, visible, ends) ==
  \/ /\ Reads(r)
     /\ wire' = [wire EXCEPT ![r].status = @ + status,
                             ![r].visible = @ \/ visible,
                             ![r].ends = @ + ends]
  \/ /\ client[r] = "gone"
     /\ UNCHANGED wire

Raises(r) == client[r] = "gone" /\ UNCHANGED wire

\* The last write of a handler: when it raises, what is left to do (a caught
\* BrokenPipeError, or the 500 of do_POST on the same socket) reaches nobody.
LastWrite(r, status, visible, ends) ==
  /\ Delivers(r, status, visible, ends)
  /\ Goto(r, "done")
  /\ UNCHANGED <<endpoint, chunks, lock, pieces, client>>

-----------------------------------------------------------------------------
(* The request thread.                                                     *)

\* do_POST reads the body and calls the handler of the path, which builds the
\* prompt; "new" is the generator object, which has not run yet.
Arrive(r) ==
  /\ pc[r] = "idle"
  /\ \/ Goto(r, "rejected") /\ UNCHANGED chunks
     \/ /\ endpoint[r].family = "context"
        /\ Goto(r, "budget")
        /\ UNCHANGED chunks
     \/ /\ endpoint[r].family # "context"
        /\ Goto(r, IF Streams(r) THEN "header" ELSE "pull")
        /\ chunks' = [chunks EXCEPT ![r] = "new"]
  /\ UNCHANGED <<endpoint, lock, pieces, wire, client>>

\* A body that is no object, a missing prompt, a bad num_ctx: 400.
Rejected(r) == pc[r] = "rejected" /\ LastWrite(r, 1, TRUE, 1)

\* The status line and headers of a stream.
Header(r) ==
  /\ pc[r] = "header"
  /\ \/ Delivers(r, 1, FALSE, 0) /\ Goto(r, "pull") /\ UNCHANGED chunks
     \/ Raises(r) /\ Goto(r, "done") /\ chunks' = [chunks EXCEPT ![r] = "finished"]
  /\ UNCHANGED <<endpoint, lock, pieces, client>>

\* generate() raises before there is a generator: a sampling option of the
\* wrong name or range, which a stream learns after its headers are out.
Refuse(r) ==
  /\ pc[r] = "pull"
  /\ chunks[r] = "new"
  /\ chunks' = [chunks EXCEPT ![r] = "finished"]
  /\ Goto(r, "failed")
  /\ UNCHANGED <<endpoint, lock, pieces, wire, client>>

\* The first next(): _stream takes the lock.
Acquire(r) ==
  /\ pc[r] = "pull"
  /\ chunks[r] = "new"
  /\ lock = Nobody
  /\ lock' = r
  /\ chunks' = [chunks EXCEPT ![r] = "running"]
  /\ UNCHANGED <<endpoint, pc, pieces, wire, client>>

\* The generator yields with the lock held; join() asks for more at once.
Yield(r) ==
  /\ pc[r] = "pull"
  /\ chunks[r] = "running"
  /\ pieces[r].count < MaxPieces
  /\ \E visible \in BOOLEAN :
       pieces' = [pieces EXCEPT ![r] = [count |-> @.count + 1,
                                        visible |-> @.visible \/ visible]]
  /\ IF Streams(r)
     THEN Goto(r, "write") /\ chunks' = [chunks EXCEPT ![r] = "suspended"]
     ELSE UNCHANGED <<pc, chunks>>
  /\ UNCHANGED <<endpoint, lock, wire, client>>

\* The generator returns or raises: its `with` releases the lock.
Ends(r, place) ==
  /\ pc[r] = "pull"
  /\ chunks[r] = "running"
  /\ chunks' = [chunks EXCEPT ![r] = "finished"]
  /\ lock' = Nobody
  /\ Goto(r, place)
  /\ UNCHANGED <<endpoint, pieces, wire, client>>

\* Mutant: an answer without text is sent as it is.
Return_Silent(r) == Ends(r, "final")

\* Mutant: the explanation is made while the generator still has the lock.
Return_HoldsLock(r) ==
  IF Chat(r) /\ ~pieces[r].visible /\ pc[r] = "pull" /\ chunks[r] = "running"
  THEN Goto(r, "budget") /\ UNCHANGED <<endpoint, chunks, lock, pieces, wire, client>>
  ELSE Ends(r, "final")

\* A chat answer without visible text is replaced by an explanation.
Return(r) == Ends(r, IF Chat(r) /\ ~pieces[r].visible THEN "budget" ELSE "final")

\* Mutant: the lock is released at the end of _stream, and not by a `with`.
Raise_KeepsLock(r) ==
  /\ pc[r] = "pull"
  /\ chunks[r] = "running"
  /\ chunks' = [chunks EXCEPT ![r] = "finished"]
  /\ Goto(r, "failed")
  /\ UNCHANGED <<endpoint, lock, pieces, wire, client>>

Raise(r) == Ends(r, "failed")

\* One piece to the client, which may raise BrokenPipeError: the handler
\* returns, its generator is closed where it was suspended, the lock released.
Write(r) ==
  /\ pc[r] = "write"
  /\ \/ /\ Delivers(r, 0, pieces[r].visible, 0)
        /\ Goto(r, "pull")
        /\ chunks' = [chunks EXCEPT ![r] = "running"]
        /\ UNCHANGED lock
     \/ /\ Raises(r)
        /\ Goto(r, "done")
        /\ chunks' = [chunks EXCEPT ![r] = "finished"]
        /\ lock' = Nobody
  /\ UNCHANGED <<endpoint, pieces, client>>

\* context_budget takes and releases the lock; _chat_budget calls it when the
\* generator has ended, so that the thread does not wait for itself.  What it
\* finds out becomes the text of the answer.
Budget(r) ==
  /\ pc[r] = "budget"
  /\ lock = Nobody
  /\ Goto(r, "final")
  /\ pieces' = [pieces EXCEPT ![r].visible = TRUE]
  /\ UNCHANGED <<endpoint, chunks, lock, wire, client>>

\* Mutant: every answer begins with a status line.
Final_StatusAgain(r) ==
  /\ pc[r] = "final"
  /\ LastWrite(r, 1, pieces[r].visible, 1)

\* The end of a stream, or a JSON answer as a whole.
Final(r) ==
  /\ pc[r] = "final"
  /\ LastWrite(r, IF Streams(r) THEN 0 ELSE 1, pieces[r].visible, 1)

\* The exception of the generator: a last line or event of the Ollama and
\* OpenAI streams; elsewhere do_POST answers with a status of its own, also in
\* the middle of a native stream.
Failed(r) ==
  /\ pc[r] = "failed"
  /\ LastWrite(r, IF Streams(r) /\ endpoint[r].family # "native" THEN 0 ELSE 1, TRUE, 1)

RequestStep(r) ==
  \/ Arrive(r) \/ Rejected(r) \/ Header(r)
  \/ Refuse(r) \/ Acquire(r) \/ Yield(r) \/ Return(r) \/ Raise(r)
  \/ Write(r) \/ Budget(r) \/ Final(r) \/ Failed(r)

-----------------------------------------------------------------------------
(* Clients.                                                                *)

Client(r, from, to) ==
  /\ client[r] \in from
  /\ client' = [client EXCEPT ![r] = to]
  /\ UNCHANGED <<endpoint, pc, chunks, lock, pieces, wire>>

Stall(r)  == Client(r, {"fresh"}, "stalled")
Catch(r)  == Client(r, {"stalled"}, "reading")
HangUp(r) == Client(r, {"fresh", "stalled", "reading"}, "gone")

Next == \E r \in Requests : RequestStep(r) \/ Stall(r) \/ Catch(r) \/ HangUp(r)

\* Threads run, and a client that stalls goes on reading or hangs up; the
\* server has no timeout of its own.
Fairness == \A r \in Requests : WF_vars(RequestStep(r)) /\ WF_vars(Catch(r))

Spec == Init /\ [][Next]_vars /\ Fairness

-----------------------------------------------------------------------------
(* Properties.                                                             *)

\* The variables have their types, and a generator is suspended only while its
\* thread writes.
TypeOK ==
  /\ endpoint \in [Requests -> Endpoints]
  /\ pc \in [Requests -> {"idle", "rejected", "header", "pull", "write", "budget",
                          "final", "failed", "done"}]
  /\ chunks \in [Requests -> {"none", "new", "running", "suspended", "finished"}]
  /\ lock \in Requests \cup {Nobody}
  /\ pieces \in [Requests -> [count : 0..MaxPieces, visible : BOOLEAN]]
  /\ wire \in [Requests -> [status : Nat, visible : BOOLEAN, ends : Nat]]
  /\ client \in [Requests -> {"fresh", "stalled", "reading", "gone"}]
  /\ \A r \in Requests : chunks[r] = "suspended" <=> pc[r] = "write"

\* "one lock serializes requests" (docs/inference/architecture.md:34): the lock
\* belongs to the one generator that has begun and not ended; no thread that is
\* through with its request, by any path, leaves it locked.
LockFollowsGenerator ==
  /\ \A r \in Requests : lock = r <=> chunks[r] \in {"running", "suspended"}
  /\ \A r \in Requests : pc[r] = "done" => lock # r

\* A client that stays gets one status line and one end of its answer, whatever
\* fails on the way ("mid-stream failure: end the stream cleanly",
\* server.py:517).  A native stream is excepted: see the README.
NativeStream(r) == endpoint[r] = [family |-> "native", stream |-> TRUE]

AnswersOnce ==
  \A r \in Requests :
    pc[r] = "done" /\ client[r] # "gone" /\ ~NativeStream(r)
      => wire[r].status = 1 /\ wire[r].ends = 1

\* A chat client that stays never sees a blank answer (chat_status_reply,
\* server.py:182-186).
NeverBlank ==
  \A r \in Requests :
    pc[r] = "done" /\ client[r] # "gone" /\ Chat(r) => wire[r].visible

\* No request waits for ever: not for the lock of a client that hung up, nor
\* for its own.
EveryRequestEnds == \A r \in Requests : <>(pc[r] = "done")
================================================================================
