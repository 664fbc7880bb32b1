------------------------------ MODULE DenseStore ------------------------------
(***************************************************************************)
(* Dense block streaming (src/src/fontaine/inference/dense_store.py): the  *)
(* transformer blocks of a served model live on disk and pass through an   *)
(* LRU cache with a byte budget, which the forward pass and a prefetch     *)
(* thread fill concurrently.                                               *)
(*                                                                         *)
(* One action per critical section of _lock.  Reading a block file happens *)
(* between two sections, so what the first one saw may be stale by the     *)
(* second; the file is never rewritten, so the read itself is no action.   *)
(* The model starts when attach_dense_streaming has spilled every block.   *)
(***************************************************************************)
EXTENDS Integers, Sequences, SequencesExt, FiniteSets, FiniteSetsExt

CONSTANTS
  Readers,       \* threads running a forward pass over the block list
  NumBlocks,     \* len(self)
  BlockBytes,    \* block -> bytes of the tensors of its state_dict()
  CapacityBytes, \* budget_bytes
  Overlap,       \* the prefetch thread exists
  MaxRequests    \* bound on the calls of __getitem__

Blocks == 0..NumBlocks - 1

Bytes(blocks) ==
  LET upTo[n \in 0..Len(blocks)] == IF n = 0 THEN 0 ELSE upTo[n - 1] + BlockBytes[blocks[n]]
  IN upTo[Len(blocks)]

ASSUME BlocksAssumption   == NumBlocks \in Nat \ {0}
ASSUME BytesAssumption    == BlockBytes \in [Blocks -> Nat]
ASSUME CapacityAssumption == CapacityBytes \in Nat \ {0}
ASSUME OverlapAssumption  == Overlap \in BOOLEAN
ASSUME RequestsAssumption == MaxRequests \in Nat

\* attach_dense_streaming leaves a model alone whose blocks fit the budget.
ASSUME StreamingAssumption == Bytes([n \in 1..NumBlocks |-> n - 1]) > CapacityBytes

Stop == -1     \* the None that close() puts on the queue

VARIABLES
  resident,   \* _resident: the blocks charged to the budget, least recent first
  cache,      \* keys of _modules_cache
  entry,      \* block -> what the ModuleList entry holds
  reader,     \* reader -> where its call of __getitem__ is
  held,       \* reader -> block whose module it is executing, or Nothing
  queue,      \* _queue of the prefetch thread
  worker,     \* the prefetch thread
  mode,       \* whether the list is open, closing (close() waits) or closed
  requests    \* calls of __getitem__ so far

cacheVars == <<resident, cache, entry>>
denseVars == <<cacheVars, reader, held, queue, worker, mode, requests>>

Nothing == -1

Resident == ToSet(resident)

DenseInit ==
  /\ resident = <<>>
  /\ cache = {}
  /\ entry = [i \in Blocks |-> "placeholder"]
  /\ reader = [r \in Readers |-> [pc |-> "idle", block |-> Nothing]]
  /\ held = [r \in Readers |-> Nothing]
  /\ queue = <<>>
  /\ worker = [pc |-> IF Overlap THEN "get" ELSE "stopped", block |-> Nothing]
  /\ mode = "open"
  /\ requests = 0

-----------------------------------------------------------------------------
(* The cache: what the critical sections do.                               *)

\* self._resident.move_to_end(i): i becomes the most recently used.
Touch(i) ==
  /\ \E k \in DOMAIN resident :
       /\ resident[k] = i
       /\ resident' = Append(RemoveAt(resident, k), i)
  /\ UNCHANGED <<cache, entry>>

FitsBudget_IgnoresNew(blocks, i) == Bytes(blocks) <= CapacityBytes   \* mutant

FitsBudget(blocks, i) == Bytes(blocks) + BlockBytes[i] <= CapacityBytes

\* The k most recently used blocks.
Recent(k) == SubSeq(resident, Len(resident) - k + 1, Len(resident))

\* Mutant: one block too few is evicted.
Survivors_OneTooMany(i) ==
  Recent(Min({Len(resident), 1 + Max({k \in 0..Len(resident) : k = 0 \/ FitsBudget(Recent(k), i)})}))

\* _admit evicts from the front until the new block fits or nothing is left.
Survivors(i) == Recent(Max({k \in 0..Len(resident) : k = 0 \/ FitsBudget(Recent(k), i)}))

\* A block larger than the whole budget gets its cache entry and its ModuleList
\* entry like any other, but is not charged to the budget.
Admit(i) ==
  LET kept    == Survivors(i)
      evicted == Resident \ ToSet(kept)
  IN /\ resident' = IF FitsBudget(kept, i) THEN Append(kept, i) ELSE kept
     /\ cache' = (cache \ evicted) \cup {i}
     /\ entry' = [b \in Blocks |-> IF b = i THEN "module"
                                   ELSE IF b \in evicted THEN "placeholder"
                                   ELSE entry[b]]

-----------------------------------------------------------------------------
(* __getitem__, on a reader's thread.                                      *)

At(r, pc) == reader[r].pc = pc

\* First section of _ensure_resident: a hit, or a miss to be read from disk
\* (the counters of stats() are left out). The reader goes on holding the module
\* of its previous block until it gets the new one.
Request(r, i) ==
  /\ At(r, "idle")
  /\ mode # "closing"
  /\ requests < MaxRequests
  /\ requests' = requests + 1
  /\ IF i \in Resident
     THEN /\ Touch(i)
          /\ held' = [held EXCEPT ![r] = i]
          /\ reader' = [reader EXCEPT ![r] = [pc |-> "advise", block |-> i]]
     ELSE /\ reader' = [reader EXCEPT ![r] = [pc |-> "load", block |-> i]]
          /\ UNCHANGED <<cacheVars, held>>
  /\ UNCHANGED <<queue, worker, mode>>

\* Second section: another thread may have admitted the block meanwhile.
Loaded(r) ==
  LET i == reader[r].block
  IN /\ At(r, "load")
     /\ IF i \in Resident THEN Touch(i) ELSE Admit(i)
     /\ held' = [held EXCEPT ![r] = i]
     /\ reader' = [reader EXCEPT ![r].pc = "advise"]
     /\ UNCHANGED <<queue, worker, mode, requests>>

\* The file is missing or unreadable: the exception leaves __getitem__.
LoadFails(r) ==
  /\ At(r, "load")
  /\ reader' = [reader EXCEPT ![r] = [pc |-> "idle", block |-> Nothing]]
  /\ held' = [held EXCEPT ![r] = Nothing]
  /\ UNCHANGED <<cacheVars, queue, worker, mode, requests>>

\* _maybe_prefetch(i + 1): nothing to do without a queue, past the last block,
\* or for a resident block; else the next block is queued after the lock is
\* released, so the thread may already have it by then.
Advise(r) ==
  LET next == reader[r].block + 1
      wanted == mode # "closed" /\ Overlap /\ next \in Blocks \ Resident
  IN /\ At(r, "advise")
     /\ reader' = [reader EXCEPT ![r] = IF wanted
                                        THEN [pc |-> "put", block |-> next]
                                        ELSE [pc |-> "idle", block |-> Nothing]]
     /\ UNCHANGED <<cacheVars, held, queue, worker, mode, requests>>

Put(r) ==
  /\ At(r, "put")
  /\ queue' = Append(queue, reader[r].block)
  /\ reader' = [reader EXCEPT ![r] = [pc |-> "idle", block |-> Nothing]]
  /\ UNCHANGED <<cacheVars, held, worker, mode, requests>>

\* The forward pass is over and drops its reference to the module.
Drop(r) ==
  /\ At(r, "idle")
  /\ held[r] # Nothing
  /\ held' = [held EXCEPT ![r] = Nothing]
  /\ UNCHANGED <<cacheVars, reader, queue, worker, mode, requests>>

-----------------------------------------------------------------------------
(* The prefetch thread and close().                                        *)

\* queue.get() and the first section; the None of close() ends the thread.
WorkerTakes ==
  /\ worker.pc = "get"
  /\ mode # "closed"
  /\ queue # <<>>
  /\ queue' = Tail(queue)
  /\ LET i == Head(queue)
     IN worker' = IF i = Stop THEN [pc |-> "stopped", block |-> Nothing]
                  ELSE IF i \in Resident THEN worker
                  ELSE [pc |-> "load", block |-> i]
  /\ UNCHANGED <<cacheVars, reader, held, mode, requests>>

\* The second section: admitted, unless a reader was faster.
WorkerLoaded ==
  /\ worker.pc = "load"
  /\ IF worker.block \in Resident THEN UNCHANGED cacheVars ELSE Admit(worker.block)
  /\ worker' = [pc |-> "get", block |-> Nothing]
  /\ UNCHANGED <<reader, held, queue, mode, requests>>

\* A read error is logged and the thread goes on.
WorkerFails ==
  /\ worker.pc = "load"
  /\ worker' = [pc |-> "get", block |-> Nothing]
  /\ UNCHANGED <<cacheVars, reader, held, queue, mode, requests>>

\* Mutant: nothing wakes the thread.
Close_NoStop ==
  /\ mode = "open"
  /\ Overlap
  /\ \A r \in Readers : At(r, "idle")
  /\ mode' = "closing"
  /\ UNCHANGED <<cacheVars, reader, held, queue, worker, requests>>

\* close() is called between forward passes, and its caller waits.
Close ==
  /\ mode = "open"
  /\ Overlap
  /\ \A r \in Readers : At(r, "idle")
  /\ queue' = Append(queue, Stop)
  /\ mode' = "closing"
  /\ UNCHANGED <<cacheVars, reader, held, worker, requests>>

\* join(timeout=5) returns, with the thread ended or still at its backlog; then
\* _queue becomes None.
Joined ==
  /\ mode = "closing"
  /\ mode' = "closed"
  /\ UNCHANGED <<cacheVars, reader, held, queue, worker, requests>>

\* Back from its item, the thread finds self._queue to be None: the
\* AttributeError ends it. A thread inside get() of an empty queue stays there.
WorkerOrphaned ==
  /\ worker.pc = "get"
  /\ mode = "closed"
  /\ queue # <<>>
  /\ worker' = [pc |-> "stopped", block |-> Nothing]
  /\ UNCHANGED <<cacheVars, reader, held, queue, mode, requests>>

ReaderStep(r) == Loaded(r) \/ LoadFails(r) \/ Advise(r) \/ Put(r)

WorkerStep == WorkerTakes \/ WorkerLoaded \/ WorkerFails \/ WorkerOrphaned

DenseNext ==
  \/ \E r \in Readers, i \in Blocks : Request(r, i)
  \/ \E r \in Readers : ReaderStep(r) \/ Drop(r)
  \/ WorkerStep
  \/ Close \/ Joined

\* Threads keep running; nobody has to ask for blocks or to close the list.
Fairness == /\ \A r \in Readers : WF_denseVars(ReaderStep(r))
            /\ WF_denseVars(WorkerStep) /\ WF_denseVars(Joined)

DenseSpec == DenseInit /\ [][DenseNext]_denseVars /\ Fairness

-----------------------------------------------------------------------------
(* Properties.                                                             *)

DenseTypeOK ==
  /\ Resident \subseteq Blocks /\ IsInjective(resident)
  /\ cache \subseteq Blocks
  /\ entry \in [Blocks -> {"module", "placeholder"}]
  /\ reader \in [Readers -> [pc : {"idle", "load", "advise", "put"},
                             block : Blocks \cup {Nothing}]]
  /\ held \in [Readers -> Blocks \cup {Nothing}]
  /\ ToSet(queue) \subseteq Blocks \cup {Stop}
  /\ worker \in [pc : {"get", "load", "stopped"}, block : Blocks \cup {Nothing}]
  /\ mode \in {"open", "closing", "closed"}
  /\ requests \in 0..MaxRequests

\* However the reader and the prefetch thread interleave their admissions, the
\* blocks charged to the budget stay within it (resident_bytes of stats()).
WithinBudget == Bytes(resident) <= CapacityBytes

\* Every module the list keeps is charged to the budget, except a block that
\* alone exceeds it: no race between two loads of a block, and no eviction,
\* leaves a module behind that nobody counts (_admit, _evict).
NothingUncounted == \A i \in cache \ Resident : BlockBytes[i] > CapacityBytes

\* close() ends the prefetch thread, with its backlog done or abandoned.
CloseStopsWorker == mode = "closing" ~> worker.pc = "stopped"
===============================================================================
