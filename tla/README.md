# Verification of Fontaine (YaMi)

TLA+ models, TLC runs and TLAPS proofs for the Python package `src/src/fontaine`
of this repository: a language-model stack that trains, checkpoints, serves and
streams models on small machines. Paths below are relative to that package
unless they begin with `src/`.

Run a check with `tlc -workers 2 -config X.cfg M`, a proof with
`tlapm M_proofs.tla`. `PROJECT.json` lists components, runs, the mutants that
show each property can fail, the source lines behind each definition, the
hazards and the theorems.

## 1. Inventory

| Component | State it keeps | Operations | Hard behaviour | What makes it correct |
|---|---|---|---|---|
| `checkpointing/manager` | step directories, `latest.json`, `best.json`, background thread, pending error | `save`, `wait`, `load`, pruning, best pointer; a sharded save of many ranks | crash or I/O error between two files, `rmtree` that fails half-way, background writer beside training | what `load` accepts is one training state; pointers follow files; a verifying checkpoint survives |
| `training/trainer` | loop step, last loss, early-stopping counters | `fit`, `evaluate`, `save_checkpoint`, resume | crash at any step, restart from any directory, early stop | labels are training progress; `fit` returns only with a saved model; errors surface |
| `inference/dense_store` | LRU of blocks, `ModuleList` entries, prefetch queue and thread | `__getitem__`, prefetch, `close` | two loads of one block, eviction of a block in use, blocks over the budget, `join` that times out | byte budget; nothing kept uncounted; entries agree with the cache |
| `inference/expert_store`, `optimization/expert_tier` | slots with leases, heat counters with u32 wrap, prefetch queue | `lookup`, `release`, `prefetch` | admission race, eviction against leases, thrashing | budget; one slot for an expert; leased slots stay; bounded swapping |
| `inference/engine`, `inference/loader` | the request of a generator, cache position, lock | `generate`, `context_budget`, streaming | window boundaries, stop sequences over several tokens, characters of several tokens, abandoned generators | positions stay in the window; deltas join to the text; stop sequences never leak |
| `inference/speculative` | accepted tokens, proposals | draft, verify, bonus token | last round, EOS in four places, draft with a smaller window | the text is the target's; progress |
| `models/kv_cache` | tensors or pages, position | `update`, `advance`, `reset` | partial pages, growth, aborted passes | each layer sees exactly the text |
| `inference/server` | one thread for each request, the shared `Generator` | native, Ollama and OpenAI endpoints | lock held while a client reads, hang-ups, failures in a stream | the lock is never left behind; one answer; no blank chat |
| `inference/batching`, `generation/sampling` | requests and their caches | `add`, `step` | failure in the middle of a step, requests that join late | the text of each is one it could have got alone |
| `models/*` | parameters | attention with and without a mask, expert dispatch, the pass of a row, of chunks, of stages | chunk and window boundaries, capacity, packed rows, send/recv order | a position sees and runs what it would alone |
| `distributed/*` | mesh, process groups | topology, group creation, tensor, sequence, expert and pipeline parallelism, gradient sync, sharded saves | collectives in different orders on different ranks, a rank that fails | no rank waits for ever; replicas stay equal; `meta.json` lists one step |
| `data/*` | document stream, cleaner, token and owner buffers, shard files, manifest | read, clean, deduplicate, render, cut, write shards, read windows | interrupted preparation, re-preparation in place, boundaries of shards and windows | what the checksums accept is the text of one preparation |
| `config/*` | nested mappings from files, profiles, environment and command line | load, merge, rename, override, validate | the order of the merges, two names of one field, what other components rely on | the last layer wins; what is accepted can be used |
| `optimization` (except the tier), `evaluation`, `tokenizer`, `agents`, the other CLI commands, `src/web` | records, files | estimates, parsing | sequential | see PROJECT.json |

How they interact: the CLI builds a `Trainer` (which drives a
`CheckpointManager` and reads the data shards) or a `Generator` (loader →
model, optionally with its blocks in a `DenseStreamList` and its experts in an
`ExpertStore`). The `Generator` owns one lock; the HTTP server calls it from
one thread for each request; a streaming request is a Python generator
suspended *inside* the `with self._lock`. Checkpoints are the only channel
from training to inference.

## 2. Plan

| Step | Modules | State |
|---|---|---|
| 1 | `CheckpointStore` (+ proofs), `Training` composing it | done |
| 2 | `DenseStore`, `ExpertStore` (+ proofs) | done |
| 3 | `GreedyDecoding` (abstract), `Speculative` (+ proofs) | done |
| 4 | `Decoding` (+ proofs), `KVCache` (abstract), `CacheStorage` | done |
| 5 | `Serving` (+ proofs) | done |
| 6 | `Cleaning`, `Records`, `Sources`, `Dataset` composing them (+ proofs) | done |
| 7 | `Topology`, `Schema`, `Loader`, `Mesh` composing them (+ proofs) | done |
| 8 | `Attention`, `Dispatch`, `Forward` composing them with `CacheStorage` | done |
| 9 | `Sampling`, `Batching` (+ proofs), theorems about `Topology` | done |
| 10 | theorems about `Training`, the pointers of `CheckpointStore`, the text of `Decoding`, `Dataset`, `Records` | done |
| 11 | theorems about the three caches and the budget of `DenseStore` | done |
| 12 | theorems about `Mesh`: configurations that load, replicas, sharded saves | done |

```
Training --instance--> CheckpointStore        Speculative --implements--> GreedyDecoding
Dataset  --> Cleaning, Sources --> Records     Decoding
Mesh --> Loader --> Schema --> Topology        Serving
Forward --> Attention, Dispatch --> Schema     DenseStore, ExpertStore
        --> CacheStorage --implements--> KVCache
Batching --> Sampling
```

Abstract specifications: `GreedyDecoding`
for speculative decoding, `KVCache` for the three caches; the text of one
preparation (`Stream`) for the dataset; the text in a row of its own for the
forward pass and the batcher. Still worth proving: that the ranks of every group of `Mesh` are in the same
collective (it is proved of the replicas of a slice), the safety behind
`EveryRankEnds`.

## 3. Modules

### CheckpointStore (`checkpointing/manager.py`)

`disk` is the set of step directories with file contents and the hashes of
`meta.json`; `writer` is the save under way, one action for each file-system
step: `MakeDirectory`, `OpenFile`/`CloseFile` for each of model, optimizer and
RNG (written in place, so a crash leaves a torn file), `WriteMeta` and
`PublishLatest` (atomic), `UpdateBest`, then `ListVictims`/`RemoveDirectory`.
`shutil.rmtree(ignore_errors=True)` may leave any part of a directory.
`SaveFails` is any exception of these steps (in pruning, of listing the
directories or reading `best.json`), `Crash` the death of the process
between two of them; `MaxFaults` bounds both together. A hash is modelled by
the content it was computed from. The snapshot of a background save
(`Async`) shares storage with the live tensors exactly where the code does
(`SharesStorage`): always for the optimizer state, and for the model when the
parameters live on the CPU, where `.to("cpu")` returns the tensor itself; on
CUDA the model is copied.

### Training (`training/trainer.py`, resume in `cli/main.py`)

The loop of `fit()`, split where the process can be observed or can die; it
instantiates the store as `Store`. Early stopping, evaluation and periodic
saving have the code's order; a restart reads `latest.json`, then `best.json`,
or a directory the user names. A process that fails ends
after its writer thread, and nobody is left to be told of that save's error
(`ExitDropsError`). The states a training passes through are told apart by a
number, at most one for each step of each process.

### DenseStore (`inference/dense_store.py`)

One action for each critical section of `_lock`: `Request`, `Loaded`,
`LoadFails`, `Advise`/`Put` (the prefetch hint), `WorkerTakes`, `WorkerLoaded`,
`WorkerFails`, and `close()` as `Close`, `Joined`, `WorkerOrphaned`. Reading a
file happens between two sections, so what the first saw may be stale.

### ExpertStore (`inference/expert_store.py`, `optimization/expert_tier.py`)

`Lookup`, `Loaded`, `Release`, `Prefetch` and the prefetch thread; `Score`,
`Beats`, `Bump`, `Evictions` are the promotion policy with its wrapping
counters. All experts of a model have one shape, so one size, and admission
evicts at most one slot. Of two equally cold slots the model evicts either.
`comeback` is history: how often an expert was looked up since it lost its slot.

### GreedyDecoding, Speculative (`inference/speculative.py`)

`target` is the target model's greedy choice after each prefix of its own
output: any sequence. The draft model may propose anything at any time. The
loop is `Round`, `Propose`/`EndDraft`, `Plain`, `Accept`, `Reject`, `Bonus`.

### Decoding (`inference/engine.py`)

One request from `fit_context` to its last delta. Tokens are told apart by what
decoding makes of them: a character, a character of the stop sequence, each of
the two bytes of one character, a special token, EOS. The caller may drop the
generator at any yield. The byte-level decoder is external: `Absorb` adds one
token to what was decoded, `DecodedUpTo` is the text after each of them.

### KVCache, CacheStorage (`models/kv_cache.py`)

`KVCache` is the promise: each layer of a pass gets the entries of the whole
text, past and present. `CacheStorage` is the storage, its kind chosen
initially as in `build_kv_cache`: contiguous tensors that may grow, or pages
written and gathered by the loops of `_write` and `_gather`: `Rounds` says where
their rounds begin, `WriteRound` and `Piece` are what one does. A pass may abort
between two layers; the batcher then uses the same cache again.

### Serving (`inference/server.py` and the lock of `inference/engine.py`)

A thread for each request, its generator (`chunks`) and its client. `Acquire`
is the first `next()`, `Yield` leaves the generator suspended with the lock
held while `Write` sends a piece to a client that may stall or be gone;
dropping the suspended generator releases the lock, as CPython does when the
handler's frame goes. `Failed`, `Final` and `Budget` are the ends of an answer.

### Cleaning, Records, Sources, Dataset (`data/`, `inference/chat_template.py`)

`Cleaning` is the filter a document passes (`Kept`: normalisation, redaction,
length, script, repetition, contamination, exact and near duplicates) with the
state it accumulates; characters are members of a few classes, hashes small bit
vectors from a free `Digest`. `normalize_unicode` and `strip_whitespace` are
taken as on. `Records` renders instructions and conversations, `ChatPrompt` is
what `/api/chat` makes of the same messages; both go through them one by one
(`Talk`, `Blocks`). `Sources` turns a tree of files,
archives, tables and notebooks into documents. `Dataset` is `prepare_dataset`
as steps between file operations: `Start`, `NextNode`, `Document`, `Push...`
into token and owner buffers, `Close`, `SaveManifest`, `Verify`, with `Skip`
for a mixture and `Crash` anywhere; shard files are written in place, in the
directory of an earlier preparation. The full shards of one `add_tokens` are
flushed in one step (`Flush`); a window fills two of them only when a shard is as
short as a sequence. `Index`, `Item`, `ItemOwners` are `TokenShardDataset`.
`Stream` is the text of a split as pairs of a token and the number of its
document. `Nodes` and `Spoken` bound what sources and documents hold:
`SourcesAssumption` says that opening a node gives nodes or texts of them.

### Topology, Schema, Loader, Mesh (`distributed/`, `config/`, `models/transformer.py`)

`Topology` is the layout of ranks, the groups each of them makes, and the
planner (`Plan`). `Schema` has the validation of each section, the layer kinds
and the defaults; `Loader` the way from files to a configuration: `Prepare`
(extends and its loops), `Merge` (by block), `Rename` (aliases and folded
sections), `WithProfile`, `Override`, in the order of `Load`. A mapping is a
function from places, `<<"model", "attention", "backend">>`, to values.

`Mesh` is a job. Each rank works off a sequence of calls, `todo`, built by the
handler it is in (`TrainStep`, `Evaluate`, `SaveCalls`): a collective that
waits for its ranks, a transfer, or something of its own. Two kinds of
collectives a rank leaves out when it has nothing to give (`Try`, `LeavesOut`,
`Skip`): the sum of the experts, and the collectives of their linears, in a pass
that none of its experts takes part in (`models/components.py:410-429`), and the
`all_reduce` of a parameter whose `grad` is `None` (`distributed/groups.py:58`).
Which experts get tokens is what the routers have learnt: `router` is chosen at
the beginning and `Routed` says what it does for each replica, stage and part of
a split sequence, in each batch and layer. `grads` keeps for each parameter the
gradients summed up in its own, told apart by parameter and replica, so that an
average over a wrong group, or of two parameters with each other, shows;
`weights` is the list of what the optimizer applied. A collective completes when
the ranks of its group are in one of its kind, whatever they are in it for: that
is how the calls of two parameters pair. Parameters are counted by layer: what
every token passes, the router (with its norm), and each expert. A shard is three
files, written one by one; `Fail` is an exception on one rank, which may leave the
file it was writing torn. `Refuse` is a pipeline for a model with tied embeddings.
No code of the repository creates the process group; it is taken as there. Left
out: gradient checkpointing, which would repeat the collectives of the forward
pass, what rank 0 does after `meta.json` (`latest.json`, pruning: see
`CheckpointStore`), the order of dispatch without the sorted slices, shared
experts as parameters of their own, and that tensor collectives of different
shapes fail where they pair.

### Attention, Dispatch, Forward (`models/`)

`Attention` is the mask of each kind of layer and the decision to do without
one; `Dispatch` the choice of experts, the sorted slices, the capacity and the
expert group. `Forward` extends `CacheStorage`: each `Update` of a layer's
cache is followed by what the layer makes of the chunk, told by the places and
tokens it mixes and the experts it runs (`block`). `TrainRow` is the same
block on a full row with packed documents and no cache. The flash backend needs
CUDA, and raises where a mask is needed; it is left out.

### Sampling, Batching (`generation/sampling.py`, `inference/batching.py`)

`Candidates` is the set of tokens `sample_token` may return, over integer
logits to the base 2. `Batching` is `step()` request by request, with a
`PassRaises` or, after `cache.advance`, a `SamplerRaises` at any of them; the model is a function of the text its cache has advanced over
and the tokens fed.

## 4. Runs

| Run | Question | Instance |
|---|---|---|
| `checkpoint_store` | is what `load` accepts one capture; do pointers follow files; does pruning spare the best directory | 3 labels, 2 states, 2 losses, `keep_last_n` 1, one fault |
| `training` | does a verifying checkpoint survive; are pointers, labels and `best.json` right; does `fit` end with the final checkpoint and surface errors | 4 steps, save each, evaluate every second, patience 1, losses and NaN, 2 faults, 2 processes, each with synchronous or background saves on CUDA |
| `crash_overwrite` (violation) | "a crash mid-save never produces a half checkpoint" | 4 steps, one crash |
| `dense_shared` | budget, counting, end of the prefetch thread | 2 readers, 4 blocks of 2, 3, 6 and 1 with a budget of 5 |
| `expert_shared` | budget, uniqueness, leases, thrashing | 2 clients, 2 layers with room for 2 slots and for 1, 2 experts, counters modulo 5 |
| `speculative_any` | is the text the target's, does the loop end, is it a greedy decode | 4 positions, 2 proposals, 2 tokens and EOS |
| `decoding` | window, stop sequences, joined deltas | window 5, prompts to 6, budgets to 4, context lengths to 6, 6 kinds of token |
| `serving` | lock, one answer, no blank chat, every request ends | 2 requests at each of 6 kinds of endpoint |
| `kv_caches` | do three caches implement one; does a position see and run what it would alone | 7 models, 2 layers, window 4, pages of 2, growth from 3, chunks to 2, every packing, expert groups to 3 |
| `batching` | is each text one the request could have got alone | 2 requests, 3 prompts, budgets 0 to 3, 5 samplers, window 5 |
| `dataset` | is what the checksums accept one text; owners; distances; training format against prompt format | windows of 2, shards of 4, two preparations into one directory, nested archives, records and conversations to 4 messages |
| `mesh` | do replicas agree, is `meta.json` of one step, does every rank end, does the last word win, is what is accepted usable | about 300 command lines; 1 to 4 ranks on 12 meshes and all the planner proposes; 5 routers; 2 steps of 2 micro-batches; one failure |

Why these bounds suffice. The interesting cases of each module need few actors:
a race needs two readers (or a reader and the prefetch thread), pruning needs
one label more than `keep_last_n`, a page boundary needs a window of
two pages and chunks that do not end with a page, a draft round that overlaps the budget needs two
proposals and four positions, a mesh
with two kinds of parallelism needs four ranks, and a shard that cuts a window
needs a shard length that is no multiple of it. Each property has a mutant of the code, listed in
`PROJECT.json`, that the run finds: the interesting case does happen there.

Constants of the code that are scaled down, with the same relations between
them: in `ExpertStore` `DecayEvery` (64), `HeatUnit` (256), `Margin` (4) and
`Wrap` (2^32); in `CacheStorage` `FirstSize` (16); in `Cleaning` the
lengths of shingles and grams, and the 4 bands of 16 bits (2 of 2) with a
distance below the number of bands (3, 1).

Bounds: `MaxFaults`, `MaxRuns`, `MaxRequests`, `MaxLoads`, `MaxPrompt`,
`MaxAsked`, `MaxContext`, `MaxChunk`, `MaxPieces`, `MaxPreparations`,
`MaxArchiveDepth`, `MaxRanks`, `MaxFailures`. Runs that end when a bound
is reached, or when the program ends, have `CHECK_DEADLOCK FALSE`.

Fairness. `Training`: a live process executes its loop and its writer thread;
crashes, errors and restarts are not fair. `DenseStore`: threads run on, and
`join` returns after its timeout; nobody has to ask for blocks or to close.
`Mesh`: every process is
scheduled, and a collective all of whose ranks are in it completes; failures
are not fair, and after one nothing is promised, since the others may wait.
Nor is anything promised to a model with experts whose tokens are uneven
(`EvenTokens`): such a job can hang, see section 6.
`Speculative`: a sequential loop. `Serving`: threads run, and a client that
stalls goes on reading or hangs up in the end. This last one is needed: the
server has no timeout, and a client that neither reads nor closes its socket
holds the lock, and with it every other request, for as long as it likes.
`HangUp` is not fair, nor is the model made to end early: an answer has at most
`MaxPieces` pieces because `max_new_tokens` bounds it.

## 5. Proofs

TLAPS proves, for every value of the constants under the named assumptions of
each module:

* `CheckpointStore_proofs`: `TypeCorrect`; `LoadIsConsistent`: with synchronous
  saves a directory that `load` accepts holds model, optimizer and RNG of one
  moment. That formula is not inductive: the state after a crash in an
  overwrite says nothing of the hashes. `CaptureInv` adds that the hashes of
  every `meta.json` describe one capture (`MetaIsOneCapture`), and that what
  the writer has hashed so far is its snapshot (`WriterHoldsSnapshot`); a
  verifying directory then equals what its hashes describe. `PruningSparesBest`
  and `PublishedIsWhole`: the best directory is never removed, and `latest.json`
  moves only to a directory that verifies. `DirectoryInv` follows the directory
  `best.json` names through the steps of `rmtree`.
* `Training_proofs`: the loop and its restarts, for any number of steps, faults
  and processes. `StoreStep` maps each step to a step of the store or a stutter (by
  the way `Training` is composed), so what is proved of the store holds of it (`P`
  is that instance).
  Over it lie, each resting on the ones before:
  `SaveInv` (which save runs in which phase), `OrderInv` (how far the loop, the
  save and the directories are ahead of `latest.json`), and then one formula for
  each property: `DoneInv` for `ReturnsSaved`, `LatestInv` for
  `PointerNeverDangles`, `BestInv` for `BestLossIsItsOwn`, `LabelInv` for
  `LabelsAreProgress`, `SurviveInv` for `CheckpointSurvives`. The lemmas named
  `...Effect` say once what an action of the store does. The conditions of
  these theorems are the ones the code needs; section 6 says what happens without:
  resuming from the pointers (the pointer, best and survival theorems),
  `keep_last_n` above 1 or no early stop (the pointer), weights on the GPU or no
  background save (labels), and for survival `SavesBeforeEnd`: two directories
  are kept, and a periodic save is due before the last step and before an early
  stop can come.
* `ExpertStore_proofs`: `TypeCorrect`, `BudgetRespected`, `SlotsAreUnique`,
  `LeaseProtects`, `LeasesExact`. The invariant ties each slot id to one slot,
  each view to a slot with its expert, and each lease count to the views.
  `Cardinality` facts come from `FiniteSetTheorems`. `MarginHolds`, the action
  property `NoThrashing`, needs one more invariant, `LosersAreColder`: an expert
  without its slot is behind the one that has it by `Margin` counts less its own
  lookups since it lost it. `BeatsByMargin` turns scores into counts, `BumpWarms`
  bounds what an access adds while nothing decays.
* `Inference_proofs`, of `Speculative`: `TypeCorrect`, `TextIsTheTargets`,
  `DraftNeverOverruns`, `SpeculationIsGreedy` (each step is a greedy step or a
  stutter while the target does not choose EOS). `RoundBounds` relates proposals,
  taken tokens and budget in each place of a round: it is what makes `taken` fit
  and the draft stay in its window.
  Of `DenseStore`: `DenseTypeCorrect`, `DenseBudgetRespected`, `DenseCountsAll`,
  for any readers, sizes and budget. `DenseInv` adds that no block is charged
  twice and that the threads are about blocks of the list; the lemmas say what
  the byte sum of a list is when a block moves to its end, is added, or the
  oldest are dropped (`BytesOfMore`, `MovedToEnd`, `SurvivorsAre`).
  Of `Forward`: `CacheImplementsKVCache`, step by step, and `CacheTypeCorrect`,
  for any window, page size, number of layers and length of the chunks. The text
  of the abstract cache is read from the first layer, which says nothing of the
  others, nor of a pass half-way: `CacheText` adds that each layer begins with
  the text (`Agrees`), and that those the pass has been through go on with its
  chunk. Below it are the loops over the pages: where their rounds begin
  (`RoundsAre`), what they write (`WriteIs`) and read (`GatherIs`), from the page
  and the place of a position (`CellOf`, `CellUnique`).
  `EachTextAloneAlways`, for every set of models that `validate` accepts, any
  scores and any size of an expert group. `ForwardInv` adds to the invariant of
  the cache that what went in is its text (`fed = Text`), so that a block gets
  the keys of its whole row, and that a block made its positions of a row
  (`Made`). The rest is about the operators: that a layer that does without a
  mask masks nothing it should (`AttendsToVisible`, where a sliding layer needs
  the window `validate` asks for), that a packed row is masked as its documents
  would be alone (`BeginIs`, `AttendsToDocument`), that the slice of an expert in
  the sorted pairs is what it is chosen for (`SlicedByExpert`, `SliceIs`), that
  one rank of a group has it (`OneOwner`), and so that each token goes through
  each of its experts once (`RunsOnce`).
* `Decoding_proofs`: `FitContextBounds` (what `fit_context` promises, for all
  naturals) and `StaysWithinWindow`, from `Counts`: the position is the kept
  prompt plus the tokens that were forwarded, one behind those sampled.
  `StopsNeverLeak` and `DeltasJoin`, for answers of every length, from `TextInv`:
  between two tokens what the caller holds is as long as the decoded text, equals
  it but for characters whose replacement was sent (`Alike`), and neither contains
  a stop sequence. That a token appends to the decoded text, or completes its
  last character, is an induction over the answer.
* `Dataset_proofs`: `CloseHashesShareABand` (two hashes that differ in fewer
  bits than there are bands agree on a band: a pigeonhole argument with
  `FS_Injection`) and `NearDuplicatesAreDropped` from it: the hashes the
  cleaner keeps are those of the kept documents, each far from those before.
  `ItemsArePiecesOfText` and `OwnersFollowTokens`, for every window, shard size
  and corpus, from `DataInv`: what the writer of a directory has recorded is the
  beginning of the text of its split, cut every `ShardSize` tokens (`Wrote`), the
  rest is in the buffer before it (`Follows`), the files agree with the records
  until another preparation rewrites them (`Stored`), owners are given to their
  writer as tokens are to theirs (`InStep`), and a saved manifest describes such
  a text whatever happens to the files (`ManifestInv`). They assume `Widths`: the
  reader takes the tokens to be as wide as the vocabulary asks for.
  `TrainingMatchesPrompting`, for conversations of every length, from `InPace`:
  after each message the turns that are rendered and the blocks of the prompt
  are the same, but for what is not answered yet. It assumes that no text ends in
  the heading of an answer, since texts are stripped (`data/records.py:54`,
  `inference/chat_template.py:87`) and the heading ends in a line break.
* `Serving_proofs`, of `Batching`: `EachGetsItsText`, for every model, sampler and
  number of requests. What `EachAsAlone` says is not inductive: the next token is drawn
  from what the cache holds, so `CacheIsText` adds that the cache of an
  unfinished request and what is fed to it are its whole text, also after a pass
  that raised. It speaks of requests whose sampler has not raised (`ahead`).
  Of `Serving`: `TypeCorrect`, `LockIsFollowed`, `OneAnswer`, `ChatHasText`,
  for any number of requests. `LInv` says what a generator may be in at each
  place of its thread; `Progress` what a client that stays has received there.
* `Mesh_proofs`, first of `Topology`, for meshes of every size:
  `RanksAreThePlaces` and `StagesFaceEachOther` (the layout is a bijection, what
  a stage sends to receives from it), `EveryStageHasLayers` and
  `EveryExpertHasOneOwner` (parts of `AcceptedIsUsable`, from what `validate`
  accepts), `ProposalsAreAccepted` (the planner weighs only such meshes). They
  rest on facts about quotients, the digits of a rank; so does `GradientGroup`,
  that the group in which a rank averages its gradients, as `init_parallel_groups`
  finds it with its nested loops, is all ranks with its slice of the model.
  `AcceptedIsUsableAlways`, for whatever the files, profiles, variables and
  overrides say, follows from the validation at the end of `Load` and the first
  theorems.
  `MetaListsOneStepAlways` and `ReplicasAgreeAlways` are about every job: any mesh,
  model, router, number of steps and failures. Whatever a step is, a rank stays
  where it is, makes its next call or goes on to its next handler (`NextMoves`), and
  each part of the invariants is shown for these three.
  `MeshInv` is what both rest on. What a rank has left of its handler is an end of the calls of
  that handler (`RestOfStep`, `RestsOfSave`), and the optimizer has run once for
  each step that is over: from the next call alone one can tell how far a rank is.
  `SavesInv`: the ranks exchange the hashes of a save in one step (`Together`), so no
  rank is a save ahead of rank 0 while it publishes; a file that is there is of
  the step of its label, or its rank died of writing it before the exchange
  (`ShardsFit`); and the list rank 0 was told is what the labels say (`ListsFit`).
  `MetaListsOneStep` alone is not inductive, for it says nothing of files before
  they are listed, nor that a rank cannot write under a label again unless it is the last.
  That there is a rank 0 is `LaunchAssumption`.
  `AverageInv`: replicas have averaged the same parameters, by number of step and
  parameter (`Matched`); the gradients of a rank are its own before that and those
  of all replicas after it (`SummedUp`), only of parameters the tokens reach
  (`OnlyReached`), and of all of those from the batches that are not still to come
  (`Pending`). The last two say what `param.grad is None` can mean in the loop of
  `sync_data_parallel_gradients`: by then no batch is to come, so a rank leaves out
  exactly the parameters no token of the step reaches on it, and these are the same
  on all replicas as long as the tokens are even (`EvenStep`). Ranks
  whose collectives complete together are then in the same step and parameter
  (`MatchedMeet`), though the process group compares neither. Past the first uneven
  step nothing is claimed: section 6.

Induction. The theorem modules of the library that take an operator cannot be
used with the installed provers, and a fold over a sequence is opaque to them.
The decoder, the stream of a split, the chains of configuration files, the loops
over messages and pages and the byte sums are therefore recursive functions, and the proofs use sets of numbers: a set with 0 that is
closed under successor is `Nat` (`Induction`, from the least element a
well-founded order gives), `LeastNumber`, `UpTo`, and `Recursion`, which gives a
function for each recursive definition over an interval.

Type invariants of the modules with proofs are theorems and no longer checked by
runs of their own, as are `LeasesExact` and `DraftNeverOverruns`.

Only model-checked: `LastWordWins` (what a fold over any number of layers leaves
in a place, an induction over data; it also speaks of disks on which one file
has a profile, as those of the run).
Out of the prover's reach: liveness under fairness (`WriteErrorSurfaces`,
`RunEnds`, `CloseStopsWorker`, `Terminates`, `EveryRequestEnds`,
`EveryRankEnds`), ENABLED, and sums that the models write with folds (those of
the sampler).

## 6. Where documentation and code differ

Shown by a run:

* `crash_overwrite`: files are written in place, and the last periodic save and
  the final save have the same label, so a crash in the second one leaves the
  published checkpoint unloadable (`CommittedSurvives` still holds with
  `keep_last_n` 2: an older one verifies).

Seen while modelling, each of them visible in the source but without a run of
its own. Checkpoints and training:

* `--checkpoint-interval` as long as the run, or an early stop before the next
  periodic save is due, leaves the final directory as the only one; resuming
  that run ends it at once and saves the same label again, in place: a crash
  then leaves nothing that loads. `keep_last_n` 1 does the same. These are the
  cases `SavesBeforeEnd` of `Training_proofs` excludes.
* With `keep_last_n` 1 and early stopping, a final save that dies before it is
  published leaves a directory `max_steps` with its `meta.json`; after the restart
  it makes pruning remove each periodic save at once, and `latest.json` dangles.
* An error of a background save that is pending when the loop raises is never
  reported: `fit` waits for the writer only on its normal way out
  (`training/trainer.py:162-166`).
* A background save copies model tensors that live on the GPU, but neither
  those on the CPU nor `optimizer.state_dict()` (`checkpointing/manager.py:191`;
  163-164 says "async_write copies tensors to CPU first"): it may mix two
  training states and still verify. With `Async = TRUE`
  `LoadedStateIsOneCapture` fails; it is checked and proved for synchronous
  saves.
* The training loader drops an incomplete batch (`cli/main.py:355`), while
  `cmd_train` refuses only a dataset without a window: with fewer windows than
  `batch_size`, `_cycle` (`training/trainer.py:178`) never yields and the run
  hangs without a message. `Training` takes it that there is a batch.

* A run resumed from an older step directory saves a checkpoint that its own
  pruning removes at once, since larger labels are kept
  (`checkpointing/manager.py:328`): `latest.json` dangles. The run `training`
  therefore has `ResumeFromStepDir = FALSE`; with it and three faults
  `CommittedSurvives` fails too.
* `_force_best_metric` (`training/trainer.py:398`) does not make the final
  checkpoint the best one.
* A NaN loss replaces the best checkpoint: `value >= best` is false
  (`checkpointing/manager.py:309`, `Improves`).
* After an early stop the final save is labelled `max_steps`
  (`training/trainer.py:162`), though fewer steps ran; `training` checks
  `LabelIsTrainingProgress` with that label as an exception.
* A resumed run draws its batches from the beginning of the stream again
  (`training/trainer.py:129`; `src/docs/training/process.md:57-58` says otherwise).

Inference:

* `_first_stop_cut` returns a string that `_stream` compares with a number
  (`inference/engine.py:288`): each answer that reaches a stop sequence raises
  `TypeError`, although `src/tests/inference/test_generation.py:35` expects the
  text before it; chat requests always carry stop sequences.
* A block larger than the budget stays in `_modules_cache` for ever
  (`inference/dense_store.py:214`): `NothingUncounted` excepts it, and with a
  budget below one block all blocks end up in memory.
* `_state_nbytes` counts tensors of `state_dict()`; the packed weights of
  dynamically quantized linears are none, so the budget admits more than it says.
* A target that chooses EOS where the draft proposed a token has EOS kept in the
  text and decoding goes on (`inference/speculative.py:62-69`); hence the
  condition `NoEos` of `GreedyWithoutEos`.
* A character of two tokens is streamed as U+FFFD when its first half arrives,
  and only what follows is streamed later (`inference/engine.py:291-294`), so
  the deltas do not join to the text; `JoinedIsText` excepts such answers.
* A native stream whose model raises, or whose sampling options are refused,
  gets a second status line in its body (`inference/server.py:377-387`);
  `AnswersOnce` excepts it.
* A request whose sampler raises is fed its last tokens again by the next step,
  though its cache has advanced over them (`inference/batching.py:53-54`):
  `EachAsAlone` excepts such requests.
* `ContinuousBatcher.step` loses its list when a pass raises: requests that
  finished earlier in that step are never reported, and those behind the failing
  one never run if it fails every time, as one beyond the window does. A budget
  of 0 still gives a token, an empty prompt raises, "Finished requests are
  removed on the next step" (`inference/batching.py:24`) is not so. Nothing in
  the package uses the class.
* With `expert_capacity_factor` an expert keeps as many tokens as the pass is
  long: what a token gets depends on the chunk it comes in, in inference too.
  `EachTextAlone` then only says that nothing is dropped below the capacity.
* `block` and `global-local` sparse layers count positions from the start of a
  packed row, so a document behind another one is not masked as it would be
  alone; `EachTextAlone` excepts sparse layers of packed rows.
* `close()` of the dense list is called by tests only. `NoThrashing` is stated
  for layers with room for one slot, and for the time between two decays: with
  two slots, or after a decay, an expert may win its place back sooner.

Data:

* Shards are read with the width of the vocabulary whatever `data.dtype` they
  were written with (`data/shards.py:146`): `uint32` shards of a vocabulary
  below 65536 are read as tokens and zeros in turn. `dataset` has `auto` widths.
* Only the checksums see an interrupted re-preparation, and `cmd_train`
  validates without them (`cli/main.py:339`). The owners in `train_docs` are not
  in the manifest at all, and those of an earlier packing preparation stay.
* "Exactly one token per shard boundary is sacrificed"
  (`src/docs/data/dataset-format.md:27`) holds only when the shard length is one
  more than a multiple of the sequence length.
* Consecutive user messages are joined in training and not in `/api/chat`;
  `TrainedAsPrompted` excepts such conversations.

Distributed training and configuration:

* Nothing calls `init_process_group`, and `cmd_train` gives every rank the same
  unsharded loader and its own `ExperimentRun.create`.
* Stages without the head return a loss of 0, so early stopping would end them
  at different steps; `Mesh` has it off. The head divides no loss by the number
  of micro-batches, and `clip_grad_norm` uses the norm of the rank's own slice.
* A rank that fails before `all_gather_object` leaves the others waiting.
* Under sequence parallelism the ranks of a tensor group hold different tokens,
  against "Replicated input" of `_ColumnParallel`; `Mesh` models the collectives
  of such a mesh, not the sums.
* A rank none of whose experts got a token returns zeros without a gradient
  (`models/components.py:410`), so its backward pass leaves out the `all_reduce`
  of `_SumReduce` (617-626) in which the rest of its expert group waits: the job
  hangs. The linears of an expert that runs on one rank of a tensor group only,
  as it may with a split sequence, do the same.
* An expert without a token on one replica has no gradient there and is skipped
  by `sync_data_parallel_gradients` (`distributed/groups.py:58`); its peers average
  it with the next parameter, or wait for ever. Under `fontaine train` all replicas
  have the same loader and seed, so the same batches, and differ only where the
  ranks of an expert group do; with a loader for each replica this is the common
  case. `ReplicasAgree` stands up to the first step that is not even (`EvenStep`),
  `EveryRankEnds` for runs with even tokens (`EvenTokens`); the run has routers of
  both sorts.
* The last save repeats a label when `max_steps` is a multiple of the interval: a
  rank that dies while it writes its shard again leaves a published `meta.json`
  with a file that is not as listed. `MetaListsOneStep` excepts that file alone.
* The planner proposes pipelines, and the configuration accepts them, for models
  whose embeddings are tied; `FontaineModel` then raises on every rank, after the
  groups are made (`models/transformer.py:85`). Tied is the default
  (`config/schema.py:72`) and what the model files of `src/configs` say. `Refuse` is
  that step; `EveryRankEnds` promises a run only to models with a head of their own.
* The planner compares sequence parallelism with `model.max_sequence_length`,
  the validation with `data.sequence_length`.
* A section that does not exist, or `optimizer.x` after folding, is dropped from
  `--set` without a word; a later file replaces a block (`attention`, `router`)
  as a whole; a later file's alias against an earlier file's plain name is
  refused.

## 7. Not modelled

Tensor arithmetic, losses and the draw of the sampler are free choices. Counters
of `stats()`, logging, wording of answers, static files and GET endpoints are
left out. `ExpertStore` leaves out `close()` (as in `DenseStore`) and the order
in which a pass asks for experts. Of the data path, text decoding, the regular
expressions of the redactor and `packing.py`, which the pipeline does not call,
are left out; of the configuration, YAML and JSON parsing, the coercion of single
values, and an empty block that replaces one. The two `betas` are two fields.
Quantisation, memory and hardware estimates, learning-rate schedules, loss
formulas, tokenizers, evaluation tasks, the agent sandbox and the format
conversion are sequential computations without state of their own that other
components rely on only for a number or a string; modelled as formulas they
would repeat the code. The web client keeps no state beyond one answer.
