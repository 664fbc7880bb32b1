--------------------------- MODULE CheckpointStore ---------------------------
(***************************************************************************)
(* The checkpoint directory of one training run and the CheckpointManager  *)
(* that owns it (src/src/fontaine/checkpointing/manager.py).               *)
(*                                                                         *)
(* A save is the sequence of file-system steps _write_snapshot performs,   *)
(* one action each, because a crash, an I/O error or (when the save runs   *)
(* on the background thread) the training loop can come between any two.   *)
(* model.pt, optimizer.pt and rng.pt are written in place; meta.json and   *)
(* the pointers go through atomic_write_json and change in one step.       *)
(*                                                                         *)
(* A hash is modelled by the content it was computed from: comparing two   *)
(* SHA-256 digests is comparing the contents.                              *)
(***************************************************************************)
EXTENDS Integers, FiniteSets

CONSTANTS
  Labels,      \* steps a save may be labelled with (directory step_<label>)
  Versions,    \* states the model and optimizer can be in
  Losses,      \* values of the tracked metric (val_loss, mode "min")
  NaN,         \* the loss of a diverged run; may or may not be in Losses
  KeepLastN,   \* keep_last_n
  Async,       \* async_write: the save finishes on a background thread
  Device,      \* "cpu" or "cuda": where the parameters live
  MaxFaults    \* bound on crashes, I/O errors and failed unlinks

NoLoss == 0    \* the save carries no metric value
NoStep == 0    \* the pointer file does not exist

ASSUME LabelsAssumption    == Labels \subseteq Nat \ {NoStep}
ASSUME LossesAssumption    == Losses \subseteq Nat \ {NoLoss} /\ NaN \in Nat \ {NoLoss}
ASSUME VersionsAssumption  == Versions # {}
ASSUME KeepLastNAssumption == KeepLastN \in Nat \ {0}
ASSUME AsyncAssumption     == Async \in BOOLEAN
ASSUME DeviceAssumption    == Device \in {"cpu", "cuda"}
ASSUME MaxFaultsAssumption == MaxFaults \in Nat

VARIABLES
  disk,        \* step directories: what exists, file contents, recorded hashes
  latest,      \* label latest.json points to, or NoStep
  best,        \* what best.json holds: [step, loss]
  writer,      \* the save in progress
  writeError,  \* an exception the save raised and nobody has seen yet
  live,        \* the version the model and optimizer tensors hold in memory
  faults       \* faults injected so far

vars == <<disk, latest, best, writer, writeError, live, faults>>

-----------------------------------------------------------------------------
(* Files, directories and the record of a save in progress.                *)

FileNames == {"model", "optimizer", "rng"}

\* The order in which _write_snapshot writes them.
NextFile(f) == CASE f = "model"     -> "optimizer"
                 [] f = "optimizer" -> "rng"
                 [] OTHER           -> "none"

NoVersion == CHOOSE v \in Versions : TRUE

\* A whole file holds tensors read between the version `from` and the version
\* `to`: the two differ when training went on while torch.save serialised them.
Contents == [state : {"absent", "torn", "whole"}, from : Versions, to : Versions]

Absent      == [state |-> "absent", from |-> NoVersion, to |-> NoVersion]
Torn        == [state |-> "torn", from |-> NoVersion, to |-> NoVersion]
Whole(v, w) == [state |-> "whole", from |-> v, to |-> w]

NoFiles == [f \in FileNames |-> Absent]

\* `hash` and `loss` are what meta.json records (files and metric); they mean
\* nothing while `meta` is FALSE.
Directory == [exists : BOOLEAN, meta : BOOLEAN, loss : Losses \cup {NoLoss},
              file : [FileNames -> Contents], hash : [FileNames -> Contents]]

NoDirectory == [exists |-> FALSE, meta |-> FALSE, loss |-> NoLoss,
                file |-> NoFiles, hash |-> NoFiles]

Writer == [pc : {"idle", "mkdir", "open", "close", "meta", "latest", "best",
                 "prune", "rmtree"},
           step : Labels \cup {NoStep}, loss : Losses \cup {NoLoss},
           snap : Versions, file : FileNames \cup {"none"}, from : Versions,
           hash : [FileNames -> Contents], victims : SUBSET Labels]

Idle == [pc |-> "idle", step |-> NoStep, loss |-> NoLoss, snap |-> NoVersion,
         file |-> "none", from |-> NoVersion, hash |-> NoFiles, victims |-> {}]

Saving == writer.pc # "idle"

Init ==
  /\ disk = [d \in Labels |-> NoDirectory]
  /\ latest = NoStep
  /\ best = [step |-> NoStep, loss |-> NoLoss]
  /\ writer = Idle
  /\ writeError = FALSE
  /\ live \in Versions
  /\ faults = 0

-----------------------------------------------------------------------------
(* save(): wait() for the previous save, then take the snapshot.           *)

\* wait() found the exception of an earlier background write and raises it.
RaiseWriteError ==
  /\ ~Saving
  /\ writeError
  /\ writeError' = FALSE
  /\ UNCHANGED <<disk, latest, best, writer, live, faults>>

BeginSave(label, loss) ==
  /\ ~Saving
  /\ ~writeError
  /\ writer' = [Idle EXCEPT !.pc = "mkdir", !.step = label, !.loss = loss,
                            !.snap = live, !.file = "model"]
  /\ UNCHANGED <<disk, latest, best, writeError, live, faults>>

-----------------------------------------------------------------------------
(* _write_snapshot(), step by step.                                        *)

MakeDirectory ==
  /\ writer.pc = "mkdir"
  /\ disk' = [disk EXCEPT ![writer.step].exists = TRUE]
  /\ writer' = [writer EXCEPT !.pc = "open"]
  /\ UNCHANGED <<latest, best, writeError, live, faults>>

\* The snapshot shares storage with the live tensors: optimizer.state_dict()
\* always, and _to_cpu_state_dict when the tensors are on the CPU already,
\* because .to("cpu") then returns the tensor itself.
SharesStorage(f) == f = "optimizer" \/ (f = "model" /\ Device = "cpu")

Serialised(f) == IF SharesStorage(f) THEN live ELSE writer.snap

\* torch.save opens the final path for writing: the old contents are gone.
OpenFile ==
  /\ writer.pc = "open"
  /\ disk' = [disk EXCEPT ![writer.step].file[writer.file] = Torn]
  /\ writer' = [writer EXCEPT !.pc = "close", !.from = Serialised(writer.file)]
  /\ UNCHANGED <<latest, best, writeError, live, faults>>

\* Mutant: latest.json is published before meta.json is written.
CloseFile_PointerFirst ==
  LET content == Whole(writer.from, Serialised(writer.file))
      next    == NextFile(writer.file)
  IN /\ writer.pc = "close"
     /\ disk' = [disk EXCEPT ![writer.step].file[writer.file] = content]
     /\ writer' = [writer EXCEPT !.hash[writer.file] = content,
                                 !.from = NoVersion,
                                 !.file = next,
                                 !.pc = IF next = "none" THEN "latest" ELSE "open"]
     /\ UNCHANGED <<latest, best, writeError, live, faults>>

\* torch.save returns and sha256_file reads the file back.
CloseFile ==
  LET content == Whole(writer.from, Serialised(writer.file))
      next    == NextFile(writer.file)
  IN /\ writer.pc = "close"
     /\ disk' = [disk EXCEPT ![writer.step].file[writer.file] = content]
     /\ writer' = [writer EXCEPT !.hash[writer.file] = content,
                                 !.from = NoVersion,
                                 !.file = next,
                                 !.pc = IF next = "none" THEN "meta" ELSE "open"]
     /\ UNCHANGED <<latest, best, writeError, live, faults>>

WriteMeta ==
  /\ writer.pc = "meta"
  /\ disk' = [disk EXCEPT ![writer.step].meta = TRUE,
                          ![writer.step].loss = writer.loss,
                          ![writer.step].hash = writer.hash]
  /\ writer' = [writer EXCEPT !.pc = "latest"]
  /\ UNCHANGED <<latest, best, writeError, live, faults>>

PublishLatest ==
  /\ writer.pc = "latest"
  /\ latest' = writer.step
  /\ writer' = [writer EXCEPT !.pc = IF writer.loss = NoLoss THEN "prune" ELSE "best"]
  /\ UNCHANGED <<disk, best, writeError, live, faults>>

\* IEEE comparison: every comparison with NaN is false.
GreaterOrEqual(x, y) == x # NaN /\ y # NaN /\ x >= y

\* _maybe_update_best keeps the pointer when the new value is >= the recorded one.
Improves(loss) == best.step = NoStep \/ ~GreaterOrEqual(loss, best.loss)

\* Mutant: the pointer moves even when the metric did not improve.
UpdateBest_KeepsOldLoss ==
  /\ writer.pc = "best"
  /\ best' = [step |-> writer.step,
              loss |-> IF Improves(writer.loss) THEN writer.loss ELSE best.loss]
  /\ writer' = [writer EXCEPT !.pc = "prune"]
  /\ UNCHANGED <<disk, latest, writeError, live, faults>>

UpdateBest ==
  /\ writer.pc = "best"
  /\ best' = IF Improves(writer.loss)
             THEN [step |-> writer.step, loss |-> writer.loss]
             ELSE best
  /\ writer' = [writer EXCEPT !.pc = "prune"]
  /\ UNCHANGED <<disk, latest, writeError, live, faults>>

Existing == {d \in Labels : disk[d].exists}

\* Mutants: one directory too few is kept; the oldest are kept.
Excess_OffByOne == {d \in Existing : Cardinality({e \in Existing : e > d}) >= KeepLastN - 1}
Excess_KeepsOldest == {d \in Existing : Cardinality({e \in Existing : e < d}) >= KeepLastN}

\* All step directories, complete or not, but the KeepLastN with the largest labels.
Excess == {d \in Existing : Cardinality({e \in Existing : e > d}) >= KeepLastN}

\* Mutant: the best checkpoint is not exempt.
ListVictims_ForgetsBest ==
  /\ writer.pc = "prune"
  /\ writer' = IF Excess = {} THEN Idle
               ELSE [writer EXCEPT !.pc = "rmtree", !.victims = Excess]
  /\ UNCHANGED <<disk, latest, best, writeError, live, faults>>

ListVictims ==
  /\ writer.pc = "prune"
  /\ LET victims == Excess \ {best.step}
     IN writer' = IF victims = {} THEN Idle
                  ELSE [writer EXCEPT !.pc = "rmtree", !.victims = victims]
  /\ UNCHANGED <<disk, latest, best, writeError, live, faults>>

\* What is left of a directory when only the files in `kept` survive.
Remains(dir, kept) ==
  IF kept = {} THEN NoDirectory
  ELSE [dir EXCEPT !.meta = dir.meta /\ "meta" \in kept,
                   !.loss = IF "meta" \in kept THEN dir.loss ELSE NoLoss,
                   !.hash = IF "meta" \in kept THEN dir.hash ELSE NoFiles,
                   !.file = [f \in FileNames |->
                               IF f \in kept THEN dir.file[f] ELSE Absent]]

\* shutil.rmtree(victim, ignore_errors=True): unlinks in directory order, and
\* a file that cannot be removed stays behind without an error.
RemoveDirectory ==
  /\ writer.pc = "rmtree"
  /\ \E kept \in SUBSET (FileNames \cup {"meta"}) :
       LET victim == CHOOSE d \in writer.victims : \A e \in writer.victims : d <= e
           rest   == writer.victims \ {victim}
       IN /\ kept # {} => faults < MaxFaults
          /\ faults' = IF kept = {} THEN faults ELSE faults + 1
          /\ disk' = [disk EXCEPT ![victim] = Remains(disk[victim], kept)]
          /\ writer' = IF rest = {} THEN Idle ELSE [writer EXCEPT !.victims = rest]
  /\ UNCHANGED <<latest, best, writeError, live>>

\* mkdir, torch.save or an atomic JSON write raises (disk full, permissions), or
\* reading best.json or listing the directories does; rmtree never raises.
SaveFails ==
  /\ writer.pc \in {"mkdir", "open", "close", "meta", "latest", "best", "prune"}
  /\ faults < MaxFaults
  /\ faults' = faults + 1
  /\ writeError' = TRUE
  /\ writer' = Idle
  /\ UNCHANGED <<disk, latest, best, live>>

WriterStep ==
  \/ MakeDirectory \/ OpenFile \/ CloseFile \/ WriteMeta
  \/ PublishLatest \/ UpdateBest \/ ListVictims \/ RemoveDirectory

-----------------------------------------------------------------------------
(* load(), the training loop's use of the tensors, and process crashes.    *)

\* Mutant: load() without the hash comparison.
Loadable_NoHashes(d) == /\ disk[d].exists
                        /\ disk[d].meta
                        /\ \A f \in FileNames : disk[d].file[f].state # "absent"

\* _pointer_path, the meta.json test and _verify all succeed.
Loadable(d) == /\ disk[d].exists
               /\ disk[d].meta
               /\ \A f \in FileNames : disk[d].file[f].state # "absent"
               /\ disk[d].file = disk[d].hash

Load(d) ==
  /\ ~Saving
  /\ Loadable(d)
  /\ live' = disk[d].file["model"].to
  /\ UNCHANGED <<disk, latest, best, writer, writeError, faults>>

\* The optimizer updates the tensors in place. A synchronous save holds the
\* training thread until it returns; a background save does not.
Mutate(v) ==
  /\ Saving => Async
  /\ live' = v
  /\ UNCHANGED <<disk, latest, best, writer, writeError, faults>>

\* The process dies; what is on the disk stays, an open file stays torn.
Crash ==
  /\ faults < MaxFaults
  /\ faults' = faults + 1
  /\ writer' = Idle
  /\ writeError' = FALSE
  /\ UNCHANGED <<disk, latest, best, live>>

Next ==
  \/ \E label \in Labels, loss \in Losses \cup {NoLoss} : BeginSave(label, loss)
  \/ RaiseWriteError
  \/ WriterStep
  \/ SaveFails
  \/ \E d \in Labels : Load(d)
  \/ \E v \in Versions : Mutate(v)
  \/ Crash

Spec == Init /\ [][Next]_vars

-----------------------------------------------------------------------------
(* Properties.                                                             *)

TypeOK ==
  /\ disk \in [Labels -> Directory]
  /\ latest \in Labels \cup {NoStep}
  /\ best \in [step : Labels \cup {NoStep}, loss : Losses \cup {NoLoss}]
  /\ writer \in Writer
  /\ writeError \in BOOLEAN
  /\ live \in Versions
  /\ faults \in 0..MaxFaults

\* All files of a directory come from one capture of the training state.
OneCapture(d) == \E v \in Versions : \A f \in FileNames : disk[d].file[f] = Whole(v, v)

\* Whatever crashed, failed or was overwritten before, a directory that
\* load() accepts holds the model, optimizer and RNG state of one and the
\* same moment: a half-overwritten directory never verifies against the
\* meta.json of the save it replaces (_verify, manager.py:384-395).
LoadedStateIsOneCapture == \A d \in Labels : Loadable(d) => OneCapture(d)

\* latest.json moves only to a directory that verifies at that moment: the
\* pointer is published after the files and meta.json, never before.
PointerFollowsFiles == [][latest' # latest => Loadable(latest)']_vars

\* Pruning, however it is interleaved with saves, crashes and failed
\* unlinks, never removes the directory best.json points to.
BestDirectoryKept == best.step # NoStep => disk[best.step].exists
=============================================================================
