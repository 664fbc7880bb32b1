------------------------ MODULE CheckpointStore_proofs ------------------------
(***************************************************************************)
(* Proofs about the checkpoint directory, for every set of labels,         *)
(* versions and losses, every KeepLastN and any number of faults:          *)
(*   - the type invariant;                                                 *)
(*   - with synchronous saves, a directory load() accepts holds one        *)
(*     capture of the training state, whatever crashed or failed before;   *)
(*   - pruning spares the best directory, and latest.json moves only to a  *)
(*     directory that verifies, for synchronous and background saves.      *)
(***************************************************************************)
EXTENDS CheckpointStore, WellFoundedInduction, TLAPS

LEMMA NoVersionType == NoVersion \in Versions
  BY VersionsAssumption DEF NoVersion

LEMMA NoFilesType == NoFiles \in [FileNames -> Contents]
  BY NoVersionType DEF NoFiles, Absent, Contents

LEMMA WholeType ==
  ASSUME NEW v \in Versions, NEW w \in Versions
  PROVE  Whole(v, w) \in Contents
  BY DEF Whole, Contents

LEMMA IdleType == Idle \in Writer
  BY NoVersionType, NoFilesType DEF Idle, Writer

LEMMA NoDirectoryType == NoDirectory \in Directory
  BY NoFilesType DEF NoDirectory, Directory

\* What rmtree leaves behind is still a directory record.
LEMMA RemainsType ==
  ASSUME NEW dir \in Directory, NEW kept \in SUBSET (FileNames \cup {"meta"})
  PROVE  Remains(dir, kept) \in Directory
  <1>1. Absent \in Contents
    BY NoVersionType DEF Absent, Contents
  <1>2. CASE kept = {}
    BY <1>2, NoDirectoryType DEF Remains
  <1>3. CASE kept # {}
    BY <1>1, <1>3, NoFilesType DEF Remains, Directory
  <1>4. QED
    BY <1>2, <1>3

LEMMA SerialisedType ==
  ASSUME TypeOK, NEW f \in FileNames
  PROVE  Serialised(f) \in Versions
  BY DEF TypeOK, Serialised, Writer

-----------------------------------------------------------------------------
LEMMA InitTypeOK == Init => TypeOK
  <1> SUFFICES ASSUME Init PROVE TypeOK
    OBVIOUS
  <1>1. disk \in [Labels -> Directory]
    BY NoDirectoryType DEF Init
  <1>2. best \in [step : Labels \cup {NoStep}, loss : Losses \cup {NoLoss}]
    BY DEF Init
  <1>3. latest \in Labels \cup {NoStep} /\ writeError \in BOOLEAN /\ live \in Versions
    BY DEF Init
  <1>4. faults \in 0..MaxFaults
    BY MaxFaultsAssumption DEF Init
  <1>5. QED
    BY <1>1, <1>2, <1>3, <1>4, IdleType DEF Init, TypeOK

LEMMA StepTypeOK == TypeOK /\ [Next]_vars => TypeOK'
  <1> SUFFICES ASSUME TypeOK, [Next]_vars PROVE TypeOK'
    OBVIOUS
  <1> USE MaxFaultsAssumption
  <1>1. ASSUME NEW label \in Labels, NEW loss \in Losses \cup {NoLoss},
               BeginSave(label, loss)
        PROVE  TypeOK'
    <2>1. writer' \in Writer
      BY <1>1, IdleType, NoFilesType, NoVersionType
         DEF BeginSave, Writer, Idle, TypeOK, FileNames
    <2>2. QED
      BY <1>1, <2>1 DEF BeginSave, TypeOK
  <1>2. CASE RaiseWriteError
    BY <1>2 DEF RaiseWriteError, TypeOK
  <1>3. CASE MakeDirectory
    <2>1. disk' \in [Labels -> Directory]
      BY <1>3 DEF MakeDirectory, TypeOK, Directory
    <2>2. writer' \in Writer
      BY <1>3 DEF MakeDirectory, TypeOK, Writer
    <2>3. QED
      BY <1>3, <2>1, <2>2 DEF MakeDirectory, TypeOK
  <1>4. CASE OpenFile
    <2>1. Torn \in Contents
      BY NoVersionType DEF Torn, Contents
    <2>2. disk' \in [Labels -> Directory]
      BY <1>4, <2>1 DEF OpenFile, TypeOK, Directory
    <2>3. Serialised(writer.file) \in Versions
      BY DEF TypeOK, Serialised, Writer
    <2>4. writer' \in Writer
      BY <1>4, <2>3 DEF OpenFile, TypeOK, Writer
    <2>5. QED
      BY <1>4, <2>2, <2>4 DEF OpenFile, TypeOK
  <1>5. CASE CloseFile
    <2> DEFINE content == Whole(writer.from, Serialised(writer.file))
    <2>1. Serialised(writer.file) \in Versions
      BY DEF TypeOK, Serialised, Writer
    <2>2. content \in Contents
      BY <2>1, WholeType DEF TypeOK, Writer
    <2>3. disk' \in [Labels -> Directory]
      <3> HIDE DEF content
      <3>1. disk' = [disk EXCEPT ![writer.step].file[writer.file] = content]
        BY <1>5 DEF CloseFile, content
      <3>2. QED
        BY <2>2, <3>1 DEF TypeOK, Directory
    <2>4. NextFile(writer.file) \in FileNames \cup {"none"}
      BY DEF NextFile, FileNames
    <2>5. writer' \in Writer
      <3> HIDE DEF content
      <3>1. writer' = [writer EXCEPT !.hash[writer.file] = content,
                         !.from = NoVersion, !.file = NextFile(writer.file),
                         !.pc = IF NextFile(writer.file) = "none" THEN "meta" ELSE "open"]
        BY <1>5 DEF CloseFile, content
      <3>2. QED
        BY <2>2, <2>4, <3>1, NoVersionType DEF TypeOK, Writer
    <2>6. QED
      BY <1>5, <2>3, <2>5 DEF CloseFile, TypeOK
  <1>6. CASE WriteMeta
    <2>1. disk' \in [Labels -> Directory]
      <3>1. writer.hash \in [FileNames -> Contents] /\ writer.loss \in Losses \cup {NoLoss}
        BY DEF TypeOK, Writer
      <3>2. disk' = [disk EXCEPT ![writer.step] =
                       [[[@ EXCEPT !.meta = TRUE] EXCEPT !.loss = writer.loss]
                           EXCEPT !.hash = writer.hash]]
        BY <1>6 DEF WriteMeta, TypeOK
      <3>3. ASSUME NEW dir \in Directory
            PROVE  [[[dir EXCEPT !.meta = TRUE] EXCEPT !.loss = writer.loss]
                      EXCEPT !.hash = writer.hash] \in Directory
        BY <3>1 DEF Directory
      <3>4. QED
        BY <3>2, <3>3 DEF TypeOK
    <2>2. writer' \in Writer
      BY <1>6 DEF WriteMeta, TypeOK, Writer
    <2>3. QED
      BY <1>6, <2>1, <2>2 DEF WriteMeta, TypeOK
  <1>7. CASE PublishLatest
    <2>1. writer' \in Writer
      BY <1>7 DEF PublishLatest, TypeOK, Writer
    <2>2. latest' \in Labels \cup {NoStep}
      BY <1>7 DEF PublishLatest, TypeOK, Writer
    <2>3. QED
      BY <1>7, <2>1, <2>2 DEF PublishLatest, TypeOK
  <1>8. CASE UpdateBest
    <2>1. writer' \in Writer
      BY <1>8 DEF UpdateBest, TypeOK, Writer
    <2>2. best' \in [step : Labels \cup {NoStep}, loss : Losses \cup {NoLoss}]
      BY <1>8 DEF UpdateBest, TypeOK, Writer
    <2>3. QED
      BY <1>8, <2>1, <2>2 DEF UpdateBest, TypeOK
  <1>9. CASE ListVictims
    <2>1. Excess \ {best.step} \in SUBSET Labels
      BY DEF Excess, Existing
    <2>2. writer' \in Writer
      BY <1>9, <2>1, IdleType DEF ListVictims, TypeOK, Writer
    <2>3. QED
      BY <1>9, <2>2 DEF ListVictims, TypeOK
  <1>10. CASE RemoveDirectory
    <2> DEFINE victim == CHOOSE d \in writer.victims : \A e \in writer.victims : d <= e
    <2>1. PICK kept \in SUBSET (FileNames \cup {"meta"}) :
            /\ kept # {} => faults < MaxFaults
            /\ faults' = IF kept = {} THEN faults ELSE faults + 1
            /\ disk' = [disk EXCEPT ![victim] = Remains(disk[victim], kept)]
            /\ writer' = IF writer.victims \ {victim} = {} THEN Idle
                         ELSE [writer EXCEPT !.victims = writer.victims \ {victim}]
      BY <1>10 DEF RemoveDirectory
    <2> HIDE DEF victim
    <2>2. disk' \in [Labels -> Directory]
      BY <2>1, RemainsType DEF TypeOK
    <2>3. writer' \in Writer
      BY <2>1, IdleType DEF TypeOK, Writer
    <2>4. faults' \in 0..MaxFaults
      BY <2>1 DEF TypeOK
    <2>5. QED
      BY <1>10, <2>2, <2>3, <2>4 DEF RemoveDirectory, TypeOK
  <1>11. CASE SaveFails
    BY <1>11, IdleType DEF SaveFails, TypeOK
  <1>12. ASSUME NEW d \in Labels, Load(d) PROVE TypeOK'
    <2>1. live' \in Versions
      BY <1>12 DEF Load, TypeOK, Directory, Contents, FileNames
    <2>2. QED
      BY <1>12, <2>1 DEF Load, TypeOK
  <1>13. ASSUME NEW v \in Versions, Mutate(v) PROVE TypeOK'
    BY <1>13 DEF Mutate, TypeOK
  <1>14. CASE Crash
    <2>1. writeError' \in BOOLEAN
      BY <1>14 DEF Crash
    <2>2. faults' \in 0..MaxFaults
      BY <1>14 DEF Crash, TypeOK
    <2>3. QED
      BY <1>14, <2>1, <2>2, IdleType DEF Crash, TypeOK
  <1>15. CASE UNCHANGED vars
    BY <1>15 DEF vars, TypeOK
  <1>16. QED
    BY <1>1, <1>2, <1>3, <1>4, <1>5, <1>6, <1>7, <1>8, <1>9, <1>10, <1>11, <1>12,
       <1>13, <1>14, <1>15 DEF Next, WriterStep

\* Every reachable state is well typed: TypeOK is an invariant of the store.
THEOREM TypeCorrect == Spec => []TypeOK
  BY InitTypeOK, StepTypeOK, PTL DEF Spec

-----------------------------------------------------------------------------
(* One capture per directory, for synchronous saves.                       *)

\* The files of the save in progress that are written and hashed.
Hashed ==
  IF writer.pc \in {"mkdir", "open", "close"}
  THEN CASE writer.file = "model"     -> {}
         [] writer.file = "optimizer" -> {"model"}
         [] OTHER                     -> {"model", "optimizer"}
  ELSE FileNames

\* A meta.json records the hashes of one capture.
MetaIsOneCapture ==
  \A d \in Labels : disk[d].meta =>
    \E v \in Versions : \A f \in FileNames : disk[d].hash[f] = Whole(v, v)

\* While a save runs the tensors do not move, so everything it has written so
\* far is the snapshot.
WriterHoldsSnapshot ==
  Saving => /\ live = writer.snap
            /\ \A f \in Hashed : writer.hash[f] = Whole(writer.snap, writer.snap)
            /\ writer.pc = "close" => writer.from = writer.snap
            /\ writer.pc \in {"mkdir", "open", "close"} => writer.file # "none"

CaptureInv == MetaIsOneCapture /\ WriterHoldsSnapshot

LEMMA CaptureInit == Init => CaptureInv
  BY DEF Init, CaptureInv, MetaIsOneCapture, WriterHoldsSnapshot, NoDirectory, Idle, Saving

LEMMA IdleHoldsSnapshot == writer' = Idle => WriterHoldsSnapshot'
  BY DEF Idle, WriterHoldsSnapshot, Saving

\* Steps that leave every directory's meta.json alone.
LEMMA MetaUntouched ==
  ASSUME MetaIsOneCapture, \A d \in Labels : disk'[d].meta = disk[d].meta
                                          /\ disk'[d].hash = disk[d].hash
  PROVE  MetaIsOneCapture'
  BY DEF MetaIsOneCapture

LEMMA CaptureStep ==
  ASSUME ~Async, TypeOK, CaptureInv, [Next]_vars
  PROVE  CaptureInv'
  <1> USE DEF CaptureInv
  <1>1. ASSUME NEW label \in Labels, NEW loss \in Losses \cup {NoLoss},
               BeginSave(label, loss)
        PROVE  CaptureInv'
    <2>1. MetaIsOneCapture'
      BY <1>1, MetaUntouched DEF BeginSave
    <2>2. WriterHoldsSnapshot'
      BY <1>1 DEF BeginSave, WriterHoldsSnapshot, Idle, Hashed, Saving
    <2>3. QED
      BY <2>1, <2>2
  <1>2. CASE RaiseWriteError
    BY <1>2, MetaUntouched DEF RaiseWriteError, WriterHoldsSnapshot, Hashed, Saving
  <1>3. CASE MakeDirectory
    <2>1. MetaIsOneCapture'
      BY <1>3, MetaUntouched DEF MakeDirectory, TypeOK, Directory
    <2>2. WriterHoldsSnapshot'
      BY <1>3 DEF MakeDirectory, WriterHoldsSnapshot, Hashed, Saving, TypeOK, Writer
    <2>3. QED
      BY <2>1, <2>2
  <1>4. CASE OpenFile
    <2>1. MetaIsOneCapture'
      BY <1>4, MetaUntouched DEF OpenFile, TypeOK, Directory
    <2>2. WriterHoldsSnapshot'
      BY <1>4 DEF OpenFile, WriterHoldsSnapshot, Hashed, Saving, TypeOK, Writer, Serialised
    <2>3. QED
      BY <2>1, <2>2
  <1>5. CASE CloseFile
    <2> DEFINE content == Whole(writer.from, Serialised(writer.file))
    <2>1. content = Whole(writer.snap, writer.snap)
      BY <1>5 DEF CloseFile, WriterHoldsSnapshot, Saving, Serialised
    <2> HIDE DEF content
    <2>2. /\ disk' = [disk EXCEPT ![writer.step].file[writer.file] = content]
          /\ writer' = [writer EXCEPT !.hash[writer.file] = content,
                         !.from = NoVersion, !.file = NextFile(writer.file),
                         !.pc = IF NextFile(writer.file) = "none" THEN "meta" ELSE "open"]
          /\ UNCHANGED live
          /\ writer.pc = "close"
      BY <1>5 DEF CloseFile, content
    <2>3. MetaIsOneCapture'
      <3>1. \A d \in Labels : disk'[d].meta = disk[d].meta /\ disk'[d].hash = disk[d].hash
        BY <2>2 DEF TypeOK, Directory
      <3>2. QED
        BY <3>1, MetaUntouched
    <2>4. WriterHoldsSnapshot'
      <3>1. writer.file \in FileNames /\ writer.hash \in [FileNames -> Contents]
        BY <2>2 DEF WriterHoldsSnapshot, Saving, TypeOK, Writer
      <3>2. /\ writer'.snap = writer.snap /\ live' = live
            /\ writer'.file = NextFile(writer.file)
            /\ writer'.pc = IF NextFile(writer.file) = "none" THEN "meta" ELSE "open"
            /\ writer'.hash = [writer.hash EXCEPT ![writer.file] = content]
        BY <2>2 DEF TypeOK, Writer
      <3>3. Hashed' = Hashed \cup {writer.file}
        BY <2>2, <3>1, <3>2 DEF Hashed, NextFile, FileNames
      <3>4. \A f \in Hashed' : writer'.hash[f] = Whole(writer.snap, writer.snap)
        <4>1. Hashed \subseteq FileNames
          BY DEF Hashed, FileNames
        <4>2. QED
          BY <2>1, <2>2, <3>1, <3>2, <3>3, <4>1 DEF WriterHoldsSnapshot, Saving
      <3>5. QED
        BY <2>2, <3>1, <3>2, <3>4 DEF WriterHoldsSnapshot, Saving, NextFile, FileNames
    <2>5. QED
      BY <2>3, <2>4
  <1>6. CASE WriteMeta
    <2>1. \A f \in FileNames : writer.hash[f] = Whole(writer.snap, writer.snap)
      BY <1>6 DEF WriteMeta, WriterHoldsSnapshot, Hashed, Saving
    <2>2. writer.snap \in Versions
      BY DEF TypeOK, Writer
    <2>3. MetaIsOneCapture'
      <3> SUFFICES ASSUME NEW d \in Labels, disk'[d].meta
                   PROVE  \E v \in Versions : \A f \in FileNames :
                            disk'[d].hash[f] = Whole(v, v)
        BY DEF MetaIsOneCapture
      <3>1. CASE d = writer.step
        <4>1. disk'[d].hash = writer.hash
          BY <1>6, <3>1 DEF WriteMeta, TypeOK, Directory
        <4>2. QED
          BY <2>1, <2>2, <4>1
      <3>2. CASE d # writer.step
        <4>1. disk'[d] = disk[d]
          BY <1>6, <3>2 DEF WriteMeta, TypeOK
        <4>2. QED
          BY <4>1 DEF MetaIsOneCapture
      <3>3. QED
        BY <3>1, <3>2
    <2>4. WriterHoldsSnapshot'
      BY <1>6 DEF WriteMeta, WriterHoldsSnapshot, Hashed, Saving, TypeOK, Writer
    <2>5. QED
      BY <2>3, <2>4
  <1>7. CASE PublishLatest
    <2>1. MetaIsOneCapture'
      BY <1>7, MetaUntouched DEF PublishLatest
    <2>2. WriterHoldsSnapshot'
      BY <1>7 DEF PublishLatest, WriterHoldsSnapshot, Hashed, Saving, TypeOK, Writer
    <2>3. QED
      BY <2>1, <2>2
  <1>8. CASE UpdateBest
    <2>1. MetaIsOneCapture'
      BY <1>8, MetaUntouched DEF UpdateBest
    <2>2. WriterHoldsSnapshot'
      BY <1>8 DEF UpdateBest, WriterHoldsSnapshot, Hashed, Saving, TypeOK, Writer
    <2>3. QED
      BY <2>1, <2>2
  <1>9. CASE ListVictims
    <2>1. MetaIsOneCapture'
      BY <1>9, MetaUntouched DEF ListVictims
    <2>2. WriterHoldsSnapshot'
      <3>1. CASE writer' = Idle
        BY <3>1, IdleHoldsSnapshot
      <3>2. CASE writer' = [writer EXCEPT !.pc = "rmtree",
                                          !.victims = Excess \ {best.step}]
        BY <1>9, <3>2 DEF ListVictims, WriterHoldsSnapshot, Hashed, Saving, TypeOK, Writer
      <3>3. QED
        BY <1>9, <3>1, <3>2 DEF ListVictims
    <2>3. QED
      BY <2>1, <2>2
  <1>10. CASE RemoveDirectory
    <2> DEFINE victim == CHOOSE d \in writer.victims : \A e \in writer.victims : d <= e
    <2>1. PICK kept \in SUBSET (FileNames \cup {"meta"}) :
            /\ disk' = [disk EXCEPT ![victim] = Remains(disk[victim], kept)]
            /\ writer' = IF writer.victims \ {victim} = {} THEN Idle
                         ELSE [writer EXCEPT !.victims = writer.victims \ {victim}]
            /\ UNCHANGED live /\ writer.pc = "rmtree"
      BY <1>10 DEF RemoveDirectory
    <2> HIDE DEF victim
    <2>2. MetaIsOneCapture'
      <3> SUFFICES ASSUME NEW d \in Labels, disk'[d].meta
                   PROVE  \E v \in Versions : \A f \in FileNames :
                            disk'[d].hash[f] = Whole(v, v)
        BY DEF MetaIsOneCapture
      <3>1. disk[d] \in Directory
        BY DEF TypeOK
      <3>2. disk[d].meta /\ disk'[d].hash = disk[d].hash
        <4>1. CASE d # victim
          BY <2>1, <4>1 DEF TypeOK
        <4>2. CASE d = victim
          <5>1. disk'[d] = Remains(disk[d], kept)
            BY <2>1, <4>2 DEF TypeOK
          <5>2. kept # {}
            BY <5>1 DEF Remains, NoDirectory
          <5>3. QED
            BY <3>1, <5>1, <5>2 DEF Remains, Directory
        <4>3. QED
          BY <4>1, <4>2
      <3>3. QED
        BY <3>2 DEF MetaIsOneCapture
    <2>3. WriterHoldsSnapshot'
      <3>1. CASE writer' = Idle
        BY <3>1, IdleHoldsSnapshot
      <3>2. CASE writer' = [writer EXCEPT !.victims = writer.victims \ {victim}]
        BY <2>1, <3>2 DEF WriterHoldsSnapshot, Hashed, Saving, TypeOK, Writer
      <3>3. QED
        BY <2>1, <3>1, <3>2
    <2>4. QED
      BY <2>2, <2>3
  <1>11. CASE SaveFails
    BY <1>11, MetaUntouched, IdleHoldsSnapshot DEF SaveFails
  <1>12. ASSUME NEW d \in Labels, Load(d) PROVE CaptureInv'
    BY <1>12, MetaUntouched DEF Load, WriterHoldsSnapshot, Saving
  <1>13. ASSUME NEW v \in Versions, Mutate(v) PROVE CaptureInv'
    BY <1>13, MetaUntouched DEF Mutate, WriterHoldsSnapshot, Saving
  <1>14. CASE Crash
    BY <1>14, MetaUntouched, IdleHoldsSnapshot DEF Crash
  <1>15. CASE UNCHANGED vars
    BY <1>15, MetaUntouched DEF vars, WriterHoldsSnapshot, Saving, Hashed
  <1>16. QED
    BY <1>1, <1>2, <1>3, <1>4, <1>5, <1>6, <1>7, <1>8, <1>9, <1>10, <1>11, <1>12,
       <1>13, <1>14, <1>15 DEF Next, WriterStep

\* With synchronous saves, load() never accepts a directory whose model,
\* optimizer and RNG files belong to different moments of the training.
THEOREM LoadIsConsistent ==
  ASSUME ~Async
  PROVE  Spec => []LoadedStateIsOneCapture
  <1>1. CaptureInv => LoadedStateIsOneCapture
    BY DEF CaptureInv, MetaIsOneCapture, LoadedStateIsOneCapture, Loadable, OneCapture
  <1>2. TypeOK /\ CaptureInv /\ [Next]_vars => CaptureInv'
    BY CaptureStep
  <1>3. QED
    BY CaptureInit, TypeCorrect, <1>1, <1>2, PTL DEF Spec

-----------------------------------------------------------------------------
(* The files behind the pointers, for synchronous and background saves.    *)

\* The directory of the save in progress, step by step: what is hashed is what
\* is on the disk, meta.json describes it once it is written, and latest.json
\* names it once it is published.
InPlace ==
  Saving =>
    /\ writer.step \in Labels
    /\ writer.pc \in {"mkdir", "open", "close"} => writer.file \in FileNames
    /\ writer.pc = "mkdir" => writer.file = "model"
    /\ writer.pc \notin {"mkdir", "rmtree"} =>
         /\ disk[writer.step].exists
         /\ \A f \in Hashed : /\ writer.hash[f].state = "whole"
                              /\ disk[writer.step].file[f] = writer.hash[f]
    /\ writer.pc \in {"latest", "best", "prune"} =>
         /\ disk[writer.step].meta
         /\ disk[writer.step].hash = writer.hash
         /\ disk[writer.step].loss = writer.loss
    /\ writer.pc \in {"best", "prune", "rmtree"} => latest = writer.step
    /\ writer.pc = "rmtree" => writer.victims # {} /\ best.step \notin writer.victims

\* best.json names a directory that is there, and only after latest.json does.
BestIsKept == best.step # NoStep => disk[best.step].exists /\ latest # NoStep

DirectoryInv == InPlace /\ BestIsKept

\* Of a set of numbers that is not empty one is the least.
LEMMA LeastNumber ==
  ASSUME NEW S \in SUBSET Nat, S # {}
  PROVE  \E x \in S : \A y \in S : x <= y
<1> DEFINE R == OpToRel(<, Nat)
<1>1. IsWellFoundedOn(R, Nat)
  BY NatLessThanWellFounded
<1>2. \A x, y \in Nat : <<x, y>> \in R <=> x < y
  BY DEF OpToRel
<1> HIDE DEF R
<1>3. PICK x \in S : \A y \in S : ~ (<<y, x>> \in R)
  BY <1>1, WFMin
<1>4. \A y \in S : ~ (y < x)
  BY <1>2, <1>3
<1>5. \A y \in S : x <= y
  BY <1>4
<1> QED  BY <1>5

\* The directory rmtree works on is one of those listed.
LEMMA VictimIsListed ==
  ASSUME TypeOK, writer.victims # {}
  PROVE  (CHOOSE d \in writer.victims : \A e \in writer.victims : d <= e) \in writer.victims
<1>1. writer.victims \in SUBSET Nat
  BY LabelsAssumption DEF TypeOK, Writer
<1>2. \E d \in writer.victims : \A e \in writer.victims : d <= e
  BY <1>1, LeastNumber
<1> QED  BY <1>2

LEMMA DirectoryInit == Init => DirectoryInv
  BY DEF Init, DirectoryInv, InPlace, BestIsKept, Idle, Saving

\* No save is in progress, and the disk is as it was.
LEMMA IdleIsInPlace == writer' = Idle => InPlace'
  BY DEF Idle, InPlace, Saving

LEMMA DirectoryStep ==
  ASSUME TypeOK, DirectoryInv, [Next]_vars
  PROVE  DirectoryInv'
  <1> USE DEF DirectoryInv
  <1>1. ASSUME NEW label \in Labels, NEW loss \in Losses \cup {NoLoss},
               BeginSave(label, loss)
        PROVE  DirectoryInv'
    <2>1. InPlace'
      BY <1>1 DEF BeginSave, InPlace, Idle, Hashed, Saving, FileNames
    <2>2. BestIsKept'
      BY <1>1 DEF BeginSave, BestIsKept
    <2>3. QED
      BY <2>1, <2>2
  <1>2. CASE RaiseWriteError
    BY <1>2 DEF RaiseWriteError, InPlace, BestIsKept, Saving
  <1>3. CASE MakeDirectory
    <2>1. /\ writer.pc = "mkdir" /\ writer'.pc = "open" /\ writer'.step = writer.step
          /\ writer'.file = writer.file /\ writer'.hash = writer.hash
          /\ disk' = [disk EXCEPT ![writer.step].exists = TRUE]
          /\ best' = best /\ latest' = latest
      BY <1>3 DEF MakeDirectory, TypeOK, Writer
    <2>2. disk'[writer.step].exists /\ writer.step \in Labels /\ writer.file = "model"
      BY <2>1 DEF TypeOK, Directory, InPlace, Saving
    <2>3. InPlace'
      BY <2>1, <2>2 DEF InPlace, Hashed, Saving, FileNames
    <2>4. BestIsKept'
      BY <2>1 DEF BestIsKept, TypeOK, Directory
    <2>5. QED
      BY <2>3, <2>4
  <1>4. CASE OpenFile
    <2>1. /\ writer.pc = "open" /\ writer'.pc = "close" /\ writer'.step = writer.step
          /\ writer'.file = writer.file /\ writer'.hash = writer.hash
          /\ disk' = [disk EXCEPT ![writer.step].file[writer.file] = Torn]
          /\ best' = best /\ latest' = latest
      BY <1>4 DEF OpenFile, TypeOK, Writer
    <2>2. writer.step \in Labels /\ writer.file \in FileNames
      BY <2>1 DEF InPlace, Saving
    <2>3. /\ disk'[writer.step].exists = disk[writer.step].exists
          /\ \A f \in FileNames : f # writer.file =>
               disk'[writer.step].file[f] = disk[writer.step].file[f]
          /\ \A d \in Labels : disk'[d].exists = disk[d].exists
      BY <2>1, <2>2 DEF TypeOK, Directory
    <2>4. Hashed' = Hashed /\ Hashed \subseteq FileNames /\ writer.file \notin Hashed
      BY <2>1, <2>2 DEF Hashed, FileNames
    <2>5. InPlace'
      BY <2>1, <2>2, <2>3, <2>4 DEF InPlace, Saving
    <2>6. BestIsKept'
      BY <2>1, <2>3 DEF BestIsKept, TypeOK
    <2>7. QED
      BY <2>5, <2>6
  <1>5. CASE CloseFile
    <2> DEFINE content == Whole(writer.from, Serialised(writer.file))
    <2>1. content.state = "whole"
      BY DEF Whole
    <2> HIDE DEF content
    <2>2. /\ disk' = [disk EXCEPT ![writer.step].file[writer.file] = content]
          /\ writer' = [writer EXCEPT !.hash[writer.file] = content,
                         !.from = NoVersion, !.file = NextFile(writer.file),
                         !.pc = IF NextFile(writer.file) = "none" THEN "meta" ELSE "open"]
          /\ best' = best /\ latest' = latest /\ writer.pc = "close"
      BY <1>5 DEF CloseFile, content
    <2>3. writer.step \in Labels /\ writer.file \in FileNames
      BY <2>2 DEF InPlace, Saving
    <2>4. /\ writer'.step = writer.step /\ writer'.file = NextFile(writer.file)
          /\ writer'.pc = IF NextFile(writer.file) = "none" THEN "meta" ELSE "open"
          /\ writer'.hash = [writer.hash EXCEPT ![writer.file] = content]
      BY <2>2 DEF TypeOK, Writer
    <2>5. /\ disk'[writer.step].exists = disk[writer.step].exists
          /\ disk'[writer.step].file = [disk[writer.step].file EXCEPT ![writer.file] = content]
          /\ \A d \in Labels : disk'[d].exists = disk[d].exists
      BY <2>2, <2>3 DEF TypeOK, Directory
    <2>6. /\ Hashed' = Hashed \cup {writer.file} /\ Hashed \subseteq FileNames
          /\ writer'.pc = "open" => writer'.file \in FileNames
      BY <2>2, <2>3, <2>4 DEF Hashed, NextFile, FileNames
    <2>7. \A f \in Hashed' : /\ writer'.hash[f].state = "whole"
                             /\ disk'[writer.step].file[f] = writer'.hash[f]
      <3>1. /\ writer.hash \in [FileNames -> Contents]
            /\ disk[writer.step].file \in [FileNames -> Contents]
        BY <2>3 DEF TypeOK, Writer, Directory
      <3>2. \A f \in Hashed : /\ writer.hash[f].state = "whole"
                              /\ disk[writer.step].file[f] = writer.hash[f]
        BY <2>2 DEF InPlace, Saving
      <3>3. QED
        BY <2>1, <2>3, <2>4, <2>5, <2>6, <3>1, <3>2
    <2>8. InPlace'
      BY <2>2, <2>3, <2>4, <2>5, <2>6, <2>7 DEF InPlace, Saving
    <2>9. BestIsKept'
      BY <2>2, <2>5 DEF BestIsKept, TypeOK
    <2>10. QED
      BY <2>8, <2>9
  <1>6. CASE WriteMeta
    <2>1. /\ writer.pc = "meta" /\ writer'.pc = "latest" /\ writer'.step = writer.step
          /\ writer'.hash = writer.hash /\ writer'.loss = writer.loss
          /\ best' = best /\ latest' = latest
          /\ disk' = [disk EXCEPT ![writer.step] =
                       [[[@ EXCEPT !.meta = TRUE] EXCEPT !.loss = writer.loss]
                           EXCEPT !.hash = writer.hash]]
      BY <1>6 DEF WriteMeta, TypeOK, Writer
    <2>2. writer.step \in Labels
      BY <2>1 DEF InPlace, Saving
    <2>3. /\ disk'[writer.step].exists = disk[writer.step].exists
          /\ disk'[writer.step].file = disk[writer.step].file
          /\ disk'[writer.step].meta /\ disk'[writer.step].hash = writer.hash
          /\ disk'[writer.step].loss = writer.loss
          /\ \A d \in Labels : disk'[d].exists = disk[d].exists
      BY <2>1, <2>2 DEF TypeOK, Directory
    <2>4. InPlace'
      BY <2>1, <2>2, <2>3 DEF InPlace, Saving, Hashed
    <2>5. BestIsKept'
      BY <2>1, <2>3 DEF BestIsKept, TypeOK
    <2>6. QED
      BY <2>4, <2>5
  <1>7. CASE PublishLatest
    <2>1. /\ writer.pc = "latest" /\ writer'.pc \in {"best", "prune"}
          /\ writer'.step = writer.step /\ writer'.hash = writer.hash
          /\ writer'.loss = writer.loss /\ latest' = writer.step
          /\ best' = best /\ disk' = disk
      BY <1>7 DEF PublishLatest, TypeOK, Writer
    <2>2. InPlace'
      BY <2>1 DEF InPlace, Saving, Hashed
    <2>3. BestIsKept'
      BY <2>1, LabelsAssumption DEF BestIsKept, InPlace, Saving
    <2>4. QED
      BY <2>2, <2>3
  <1>8. CASE UpdateBest
    <2>1. /\ writer.pc = "best" /\ writer'.pc = "prune"
          /\ writer'.step = writer.step /\ writer'.hash = writer.hash
          /\ writer'.loss = writer.loss /\ latest' = latest /\ disk' = disk
          /\ best'.step \in {best.step, writer.step}
      BY <1>8 DEF UpdateBest, TypeOK, Writer
    <2>2. InPlace'
      BY <2>1 DEF InPlace, Saving, Hashed
    <2>3. BestIsKept'
      BY <2>1, LabelsAssumption DEF BestIsKept, InPlace, Saving
    <2>4. QED
      BY <2>2, <2>3
  <1>9. CASE ListVictims
    <2>1. BestIsKept'
      BY <1>9 DEF ListVictims, BestIsKept
    <2>2. CASE writer' = Idle
      BY <2>1, <2>2, IdleIsInPlace
    <2>3. CASE writer' # Idle
      <3>1. /\ writer.pc = "prune" /\ writer'.pc = "rmtree" /\ writer'.step = writer.step
            /\ writer'.victims = Excess \ {best.step} /\ writer'.victims # {}
            /\ best' = best /\ latest' = latest
        BY <1>9, <2>3 DEF ListVictims, TypeOK, Writer
      <3>2. InPlace'
        BY <3>1 DEF InPlace, Saving
      <3>3. QED
        BY <2>1, <3>2
    <2>4. QED
      BY <2>2, <2>3
  <1>10. CASE RemoveDirectory
    <2> DEFINE victim == CHOOSE d \in writer.victims : \A e \in writer.victims : d <= e
    <2>1. PICK kept \in SUBSET (FileNames \cup {"meta"}) :
            /\ disk' = [disk EXCEPT ![victim] = Remains(disk[victim], kept)]
            /\ writer' = IF writer.victims \ {victim} = {} THEN Idle
                         ELSE [writer EXCEPT !.victims = writer.victims \ {victim}]
            /\ best' = best /\ latest' = latest /\ writer.pc = "rmtree"
      BY <1>10 DEF RemoveDirectory
    <2>2. victim \in writer.victims /\ best.step \notin writer.victims
      BY <2>1, VictimIsListed DEF InPlace, Saving
    <2> HIDE DEF victim
    <2>3. BestIsKept'
      BY <2>1, <2>2 DEF BestIsKept, TypeOK
    <2>4. InPlace'
      <3>1. CASE writer' = Idle
        BY <3>1, IdleIsInPlace
      <3>2. CASE writer' # Idle
        <4>1. /\ writer'.pc = "rmtree" /\ writer'.step = writer.step
              /\ writer'.victims = writer.victims \ {victim} /\ writer'.victims # {}
          BY <2>1, <3>2 DEF TypeOK, Writer
        <4>2. QED
          BY <2>1, <2>2, <4>1 DEF InPlace, Saving
      <3>3. QED
        BY <3>1, <3>2
    <2>5. QED
      BY <2>3, <2>4
  <1>11. CASE SaveFails
    BY <1>11, IdleIsInPlace DEF SaveFails, BestIsKept
  <1>12. ASSUME NEW d \in Labels, Load(d) PROVE DirectoryInv'
    BY <1>12 DEF Load, InPlace, BestIsKept, Saving
  <1>13. ASSUME NEW v \in Versions, Mutate(v) PROVE DirectoryInv'
    BY <1>13 DEF Mutate, InPlace, BestIsKept, Saving, Hashed
  <1>14. CASE Crash
    BY <1>14, IdleIsInPlace DEF Crash, BestIsKept
  <1>15. CASE UNCHANGED vars
    BY <1>15 DEF vars, InPlace, BestIsKept, Saving, Hashed
  <1>16. QED
    BY <1>1, <1>2, <1>3, <1>4, <1>5, <1>6, <1>7, <1>8, <1>9, <1>10, <1>11, <1>12,
       <1>13, <1>14, <1>15 DEF Next, WriterStep

\* Pruning never removes the directory best.json points to, however it is
\* interleaved with saves, crashes and failed unlinks.
THEOREM PruningSparesBest == Spec => []BestDirectoryKept
  <1>1. DirectoryInv => BestDirectoryKept
    BY DEF DirectoryInv, BestIsKept, BestDirectoryKept
  <1>2. TypeOK /\ DirectoryInv /\ [Next]_vars => DirectoryInv'
    BY DirectoryStep
  <1>3. QED
    BY DirectoryInit, TypeCorrect, <1>1, <1>2, PTL DEF Spec

\* latest.json moves only to a directory that load() accepts at that moment.
THEOREM PublishedIsWhole == Spec => PointerFollowsFiles
  <1>1. TypeOK /\ DirectoryInv /\ [Next]_vars => [latest' # latest => Loadable(latest)']_vars
    <2> SUFFICES ASSUME TypeOK, DirectoryInv, [Next]_vars, latest' # latest
                 PROVE  Loadable(latest)'
      OBVIOUS
    <2>1. PublishLatest
      BY DEF Next, vars, WriterStep, BeginSave, RaiseWriteError, MakeDirectory, OpenFile,
             CloseFile, WriteMeta, UpdateBest, ListVictims, RemoveDirectory, SaveFails, Load,
             Mutate, Crash
    <2>2. latest' = writer.step /\ disk' = disk /\ writer.pc = "latest"
      BY <2>1 DEF PublishLatest
    <2>3. /\ disk[writer.step].exists /\ disk[writer.step].meta
          /\ disk[writer.step].hash = writer.hash /\ writer.step \in Labels
          /\ \A f \in FileNames : /\ writer.hash[f].state = "whole"
                                  /\ disk[writer.step].file[f] = writer.hash[f]
      BY <2>2 DEF DirectoryInv, InPlace, Saving, Hashed
    <2>4. disk[writer.step].file = writer.hash
      BY <2>3 DEF TypeOK, Directory, Writer
    <2>5. QED
      BY <2>2, <2>3, <2>4 DEF Loadable
  <1>2. TypeOK /\ DirectoryInv /\ [Next]_vars => DirectoryInv'
    BY DirectoryStep
  <1>3. QED
    BY DirectoryInit, TypeCorrect, <1>1, <1>2, PTL DEF Spec, PointerFollowsFiles
=============================================================================
