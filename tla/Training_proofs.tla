---------------------------- MODULE Training_proofs ----------------------------
(***************************************************************************)
(* Proofs about the training loop and its checkpoints, for every number of *)
(* steps, intervals, patience, set of losses, number of faults and         *)
(* restarts: the types, the refinement of the store, and what a run leaves *)
(* on the disk.                                                            *)
(***************************************************************************)
EXTENDS Training, FiniteSetTheorems, TLAPS

\* A multiple is not less than its factor.
LEMMA Multiple ==
  ASSUME NEW n \in Nat \ {0}, NEW a \in Int, a >= 1
  PROVE  n * a \in Int /\ n * a >= n
OBVIOUS

\* Quotient and remainder.
LEMMA Quotient ==
  ASSUME NEW n \in Nat \ {0}, NEW m \in Int
  PROVE  /\ m \div n \in Int /\ m % n \in 0..n - 1
         /\ n * (m \div n) + (m % n) = m
OBVIOUS

\* They are the only ones.
LEMMA QuotientUnique ==
  ASSUME NEW n \in Nat \ {0}, NEW q \in Int, NEW r \in 0..n - 1
  PROVE  (q * n + r) \div n = q /\ (q * n + r) % n = r
<1> DEFINE m == q * n + r
           q2 == m \div n
           r2 == m % n
<1>1. m \in Int /\ n * q = q * n
  OBVIOUS
<1>2. q2 \in Int /\ r2 \in 0..n - 1 /\ n * q2 + r2 = m
  BY <1>1, Quotient
<1> HIDE DEF q2, r2
<1>3. n * (q - q2) = n * q - n * q2
  BY <1>2
<1>4. n * (q - q2) = r2 - r
  BY <1>1, <1>2, <1>3
<1>5. ~(q - q2 >= 1)
  BY <1>2, <1>4, Multiple
<1>6. n * (q2 - q) = r - r2
  BY <1>1, <1>2
<1>7. ~(q2 - q >= 1)
  BY <1>2, <1>6, Multiple
<1>8. q2 = q
  BY <1>2, <1>5, <1>7
<1>9. r2 = r
  BY <1>1, <1>2, <1>8
<1> QED  BY <1>8, <1>9 DEF q2, r2

-----------------------------------------------------------------------------
(* The training loop.                                                      *)

\* The theorems about the store, for the store of this run.
P == INSTANCE CheckpointStore_proofs
       WITH Labels <- 1..MaxSteps, Versions <- Version, Async <- TRUE \in AsyncChoices

LEMMA MostTrainedType == MostTrained \in Nat /\ MaxSteps <= MostTrained
<1>1. MaxRuns >= 1 /\ MaxRuns \in Nat /\ MaxSteps \in Nat
  BY RunsAssumption, StepsAssumption
<1>2. MaxRuns * MaxSteps \in Nat /\ (MaxRuns - 1) * MaxSteps \in Nat
  BY <1>1
<1>3. MaxRuns * MaxSteps = (MaxRuns - 1) * MaxSteps + MaxSteps
  BY <1>1
<1> QED  BY <1>1, <1>2, <1>3 DEF MostTrained

LEMMA FreshType == [run |-> 1, trained |-> 0] \in Version
  BY MostTrainedType, RunsAssumption DEF Version

\* What the store assumes of its constants holds of those the loop gives it.
LEMMA StoreAssumptions ==
  /\ 1..MaxSteps \subseteq Nat \ {P!NoStep}
  /\ Losses \subseteq Nat \ {P!NoLoss} /\ NaN \in Nat \ {P!NoLoss}
  /\ Version # {}
  /\ KeepLastN \in Nat \ {0} /\ (TRUE \in AsyncChoices) \in BOOLEAN
  /\ Device \in {"cpu", "cuda"} /\ MaxFaults \in Nat
  BY FreshType, StoreAssumption, StepsAssumption DEF P!NoStep, P!NoLoss

\* The two instances of the store are one.
LEMMA SameTypeOK == Store!TypeOK <=> P!TypeOK
  BY DEF Store!TypeOK, P!TypeOK, Store!Directory, P!Directory, Store!Writer, P!Writer,
         Store!Contents, P!Contents, Store!FileNames, P!FileNames, Store!NoLoss, P!NoLoss,
         Store!NoStep, P!NoStep

LEMMA SameInit == Store!Init <=> P!Init
  BY DEF Store!Init, P!Init, Store!NoDirectory, P!NoDirectory, Store!Idle, P!Idle,
         Store!NoFiles, P!NoFiles, Store!FileNames, P!FileNames, Store!Absent, P!Absent,
         Store!NoVersion, P!NoVersion, Store!NoLoss, P!NoLoss, Store!NoStep, P!NoStep

LEMMA SameNext == [Store!Next]_Store!vars => [P!Next]_P!vars
<1>1. ASSUME NEW label \in 1..MaxSteps, NEW loss \in Losses \cup {Store!NoLoss},
             Store!BeginSave(label, loss)
      PROVE  P!Next
  BY <1>1 DEF Store!BeginSave, P!BeginSave, P!Next, Store!Saving, P!Saving, Store!Idle, P!Idle,
         Store!NoFiles, P!NoFiles, Store!FileNames, P!FileNames, Store!Absent, P!Absent,
         Store!NoVersion, P!NoVersion, Store!NoLoss, P!NoLoss, Store!NoStep, P!NoStep
<1>2. Store!RaiseWriteError => P!RaiseWriteError
  BY DEF Store!RaiseWriteError, P!RaiseWriteError, Store!Saving, P!Saving
<1>3. Store!WriterStep => P!WriterStep
  <2>1. Store!MakeDirectory => P!MakeDirectory
    BY DEF Store!MakeDirectory, P!MakeDirectory
  <2>2. Store!OpenFile => P!OpenFile
    BY DEF Store!OpenFile, P!OpenFile, Store!Torn, P!Torn, Store!NoVersion, P!NoVersion,
           Store!Serialised, P!Serialised, Store!SharesStorage, P!SharesStorage
  <2>3. Store!CloseFile => P!CloseFile
    BY DEF Store!CloseFile, P!CloseFile, Store!Whole, P!Whole, Store!NextFile, P!NextFile,
           Store!NoVersion, P!NoVersion,
           Store!Serialised, P!Serialised, Store!SharesStorage, P!SharesStorage
  <2>4. Store!WriteMeta => P!WriteMeta
    BY DEF Store!WriteMeta, P!WriteMeta
  <2>5. Store!PublishLatest => P!PublishLatest
    BY DEF Store!PublishLatest, P!PublishLatest, Store!NoLoss, P!NoLoss
  <2>6. Store!UpdateBest => P!UpdateBest
    BY DEF Store!UpdateBest, P!UpdateBest, Store!Improves, P!Improves, Store!NoStep, P!NoStep,
           Store!GreaterOrEqual, P!GreaterOrEqual
  <2>7. Store!ListVictims => P!ListVictims
    BY DEF Store!ListVictims, P!ListVictims, Store!Cardinality, P!Cardinality, Store!Excess, P!Excess, Store!Existing, P!Existing,
           Store!Idle, P!Idle, Store!NoFiles, P!NoFiles, Store!FileNames, P!FileNames,
           Store!Absent, P!Absent, Store!NoVersion, P!NoVersion, Store!NoLoss, P!NoLoss,
           Store!NoStep, P!NoStep
  <2>8. Store!RemoveDirectory => P!RemoveDirectory
    BY DEF Store!RemoveDirectory, P!RemoveDirectory, Store!Remains, P!Remains,
           Store!NoDirectory, P!NoDirectory, Store!Idle, P!Idle, Store!NoFiles, P!NoFiles,
           Store!FileNames, P!FileNames, Store!Absent, P!Absent, Store!NoVersion, P!NoVersion,
           Store!NoLoss, P!NoLoss, Store!NoStep, P!NoStep
  <2> QED
    BY <2>1, <2>2, <2>3, <2>4, <2>5, <2>6, <2>7, <2>8 DEF Store!WriterStep, P!WriterStep
<1>4. Store!SaveFails => P!SaveFails
  BY DEF Store!SaveFails, P!SaveFails, Store!Idle, P!Idle, Store!NoFiles, P!NoFiles,
         Store!FileNames, P!FileNames, Store!Absent, P!Absent, Store!NoVersion, P!NoVersion,
         Store!NoLoss, P!NoLoss, Store!NoStep, P!NoStep
<1>5. ASSUME NEW d \in 1..MaxSteps, Store!Load(d) PROVE P!Load(d)
  BY <1>5 DEF Store!Load, P!Load, Store!Loadable, P!Loadable, Store!Saving, P!Saving,
         Store!FileNames, P!FileNames
<1>6. ASSUME NEW v \in Version, Store!Mutate(v) PROVE P!Mutate(v)
  BY <1>6 DEF Store!Mutate, P!Mutate, Store!Saving, P!Saving
<1>7. Store!Crash => P!Crash
  BY DEF Store!Crash, P!Crash, Store!Idle, P!Idle, Store!NoFiles, P!NoFiles,
         Store!FileNames, P!FileNames, Store!Absent, P!Absent, Store!NoVersion, P!NoVersion,
         Store!NoLoss, P!NoLoss, Store!NoStep, P!NoStep
<1>8. UNCHANGED Store!vars => UNCHANGED P!vars
  BY DEF Store!vars, P!vars
<1> QED
  BY <1>1, <1>2, <1>3, <1>4, <1>5, <1>6, <1>7, <1>8 DEF Store!Next, P!Next

-----------------------------------------------------------------------------
(* Types, and the refinement of the store.                                 *)

\* Where the loop may be at a step, and how many evaluations may have stalled.
LoopInv ==
  /\ phase = "train" => step < MaxSteps
  /\ phase \in {"evaluate", "checkpoint", "saving"} => step >= 1
  /\ phase = "evaluate" => EvalDue(step)
  /\ phase \in {"checkpoint", "saving"} => CheckpointDue(step)
  /\ phase \in {"train", "evaluate", "checkpoint", "saving"} /\ Patience > 0 => stale < Patience

LoopTypes == TypeOK /\ LoopInv

LEMMA LoadedType ==
  ASSUME Store!TypeOK, NEW d \in 1..MaxSteps
  PROVE  disk[d].file["model"].to \in Version
  BY DEF Store!TypeOK, Store!Directory, Store!Contents, Store!FileNames

\* A target of --resume names a directory.
LEMMA TargetsAreLabels ==
  ASSUME Store!TypeOK
  PROVE  ResumeTargets \subseteq 1..MaxSteps
  BY DEF ResumeTargets, Store!TypeOK, NoStep

LEMMA OneMoreType ==
  ASSUME NEW t \in 0..MostTrained
  PROVE  OneMore(t) \in 0..MostTrained
  BY MostTrainedType DEF OneMore

LEMMA StoreStep ==
  ASSUME LoopTypes, [Next]_vars
  PROVE  [Store!Next]_Store!vars
  <1>1. CASE TrainStep
    <2>1. live \in Version /\ runs \in 1..MaxRuns
      BY DEF LoopTypes, TypeOK, Store!TypeOK
    <2>2. [run |-> runs, trained |-> OneMore(live.trained)] \in Version
      BY <2>1, OneMoreType DEF Version
    <2>3. QED
      BY <1>1, <2>2 DEF TrainStep, Store!Next
  <1>2. CASE SavePeriodic
    <2>1. step \in 1..MaxSteps /\ evalLoss \in Losses \cup {Store!NoLoss}
      BY <1>2 DEF SavePeriodic, LoopTypes, TypeOK, LoopInv, NoLoss
    <2>2. QED
      BY <1>2, <2>1 DEF SavePeriodic, Store!Next
  <1>3. CASE SaveFinal
    <2>1. MaxSteps \in 1..MaxSteps /\ evalLoss \in Losses \cup {Store!NoLoss}
      BY StepsAssumption DEF LoopTypes, TypeOK, NoLoss
    <2>2. QED
      BY <1>3, <2>1 DEF SaveFinal, Store!Next
  <1>4. CASE Resume
    <2>1. PICK d \in ResumeTargets : Store!Load(d)
      BY <1>4 DEF Resume
    <2>2. d \in 1..MaxSteps
      BY TargetsAreLabels DEF LoopTypes, TypeOK
    <2>3. QED
      BY <2>1, <2>2 DEF Store!Next
  <1>5. CASE Evaluate \/ SaveReturns \/ Finish \/ TrainFails \/ ResumeFails \/ UNCHANGED vars
    BY <1>5 DEF Evaluate, SaveReturns, Finish, TrainFails, ResumeFails, vars, storeVars, Store!vars
  <1>6. CASE SaveRaises \/ Write \/ WriteFails \/ ExitDropsError \/ Crash
    BY <1>6 DEF SaveRaises, Write, WriteFails, ExitDropsError, Crash, Store!Next
  <1>7. QED
    BY <1>1, <1>2, <1>3, <1>4, <1>5, <1>6 DEF Next, TrainerStep

LEMMA StoreTypeStep ==
  ASSUME LoopTypes, [Next]_vars
  PROVE  Store!TypeOK'
  <1>1. [P!Next]_P!vars
    BY StoreStep, SameNext
  <1>2. P!TypeOK
    BY SameTypeOK DEF LoopTypes, TypeOK
  <1>3. P!TypeOK'
    BY <1>1, <1>2, StoreAssumptions, P!StepTypeOK
  <1>4. P!TypeOK' => Store!TypeOK'
    BY DEF Store!TypeOK, P!TypeOK, Store!Directory, P!Directory, Store!Writer, P!Writer,
           Store!Contents, P!Contents, Store!FileNames, P!FileNames, Store!NoLoss, P!NoLoss,
           Store!NoStep, P!NoStep
  <1>5. QED
    BY <1>3, <1>4

LEMMA LoopInit == Init => LoopTypes
  <1> SUFFICES ASSUME Init PROVE LoopTypes
    OBVIOUS
  <1>1. Store!TypeOK
    BY SameInit, SameTypeOK, StoreAssumptions, P!InitTypeOK DEF Init
  <1>2. QED
    BY <1>1, StepsAssumption, PatienceAssumption, RunsAssumption
       DEF Init, LoopTypes, TypeOK, LoopInv, Phases

LEMMA NextIterationType ==
  ASSUME NEW s \in 0..MaxSteps
  PROVE  /\ NextIteration(s) \in {"train", "final"}
         /\ NextIteration(s) = "train" <=> s < MaxSteps
         /\ AfterEval(s) \in {"checkpoint", "train", "final"}
         /\ AfterEval(s) = "checkpoint" <=> CheckpointDue(s)
         /\ AfterEval(s) # "checkpoint" => AfterEval(s) = NextIteration(s)
  BY StepsAssumption DEF NextIteration, AfterEval

LEMMA LoopStep ==
  ASSUME LoopTypes, [Next]_vars
  PROVE  LoopTypes'
  <1>0. Store!TypeOK'
    BY StoreTypeStep
  <1> USE StepsAssumption, PatienceAssumption, RunsAssumption DEF LoopTypes, TypeOK, LoopInv
  <1>1. CASE TrainStep
    <2>1. /\ step + 1 \in 1..MaxSteps /\ step' = step + 1 /\ stale' = stale /\ phase = "train"
          /\ phase' = IF EvalDue(step + 1) THEN "evaluate" ELSE AfterEval(step + 1)
          /\ evalLoss' = evalLoss /\ bestLoss' = bestLoss /\ runs' = runs /\ async' = async
      BY <1>1 DEF TrainStep
    <2>2. QED
      BY <1>0, <2>1, NextIterationType DEF Phases
  <1>2. CASE Evaluate
    <2>1. PICK loss \in (IF Losses = {} THEN {NoLoss} ELSE Losses) :
            /\ evalLoss' = loss
            /\ bestLoss' \in {bestLoss, loss}
            /\ \/ stale' = stale /\ phase' = AfterEval(step)
               \/ /\ Patience > 0 /\ stale' \in {0, stale + 1}
                  /\ phase' = IF stale' >= Patience THEN "final" ELSE AfterEval(step)
            /\ phase = "evaluate" /\ step' = step /\ runs' = runs /\ async' = async
      BY <1>2 DEF Evaluate
    <2>2. stale' \in 0..Patience
      BY <2>1
    <2>3. QED
      BY <1>0, <2>1, <2>2, NextIterationType DEF Phases
  <1>3. CASE SavePeriodic
    <2>1. /\ phase = "checkpoint" /\ phase' \in {"saving", NextIteration(step)}
          /\ UNCHANGED <<step, evalLoss, bestLoss, stale, runs, async>>
      BY <1>3 DEF SavePeriodic
    <2>2. QED
      BY <1>0, <2>1, NextIterationType DEF Phases
  <1>4. CASE SaveFinal
    <2>1. /\ phase' \in {"join", "savingFinal"} /\ bestLoss' \in {bestLoss, evalLoss}
          /\ UNCHANGED <<step, evalLoss, stale, runs, async>>
      BY <1>4 DEF SaveFinal
    <2>2. QED
      BY <1>0, <2>1 DEF Phases
  <1>5. CASE SaveReturns
    <2>1. /\ phase \in {"saving", "savingFinal"}
          /\ phase' = IF phase = "saving" THEN NextIteration(step) ELSE "join"
          /\ UNCHANGED <<step, evalLoss, bestLoss, stale, runs, async>>
      BY <1>5 DEF SaveReturns
    <2>2. QED
      BY <1>0, <2>1, NextIterationType DEF Phases
  <1>6. CASE SaveRaises \/ TrainFails
    BY <1>0, <1>6 DEF SaveRaises, TrainFails, Phases
  <1>7. CASE Finish \/ Crash
    BY <1>0, <1>7 DEF Finish, Crash, Phases
  <1>8. CASE Write \/ WriteFails \/ ExitDropsError \/ UNCHANGED vars
    BY <1>0, <1>8 DEF Write, WriteFails, ExitDropsError, trainerVars, vars
  <1>9. ASSUME NewProcess
        PROVE  /\ runs' \in 1..MaxRuns /\ evalLoss' \in Losses \cup {NoLoss} /\ stale' = 0
               /\ bestLoss' \in Losses \cup {NoLoss} /\ async' \in AsyncChoices
    BY <1>9 DEF NewProcess
  <1>10. CASE Resume
    <2>1. PICK d \in ResumeTargets : step' = d /\ phase' = NextIteration(d)
      BY <1>10 DEF Resume
    <2>2. d \in 1..MaxSteps
      BY TargetsAreLabels
    <2>3. QED
      BY <1>0, <1>9, <1>10, <2>1, <2>2, NextIterationType DEF Resume, Phases
  <1>11. CASE ResumeFails
    BY <1>0, <1>9, <1>11 DEF ResumeFails, Phases
  <1>12. QED
    BY <1>1, <1>2, <1>3, <1>4, <1>5, <1>6, <1>7, <1>8, <1>10, <1>11 DEF Next, TrainerStep

\* Every reachable state of a training run is well typed.
THEOREM TypeCorrect == Spec => []TypeOK
  <1>1. LoopTypes /\ [Next]_vars => LoopTypes'
    BY LoopStep
  <1>2. LoopTypes => TypeOK
    BY DEF LoopTypes
  <1>3. QED
    BY LoopInit, <1>1, <1>2, PTL DEF Spec

-----------------------------------------------------------------------------
(* What the steps of the writer do to the disk.                            *)

\* The types, and what the store guarantees of its directories.
Placed == LoopTypes /\ P!DirectoryInv

LEMMA PlacedInit == Init => Placed
  BY LoopInit, SameInit, StoreAssumptions, P!DirectoryInit DEF Init, Placed

LEMMA PlacedStep ==
  ASSUME Placed, [Next]_vars
  PROVE  Placed'
  <1>1. LoopTypes'
    BY LoopStep DEF Placed
  <1>2. [P!Next]_P!vars
    BY StoreStep, SameNext DEF Placed
  <1>3. P!TypeOK
    BY SameTypeOK DEF Placed, LoopTypes, TypeOK
  <1>4. P!DirectoryInv'
    BY <1>2, <1>3, StoreAssumptions, P!DirectoryStep DEF Placed
  <1>5. QED
    BY <1>1, <1>4 DEF Placed

SameSave == writer'.step = writer.step /\ writer'.loss = writer.loss /\ writer'.snap = writer.snap

Unpublished == writer.pc \in {"mkdir", "open", "close", "meta", "latest"}

LEMMA IdleIsIdle ==
  /\ Store!Idle.pc = "idle" /\ Store!Idle.step = 0
  BY DEF Store!Idle, Store!NoStep

\* A save in progress has a label.
LEMMA SaveHasLabel ==
  ASSUME Placed, Store!Saving
  PROVE  writer.step \in 1..MaxSteps
  BY DEF Placed, P!DirectoryInv, P!InPlace, P!Saving, Store!Saving

\* Writing the files touches one directory and no pointer.
LEMMA FilesEffect ==
  ASSUME Placed, Store!MakeDirectory \/ Store!OpenFile \/ Store!CloseFile
  PROVE  /\ writer.pc \in {"mkdir", "open", "close"} /\ writer'.pc \in {"open", "close", "meta"}
         /\ SameSave
         /\ UNCHANGED <<latest, best, writeError, live>>
         /\ \A d \in 1..MaxSteps :
              /\ disk'[d].meta = disk[d].meta
              /\ disk'[d].loss = disk[d].loss
              /\ disk'[d].hash = disk[d].hash
              /\ disk'[d].exists <=> disk[d].exists \/ d = writer.step
              /\ d # writer.step => disk'[d] = disk[d]
  <1>0. /\ disk \in [1..MaxSteps -> Store!Directory] /\ writer \in Store!Writer
    BY DEF Placed, LoopTypes, TypeOK, Store!TypeOK
  <1>1. CASE Store!MakeDirectory
    <2>1. /\ writer.pc = "mkdir" /\ disk' = [disk EXCEPT ![writer.step].exists = TRUE]
          /\ writer' = [writer EXCEPT !.pc = "open"]
          /\ UNCHANGED <<latest, best, writeError, live>>
      BY <1>1 DEF Store!MakeDirectory
    <2>2. SameSave /\ writer'.pc = "open"
      BY <1>0, <2>1 DEF SameSave, Store!Writer
    <2>3. QED
      BY <1>0, <2>1, <2>2 DEF Store!Directory
  <1>2. CASE Store!OpenFile
    <2>1. /\ writer.pc = "open"
          /\ disk' = [disk EXCEPT ![writer.step].file[writer.file] = Store!Torn]
          /\ writer' = [writer EXCEPT !.pc = "close", !.from = Store!Serialised(writer.file)]
          /\ UNCHANGED <<latest, best, writeError, live>>
      BY <1>2 DEF Store!OpenFile
    <2>2. SameSave /\ writer'.pc = "close"
      BY <1>0, <2>1 DEF SameSave, Store!Writer
    <2>3. disk[writer.step].exists
      BY <2>1 DEF Placed, P!DirectoryInv, P!InPlace, P!Saving
    <2>4. QED
      BY <1>0, <2>1, <2>2, <2>3 DEF Store!Directory
  <1>3. CASE Store!CloseFile
    <2> DEFINE content == Store!Whole(writer.from, Store!Serialised(writer.file))
    <2> HIDE DEF content
    <2>1. /\ writer.pc = "close"
          /\ disk' = [disk EXCEPT ![writer.step].file[writer.file] = content]
          /\ writer' = [writer EXCEPT !.hash[writer.file] = content,
                         !.from = Store!NoVersion, !.file = Store!NextFile(writer.file),
                         !.pc = IF Store!NextFile(writer.file) = "none" THEN "meta" ELSE "open"]
          /\ UNCHANGED <<latest, best, writeError, live>>
      BY <1>3 DEF Store!CloseFile, content
    <2>2. SameSave /\ writer'.pc \in {"open", "meta"}
      BY <1>0, <2>1 DEF SameSave, Store!Writer
    <2>3. disk[writer.step].exists
      BY <2>1 DEF Placed, P!DirectoryInv, P!InPlace, P!Saving
    <2>4. QED
      BY <1>0, <2>1, <2>2, <2>3 DEF Store!Directory
  <1>4. QED
    BY <1>1, <1>2, <1>3

LEMMA MetaEffect ==
  ASSUME Placed, Store!WriteMeta
  PROVE  /\ writer.pc = "meta" /\ writer'.pc = "latest" /\ SameSave
         /\ UNCHANGED <<latest, best, writeError, live>>
         /\ disk'[writer.step].meta
         /\ disk'[writer.step].loss = writer.loss
         /\ disk'[writer.step].hash = writer.hash
         /\ \A d \in 1..MaxSteps : /\ disk'[d].exists = disk[d].exists
                                   /\ d # writer.step => disk'[d] = disk[d]
  <1>0. /\ disk \in [1..MaxSteps -> Store!Directory] /\ writer \in Store!Writer
    BY DEF Placed, LoopTypes, TypeOK, Store!TypeOK
  <1>1. /\ writer.pc = "meta" /\ writer' = [writer EXCEPT !.pc = "latest"]
        /\ disk' = [disk EXCEPT ![writer.step] =
                     [[[@ EXCEPT !.meta = TRUE] EXCEPT !.loss = writer.loss]
                         EXCEPT !.hash = writer.hash]]
        /\ UNCHANGED <<latest, best, writeError, live>>
    BY <1>0 DEF Store!WriteMeta
  <1>2. SameSave /\ writer'.pc = "latest"
    BY <1>0, <1>1 DEF SameSave, Store!Writer
  <1>3. writer.step \in 1..MaxSteps
    BY <1>1, SaveHasLabel DEF Store!Saving
  <1>4. QED
    BY <1>0, <1>1, <1>2, <1>3 DEF Store!Directory

\* After meta.json, and until pruning, the directory of the save verifies.
LEMMA WrittenIsLoadable ==
  ASSUME Placed, writer.pc \in {"latest", "best", "prune"}
  PROVE  Store!Loadable(writer.step)
  <1>1. /\ disk[writer.step].exists /\ disk[writer.step].meta
        /\ disk[writer.step].hash = writer.hash /\ writer.step \in 1..MaxSteps
        /\ \A f \in Store!FileNames : /\ writer.hash[f].state = "whole"
                                      /\ disk[writer.step].file[f] = writer.hash[f]
    BY DEF Placed, P!DirectoryInv, P!InPlace, P!Saving, P!Hashed, P!FileNames, Store!FileNames
  <1>2. disk[writer.step].file = writer.hash
    BY <1>1 DEF Placed, LoopTypes, TypeOK, Store!TypeOK, Store!Directory, Store!Writer
  <1>3. QED
    BY <1>1, <1>2 DEF Store!Loadable

LEMMA PublishEffect ==
  ASSUME Placed, Store!PublishLatest
  PROVE  /\ writer.pc = "latest" /\ writer'.pc \in {"best", "prune"} /\ SameSave
         /\ UNCHANGED <<disk, best, writeError, live>>
         /\ latest' = writer.step
         /\ Store!Loadable(writer.step)
  <1>1. writer \in Store!Writer
    BY DEF Placed, LoopTypes, TypeOK, Store!TypeOK
  <1>2. QED
    BY <1>1, WrittenIsLoadable DEF Store!PublishLatest, SameSave, Store!Writer

LEMMA BestEffect ==
  ASSUME Placed, Store!UpdateBest
  PROVE  /\ writer.pc = "best" /\ writer'.pc = "prune" /\ SameSave
         /\ UNCHANGED <<disk, latest, writeError, live>>
         /\ latest = writer.step
         /\ Store!Loadable(writer.step) /\ disk[writer.step].loss = writer.loss
         /\ best' = best \/ best' = [step |-> writer.step, loss |-> writer.loss]
  <1>1. writer \in Store!Writer
    BY DEF Placed, LoopTypes, TypeOK, Store!TypeOK
  <1>2. /\ writer.pc = "best" /\ writer'.pc = "prune" /\ SameSave
        /\ UNCHANGED <<disk, latest, writeError, live>>
        /\ best' = best \/ best' = [step |-> writer.step, loss |-> writer.loss]
    BY <1>1 DEF Store!UpdateBest, SameSave, Store!Writer
  <1>3. latest = writer.step /\ disk[writer.step].loss = writer.loss
    BY <1>2 DEF Placed, P!DirectoryInv, P!InPlace, P!Saving
  <1>4. QED
    BY <1>2, <1>3, WrittenIsLoadable

LEMMA ListEffect ==
  ASSUME Placed, Store!ListVictims
  PROVE  /\ writer.pc = "prune" /\ UNCHANGED <<disk, latest, best, writeError, live>>
         /\ latest = writer.step
         /\ Store!Loadable(writer.step)
         /\ \/ writer' = Store!Idle
            \/ writer'.pc = "rmtree" /\ SameSave /\ writer'.victims \subseteq Store!Excess
  <1>1. writer \in Store!Writer
    BY DEF Placed, LoopTypes, TypeOK, Store!TypeOK
  <1>2. /\ writer.pc = "prune" /\ UNCHANGED <<disk, latest, best, writeError, live>>
        /\ \/ writer' = Store!Idle
           \/ writer' = [writer EXCEPT !.pc = "rmtree", !.victims = Store!Excess \ {best.step}]
    BY DEF Store!ListVictims
  <1>3. latest = writer.step
    BY <1>2 DEF Placed, P!DirectoryInv, P!InPlace, P!Saving
  <1>4. QED
    BY <1>1, <1>2, <1>3, WrittenIsLoadable DEF SameSave, Store!Writer

\* rmtree takes files from one of the victims, never from the best directory.
LEMMA RemoveEffect ==
  ASSUME Placed, Store!RemoveDirectory
  PROVE  /\ writer.pc = "rmtree" /\ UNCHANGED <<latest, best, writeError, live>>
         /\ latest = writer.step
         /\ \/ writer' = Store!Idle
            \/ writer'.pc = "rmtree" /\ SameSave /\ writer'.victims \subseteq writer.victims
         /\ \E v \in writer.victims :
              /\ v # best.step
              /\ disk'[v].exists => disk[v].exists
              /\ disk'[v].meta => /\ disk[v].meta
                                  /\ disk'[v].hash = disk[v].hash
                                  /\ disk'[v].loss = disk[v].loss
              /\ \A d \in 1..MaxSteps : d # v => disk'[d] = disk[d]
  <1> DEFINE v == CHOOSE d \in writer.victims : \A e \in writer.victims : d <= e
  <1>0. /\ disk \in [1..MaxSteps -> Store!Directory] /\ writer \in Store!Writer
    BY DEF Placed, LoopTypes, TypeOK, Store!TypeOK
  <1>1. PICK kept \in SUBSET (Store!FileNames \cup {"meta"}) :
          /\ disk' = [disk EXCEPT ![v] = Store!Remains(disk[v], kept)]
          /\ writer' = IF writer.victims \ {v} = {} THEN Store!Idle
                       ELSE [writer EXCEPT !.victims = writer.victims \ {v}]
          /\ UNCHANGED <<latest, best, writeError, live>> /\ writer.pc = "rmtree"
    BY DEF Store!RemoveDirectory
  <1>2. /\ latest = writer.step /\ writer.victims # {} /\ best.step \notin writer.victims
    BY <1>1 DEF Placed, P!DirectoryInv, P!InPlace, P!Saving
  <1>3. v \in writer.victims /\ writer.victims \subseteq 1..MaxSteps
    <2>1. P!TypeOK
      BY SameTypeOK DEF Placed, LoopTypes, TypeOK
    <2>2. QED
      BY <1>0, <1>2, <2>1, StoreAssumptions, P!VictimIsListed DEF Store!Writer
  <1> HIDE DEF v
  <1>4. disk'[v] = Store!Remains(disk[v], kept) /\ disk[v] \in Store!Directory
    BY <1>0, <1>1, <1>3
  <1>5. /\ disk'[v].exists => disk[v].exists
        /\ disk'[v].meta => /\ disk[v].meta
                            /\ disk'[v].hash = disk[v].hash
                            /\ disk'[v].loss = disk[v].loss
    <2>1. CASE kept = {}
      BY <1>4, <2>1 DEF Store!Remains, Store!NoDirectory
    <2>2. CASE kept # {} /\ "meta" \in kept
      BY <1>4, <2>2 DEF Store!Remains, Store!Directory
    <2>3. CASE kept # {} /\ "meta" \notin kept
      <3>1. ~disk'[v].meta /\ disk'[v].exists = disk[v].exists
        BY <1>4, <2>3 DEF Store!Remains, Store!Directory
      <3>2. QED
        BY <3>1
    <2>4. QED
      BY <2>1, <2>2, <2>3
  <1>6. \/ writer' = Store!Idle
        \/ writer'.pc = "rmtree" /\ SameSave /\ writer'.victims \subseteq writer.victims
    BY <1>0, <1>1 DEF SameSave, Store!Writer
  <1>7. \A d \in 1..MaxSteps : d # v => disk'[d] = disk[d]
    BY <1>0, <1>1
  <1>8. QED
    BY <1>1, <1>2, <1>3, <1>5, <1>6, <1>7

\* A directory that is left alone verifies if it did before.
LEMMA StillLoadable ==
  ASSUME NEW d \in 1..MaxSteps, disk'[d] = disk[d]
  PROVE  Store!Loadable(d)' <=> Store!Loadable(d)
  BY DEF Store!Loadable

-----------------------------------------------------------------------------
(* Which save runs in which phase of the loop.                             *)

\* The label of the save in progress, and why the loop may go on meanwhile.
SaveInv ==
  Store!Saving =>
    /\ async \/ phase \in {"saving", "savingFinal"}
    /\ phase = "saving" => writer.step = step
    /\ phase \in {"savingFinal", "join"} => writer.step = MaxSteps
    /\ writer.step = MaxSteps \/ CheckpointDue(writer.step)
    /\ phase \in {"train", "final"} => writer.step <= step
    /\ phase \in {"evaluate", "checkpoint"} => writer.step < step
    /\ phase = "failed" => writer.step < MaxSteps
    /\ phase \notin {"done", "down"}

Saves == Placed /\ SaveInv

LEMMA BeginEffect ==
  ASSUME NEW label, NEW loss, Store!BeginSave(label, loss)
  PROVE  /\ ~Store!Saving /\ ~writeError
         /\ writer'.pc = "mkdir" /\ writer'.step = label /\ writer'.loss = loss
         /\ writer'.snap = live /\ writer'.file = "model"
         /\ UNCHANGED <<disk, latest, best, writeError, live>>
  BY DEF Store!BeginSave, Store!Idle

LEMMA WriterEffect ==
  ASSUME Placed, Store!WriterStep
  PROVE  /\ Store!Saving /\ UNCHANGED <<writeError, live>>
         /\ writer' = Store!Idle \/ (SameSave /\ Store!Saving')
  BY FilesEffect, MetaEffect, PublishEffect, BestEffect, ListEffect, RemoveEffect
     DEF Store!WriterStep, Store!Saving

LEMMA SaveInit == Init => Saves
  BY PlacedInit, IdleIsIdle DEF Init, Store!Init, Saves, SaveInv, Store!Saving

LEMMA SaveStep ==
  ASSUME Saves, [Next]_vars
  PROVE  Saves'
  <1>0. Placed'
    BY PlacedStep DEF Saves
  <1> SUFFICES SaveInv'
    BY <1>0 DEF Saves
  <1>a. /\ phase \in Phases /\ step \in 0..MaxSteps /\ LoopInv
        /\ Store!Saving => writer.step \in 1..MaxSteps
    BY SaveHasLabel DEF Saves, Placed, LoopTypes, TypeOK
  <1> USE StepsAssumption DEF SaveInv
  <1>1. CASE TrainStep
    <2>1. /\ step + 1 \in 1..MaxSteps /\ step' = step + 1 /\ phase = "train"
          /\ phase' \in {"evaluate", "checkpoint", "train", "final"}
          /\ writer' = writer /\ async' = async
      BY <1>1, <1>a, NextIterationType DEF TrainStep, Store!Mutate
    <2>2. QED
      BY <1>a, <2>1 DEF Saves, Store!Saving, CheckpointDue
  <1>2. CASE Evaluate
    <2>1. /\ phase = "evaluate" /\ step' = step /\ writer' = writer /\ async' = async
          /\ phase' \in {"final", AfterEval(step)}
      BY <1>2 DEF Evaluate, storeVars
    <2>2. phase' \in {"checkpoint", "train", "final"}
      BY <1>a, <2>1, NextIterationType
    <2>3. QED
      BY <1>a, <2>1, <2>2 DEF Saves, Store!Saving, CheckpointDue
  <1>3. CASE SavePeriodic
    <2>1. /\ phase = "checkpoint" /\ step' = step /\ async' = async
          /\ Store!BeginSave(step, evalLoss)
          /\ phase' = IF async THEN NextIteration(step) ELSE "saving"
      BY <1>3 DEF SavePeriodic
    <2>2. writer'.step = step /\ CheckpointDue(step) /\ NextIteration(step) \in {"train", "final"}
      BY <1>a, <2>1, BeginEffect, NextIterationType DEF LoopInv
    <2>3. QED
      BY <1>a, <2>1, <2>2 DEF CheckpointDue
  <1>4. CASE SaveFinal
    <2>1. /\ Store!BeginSave(MaxSteps, evalLoss) /\ async' = async
          /\ phase' = IF async THEN "join" ELSE "savingFinal"
      BY <1>4 DEF SaveFinal
    <2>2. writer'.step = MaxSteps
      BY <2>1, BeginEffect
    <2>3. QED
      BY <2>1, <2>2
  <1>5. CASE SaveReturns \/ Finish
    BY <1>5 DEF SaveReturns, Finish, storeVars, Store!Saving
  <1>6. CASE SaveRaises \/ ExitDropsError
    BY <1>6 DEF SaveRaises, ExitDropsError, Store!RaiseWriteError, Store!Saving
  <1>7. CASE Write
    <2>1. writer' = Store!Idle \/ (SameSave /\ Store!Saving /\ Store!Saving')
      BY <1>7, WriterEffect DEF Write, Saves
    <2>2. UNCHANGED <<phase, step, async>>
      BY <1>7 DEF Write, trainerVars
    <2>3. QED
      BY <2>1, <2>2, IdleIsIdle DEF Saves, Store!Saving, SameSave, CheckpointDue
  <1>8. CASE WriteFails \/ Crash
    BY <1>8, IdleIsIdle DEF WriteFails, Crash, Store!SaveFails, Store!Crash, Store!Saving
  <1>9. CASE TrainFails
    <2>1. phase = "train" /\ phase' = "failed" /\ writer' = writer /\ async' = async
      BY <1>9 DEF TrainFails, storeVars
    <2>2. QED
      BY <1>a, <2>1 DEF Saves, Store!Saving, LoopInv, CheckpointDue
  <1>10. CASE Resume \/ ResumeFails
    BY <1>10 DEF Resume, ResumeFails, NewProcess, Store!Load, Store!Saving, storeVars
  <1>11. CASE UNCHANGED vars
    BY <1>11 DEF vars, storeVars, trainerVars, Saves, Store!Saving, CheckpointDue
  <1>12. QED
    BY <1>1, <1>2, <1>3, <1>4, <1>5, <1>6, <1>7, <1>8, <1>9, <1>10, <1>11 DEF Next, TrainerStep

-----------------------------------------------------------------------------
(* fit() returns only with the final checkpoint on the disk.               *)

\* The final save has returned without an error.
FinalSaved == \/ phase \in {"savingFinal", "join"} /\ ~Store!Saving /\ ~writeError
              \/ phase = "done"

\* Pruning does not touch the largest label.
DoneInv ==
  /\ FinalSaved => latest = MaxSteps /\ Store!Loadable(MaxSteps)
  /\ writer.pc \in {"best", "prune", "rmtree"} /\ writer.step = MaxSteps => Store!Loadable(MaxSteps)
  /\ writer.pc = "rmtree" => MaxSteps \notin writer.victims

LEMMA SameCardinality == \A S : Store!Cardinality(S) = Cardinality(S)
  BY DEF Store!Cardinality, Cardinality

LEMMA LargestStays == MaxSteps \notin Store!Excess
  <1>1. {e \in Store!Existing : e > MaxSteps} = {}
    BY StepsAssumption DEF Store!Existing
  <1>2. Store!Cardinality({e \in Store!Existing : e > MaxSteps}) = 0
    BY <1>1, SameCardinality, FS_EmptySet
  <1>3. QED
    BY <1>2, StoreAssumption DEF Store!Excess

LEMMA DoneInit == Init => DoneInv
  BY IdleIsIdle DEF Init, Store!Init, DoneInv, FinalSaved

LEMMA DoneStep ==
  ASSUME Saves, DoneInv, [Next]_vars
  PROVE  DoneInv'
  <1>a. /\ phase \in Phases /\ step \in 0..MaxSteps /\ Placed /\ SaveInv /\ MaxSteps \in 1..MaxSteps
    BY StepsAssumption DEF Saves, Placed, LoopTypes, TypeOK
  <1>b. disk' = disk => (Store!Loadable(MaxSteps)' <=> Store!Loadable(MaxSteps))
    BY <1>a, StillLoadable
  <1>1. CASE TrainStep
    <2>1. /\ phase' \in {"evaluate", "checkpoint", "train", "final"}
          /\ UNCHANGED <<disk, latest, writer>>
      BY <1>1, <1>a, NextIterationType DEF TrainStep, Store!Mutate
    <2>2. QED
      BY <1>b, <2>1 DEF DoneInv, FinalSaved
  <1>2. CASE Evaluate
    <2>1. /\ phase' \in {"final", AfterEval(step)} /\ UNCHANGED <<disk, latest, writer>>
      BY <1>2 DEF Evaluate, storeVars
    <2>2. phase' \in {"checkpoint", "train", "final"}
      BY <1>a, <2>1, NextIterationType
    <2>3. QED
      BY <1>b, <2>1, <2>2 DEF DoneInv, FinalSaved
  <1>3. CASE SavePeriodic \/ SaveFinal
    <2>1. /\ writer'.pc = "mkdir" /\ UNCHANGED <<disk, latest>>
      BY <1>3, BeginEffect DEF SavePeriodic, SaveFinal
    <2>2. phase' # "done"
      BY <1>3, <1>a, NextIterationType DEF SavePeriodic, SaveFinal
    <2>3. QED
      BY <2>1, <2>2 DEF DoneInv, FinalSaved, Store!Saving
  <1>4. CASE SaveReturns
    <2>1. /\ phase \in {"saving", "savingFinal"} /\ ~Store!Saving /\ ~writeError
          /\ phase' \in {"train", "final"} \/ (phase = "savingFinal" /\ phase' = "join")
          /\ UNCHANGED <<disk, latest, writer, writeError>>
      BY <1>4, <1>a, NextIterationType DEF SaveReturns, storeVars
    <2>2. QED
      BY <1>b, <2>1 DEF DoneInv, FinalSaved, Store!Saving
  <1>5. CASE Finish
    BY <1>5, <1>b DEF Finish, storeVars, DoneInv, FinalSaved, Store!Saving
  <1>6. CASE SaveRaises \/ ExitDropsError
    BY <1>6, <1>b DEF SaveRaises, ExitDropsError, Store!RaiseWriteError, DoneInv, FinalSaved,
                      trainerVars
  <1>7. CASE Write
    <2>0. UNCHANGED <<phase, step>> /\ Store!WriterStep
      BY <1>7 DEF Write, trainerVars
    <2>1. CASE Store!MakeDirectory \/ Store!OpenFile \/ Store!CloseFile \/ Store!WriteMeta
      <3>1. /\ writer'.pc \in {"open", "close", "meta", "latest"}
            /\ writer.pc \in {"mkdir", "open", "close", "meta"}
        BY <1>a, <2>1, FilesEffect, MetaEffect
      <3>2. QED
        BY <1>a, <2>0, <3>1 DEF DoneInv, FinalSaved, Store!Saving, SaveInv
    <2>2. CASE Store!PublishLatest \/ Store!UpdateBest
      <3>1. /\ writer'.pc \in {"best", "prune"} /\ SameSave /\ disk' = disk
            /\ writer.pc \in {"latest", "best"} /\ Store!Loadable(writer.step)
        BY <1>a, <2>2, PublishEffect, BestEffect
      <3>2. QED
        BY <1>a, <1>b, <2>0, <3>1 DEF DoneInv, FinalSaved, Store!Saving, SaveInv, SameSave
    <2>3. CASE Store!ListVictims
      <3>1. /\ writer.pc = "prune" /\ disk' = disk /\ latest' = latest
            /\ latest = writer.step /\ Store!Loadable(writer.step)
            /\ \/ writer' = Store!Idle
               \/ writer'.pc = "rmtree" /\ SameSave /\ writer'.victims \subseteq Store!Excess
        BY <1>a, <2>3, ListEffect
      <3>2. FinalSaved' => writer.step = MaxSteps
        BY <1>a, <2>0, <3>1 DEF FinalSaved, Store!Saving, SaveInv
      <3>3. QED
        BY <1>b, <3>1, <3>2, LargestStays, IdleIsIdle DEF DoneInv, SameSave
    <2>4. CASE Store!RemoveDirectory
      <3>1. PICK v \in writer.victims :
              /\ writer.pc = "rmtree" /\ latest' = latest /\ latest = writer.step
              /\ \/ writer' = Store!Idle
                 \/ writer'.pc = "rmtree" /\ SameSave /\ writer'.victims \subseteq writer.victims
              /\ \A d \in 1..MaxSteps : d # v => disk'[d] = disk[d]
        BY <1>a, <2>4, RemoveEffect
      <3>2. Store!Loadable(MaxSteps)' <=> Store!Loadable(MaxSteps)
        BY <1>a, <3>1, StillLoadable DEF DoneInv
      <3>3. FinalSaved' => writer.step = MaxSteps
        BY <1>a, <2>0, <3>1 DEF FinalSaved, Store!Saving, SaveInv
      <3>4. QED
        BY <3>1, <3>2, <3>3, IdleIsIdle DEF DoneInv, SameSave
    <2>5. QED
      BY <2>0, <2>1, <2>2, <2>3, <2>4 DEF Store!WriterStep
  <1>8. CASE WriteFails
    <2>1. /\ Store!Saving /\ writer' = Store!Idle /\ writeError' /\ phase' = phase
      BY <1>8 DEF WriteFails, Store!SaveFails, Store!Saving, trainerVars
    <2>2. QED
      BY <1>a, <2>1, IdleIsIdle DEF DoneInv, FinalSaved, SaveInv
  <1>9. CASE Crash
    BY <1>9, IdleIsIdle DEF Crash, Store!Crash, DoneInv, FinalSaved
  <1>10. CASE TrainFails
    BY <1>10, <1>b DEF TrainFails, storeVars, DoneInv, FinalSaved
  <1>11. CASE Resume
    <2>1. PICK d \in ResumeTargets : Store!Load(d) /\ phase' = NextIteration(d)
      BY <1>11 DEF Resume
    <2>2. phase' \in {"train", "final"} /\ UNCHANGED <<disk, latest, writer>>
      BY <2>1 DEF NextIteration, Store!Load
    <2>3. QED
      BY <1>b, <2>2 DEF DoneInv, FinalSaved
  <1>12. CASE ResumeFails
    BY <1>12, <1>b DEF ResumeFails, storeVars, DoneInv, FinalSaved
  <1>13. CASE UNCHANGED vars
    BY <1>13, <1>b DEF vars, storeVars, trainerVars, DoneInv, FinalSaved, Store!Saving
  <1>14. QED
    BY <1>1, <1>2, <1>3, <1>4, <1>5, <1>6, <1>7, <1>8, <1>9, <1>10, <1>11, <1>12, <1>13
       DEF Next, TrainerStep

\* fit() returns only when the final checkpoint is published and verifies.
THEOREM ReturnsSaved == Spec => []DoneMeansSaved
  <1>1. Saves /\ [Next]_vars => Saves'
    BY SaveStep
  <1>2. Saves /\ DoneInv /\ [Next]_vars => DoneInv'
    BY DoneStep
  <1>3. DoneInv => DoneMeansSaved
    BY DEF DoneInv, FinalSaved, DoneMeansSaved
  <1>4. QED
    BY SaveInit, DoneInit, <1>1, <1>2, <1>3, PTL DEF Spec

-----------------------------------------------------------------------------
(* The order of the labels, when a run resumes from the pointers only.     *)

LEMMA MultipleAfter ==
  ASSUME NEW n \in Nat \ {0}, NEW a \in Nat, a % n = 0
  PROVE  (a + n) % n = 0
<1> DEFINE q == (a \div n) + 1
<1>1. q \in Int /\ n * (a \div n) = a /\ a \div n \in Int
  BY Quotient
<1>2. n * q + 0 = a + n
  BY <1>1
<1> HIDE DEF q
<1>3. (n * q + 0) % n = 0
  BY <1>1, QuotientUnique
<1> QED  BY <1>2, <1>3

\* Of the numbers an interval behind a multiple only the last is a multiple.
LEMMA NextMultiple ==
  ASSUME NEW n \in Nat \ {0}, NEW a \in Nat, NEW b \in Nat,
         a % n = 0, b % n = 0, a < b, b <= a + n
  PROVE  b = a + n
<1>1. /\ a \div n \in Int /\ n * (a \div n) = a
      /\ b \div n \in Int /\ n * (b \div n) = b
  BY Quotient
<1> DEFINE k == (b \div n) - (a \div n)
<1>2. k \in Int /\ n * k = b - a
  BY <1>1
<1> HIDE DEF k
<1>3. k >= 1
  <2> SUFFICES ASSUME ~(k >= 1) PROVE FALSE
    OBVIOUS
  <2>1. 0 - k \in Nat
    BY <1>2
  <2>2. n * (0 - k) \in Nat /\ n * (0 - k) = 0 - n * k
    BY <1>2, <2>1
  <2>3. QED
    BY <1>2, <2>2
<1>4. ~(k - 1 >= 1)
  <2> SUFFICES ASSUME k - 1 >= 1 PROVE FALSE
    OBVIOUS
  <2>1. n * (k - 1) >= n /\ n * (k - 1) = n * k - n
    BY <1>2, Multiple
  <2>2. QED
    BY <1>2, <2>1
<1>5. k = 1
  BY <1>2, <1>3, <1>4
<1> QED  BY <1>2, <1>5

\* What latest.json names, or will if the save in progress gets that far.
Base == IF Unpublished THEN writer.step ELSE latest

Listed == {d \in 1..MaxSteps : disk[d].exists}

\* max_steps can follow the published label: after an early stop at any time,
\* otherwise only when no periodic save comes between.
EndIsNext == Patience > 0 \/ MaxSteps <= latest + CheckpointInterval

\* The loop is ahead of latest.json, by an interval at most unless a save
\* failed; so is the save in progress, and nothing else lies behind latest.json.
OrderInv ==
  /\ best.step <= latest
  /\ latest = MaxSteps \/ CheckpointDue(latest)
  /\ phase \in {"train", "saving"} => latest <= step
  /\ phase \in {"evaluate", "checkpoint"} => latest < step
  /\ Unpublished => \/ latest < MaxSteps /\ writer.step = latest + CheckpointInterval
                    \/ writer.step = MaxSteps /\ EndIsNext
  /\ \A d \in Listed : d <= latest \/ d = latest + CheckpointInterval \/ (d = MaxSteps /\ EndIsNext)
  /\ writer.pc \in {"best", "prune", "rmtree"} =>
       \A d \in Listed : d <= latest \/ (d = MaxSteps /\ Patience > 0)
  /\ ~writeError =>
       /\ phase = "train" => step < Base + CheckpointInterval
       /\ phase \in {"evaluate", "checkpoint"} => step <= Base + CheckpointInterval
       /\ phase = "saving" => Base = step
       /\ phase = "final" => \/ MaxSteps <= Base + CheckpointInterval
                             \/ Patience > 0 /\ step < MaxSteps

Ordered == Saves /\ OrderInv

LEMMA OrderTypes ==
  ASSUME Saves
  PROVE  /\ latest \in 0..MaxSteps /\ best.step \in 0..MaxSteps /\ step \in 0..MaxSteps
         /\ MaxSteps \in Nat \ {0} /\ CheckpointInterval \in Nat \ {0}
         /\ Store!Saving => writer.step \in 1..MaxSteps
         /\ Unpublished => Store!Saving
         /\ phase \in Phases /\ LoopInv /\ SaveInv /\ Placed /\ Patience \in Nat
         /\ writeError \in BOOLEAN
  BY SaveHasLabel, StepsAssumption, IntervalsAssumption, PatienceAssumption
     DEF Saves, Placed, LoopTypes, TypeOK, Store!TypeOK, Store!NoStep, Unpublished, Store!Saving

LEMMA BaseIsDue ==
  ASSUME Ordered
  PROVE  Base \in 0..MaxSteps /\ (Base = MaxSteps \/ CheckpointDue(Base))
  BY OrderTypes DEF Ordered, OrderInv, SaveInv, Base

\* A step that is no multiple of the interval has not used it up.
LEMMA NotDue ==
  ASSUME Ordered, NEW s \in 1..MaxSteps, s <= Base + CheckpointInterval, ~CheckpointDue(s),
         s < MaxSteps
  PROVE  s < Base + CheckpointInterval
  <1>1. Base \in 0..MaxSteps /\ (Base = MaxSteps \/ CheckpointDue(Base))
    BY BaseIsDue
  <1>2. CASE Base = MaxSteps
    BY <1>2, StepsAssumption, IntervalsAssumption
  <1>3. CASE CheckpointDue(Base)
    <2>0. Base \in Nat /\ Base % CheckpointInterval = 0 /\ CheckpointInterval \in Nat \ {0}
      BY <1>1, <1>3, StepsAssumption, IntervalsAssumption DEF CheckpointDue
    <2>1. (Base + CheckpointInterval) % CheckpointInterval = 0
      BY <2>0, MultipleAfter
    <2>2. s # Base + CheckpointInterval
      BY <2>1 DEF CheckpointDue
    <2>3. QED
      BY <1>1, <2>2, StepsAssumption, IntervalsAssumption
  <1>4. QED
    BY <1>1, <1>2, <1>3

LEMMA OrderInit == Init => OrderInv
  <1> SUFFICES ASSUME Init PROVE OrderInv
    OBVIOUS
  <1>1. /\ latest = 0 /\ best.step = 0 /\ writer.pc = "idle" /\ step = 0 /\ phase = "train"
        /\ \A d \in 1..MaxSteps : ~disk[d].exists
    BY IdleIsIdle DEF Init, Store!Init, Store!NoStep, Store!NoDirectory
  <1>2. 0 % CheckpointInterval = 0
    BY IntervalsAssumption
  <1>3. QED
    BY <1>1, <1>2, IntervalsAssumption DEF OrderInv, Base, Unpublished, Listed, CheckpointDue

\* What the loop does between two saves leaves the store as it is.
LEMMA OrderInStore ==
  ASSUME UNCHANGED <<disk, latest, best, writer>>
  PROVE  /\ Base' = Base /\ Listed' = Listed /\ (EndIsNext' <=> EndIsNext)
         /\ (Unpublished' <=> Unpublished) /\ (Store!Saving' <=> Store!Saving)
  BY DEF Base, Unpublished, Listed, EndIsNext, Store!Saving

\* Without --resume of a step directory, a run starts at the published label.
LEMMA ResumesAtLatest ==
  ASSUME ~ResumeFromStepDir, Ordered, NEW d \in ResumeTargets
  PROVE  d = latest /\ d \in 1..MaxSteps
  <1>1. latest \in 0..MaxSteps /\ best.step \in 0..MaxSteps /\ best.step <= latest
    BY OrderTypes DEF Ordered, OrderInv
  <1>2. QED
    BY <1>1 DEF ResumeTargets, NoStep, Store!NoStep

LEMMA OrderStep ==
  ASSUME ~ResumeFromStepDir, Ordered, [Next]_vars
  PROVE  OrderInv'
  <1>a. /\ latest \in 0..MaxSteps /\ best.step \in 0..MaxSteps /\ step \in 0..MaxSteps
        /\ MaxSteps \in Nat \ {0} /\ CheckpointInterval \in Nat \ {0}
        /\ Store!Saving => writer.step \in 1..MaxSteps
        /\ Unpublished => Store!Saving
        /\ phase \in Phases /\ LoopInv /\ SaveInv /\ Placed /\ Patience \in Nat
        /\ writeError \in BOOLEAN
    BY OrderTypes DEF Ordered
  <1>b. Base \in 0..MaxSteps /\ (Base = MaxSteps \/ CheckpointDue(Base))
    BY BaseIsDue
  <1>c. OrderInv
    BY DEF Ordered
  <1>1. CASE TrainStep
    <2>1. /\ step < MaxSteps /\ step' = step + 1 /\ phase = "train"
          /\ phase' = IF EvalDue(step + 1) THEN "evaluate" ELSE AfterEval(step + 1)
          /\ UNCHANGED <<disk, latest, best, writer, writeError>>
      BY <1>1 DEF TrainStep, Store!Mutate
    <2>2. /\ Base' = Base /\ Listed' = Listed /\ (EndIsNext' <=> EndIsNext)
          /\ (Unpublished' <=> Unpublished)
      BY <2>1, OrderInStore
    <2>3. step + 1 \in 1..MaxSteps /\ latest < step + 1
      BY <1>a, <1>c, <2>1 DEF OrderInv
    <2>4. ~writeError => step + 1 <= Base + CheckpointInterval
      BY <1>a, <1>b, <1>c, <2>1 DEF OrderInv
    <2>5. /\ phase' \in {"evaluate", "checkpoint", "train", "final"}
          /\ phase' = "train" => step + 1 < MaxSteps /\ ~CheckpointDue(step + 1)
          /\ phase' = "final" => step + 1 = MaxSteps
      BY <1>a, <2>1, <2>3, NextIterationType
    <2>6. ~writeError /\ phase' = "train" => step + 1 < Base + CheckpointInterval
      BY <2>3, <2>4, <2>5, NotDue
    <2>7. QED
      BY <1>a, <1>c, <2>1, <2>2, <2>3, <2>4, <2>5, <2>6 DEF OrderInv, CheckpointDue
  <1>2. CASE Evaluate
    <2>1. /\ phase = "evaluate" /\ step' = step
          /\ phase' = AfterEval(step) \/ (phase' = "final" /\ Patience > 0)
          /\ UNCHANGED <<disk, latest, best, writer, writeError>>
      BY <1>2 DEF Evaluate, storeVars
    <2>2. /\ Base' = Base /\ Listed' = Listed /\ (EndIsNext' <=> EndIsNext)
          /\ (Unpublished' <=> Unpublished)
      BY <2>1, OrderInStore
    <2>3. /\ step \in 1..MaxSteps /\ latest < step
          /\ ~writeError => step <= Base + CheckpointInterval
      BY <1>a, <1>c, <2>1 DEF OrderInv
    <2>4. /\ phase' \in {"checkpoint", "train", "final"}
          /\ phase' = "train" => step < MaxSteps /\ ~CheckpointDue(step)
          /\ phase' = "final" => step = MaxSteps \/ Patience > 0
      BY <1>a, <2>1, NextIterationType
    <2>5. ~writeError /\ phase' = "train" => step < Base + CheckpointInterval
      BY <2>3, <2>4, NotDue
    <2>6. ~writeError /\ phase' = "final" => \/ MaxSteps <= Base + CheckpointInterval
                                             \/ Patience > 0 /\ step < MaxSteps
      BY <1>a, <1>b, <2>3, <2>4
    <2>7. QED
      BY <1>a, <1>c, <2>1, <2>2, <2>3, <2>4, <2>5, <2>6 DEF OrderInv, CheckpointDue
  <1>3. CASE SavePeriodic
    <2>1. /\ phase = "checkpoint" /\ step' = step /\ Store!BeginSave(step, evalLoss)
          /\ phase' \in {NextIteration(step), "saving"}
      BY <1>3 DEF SavePeriodic
    <2>2. /\ ~Store!Saving /\ ~writeError /\ writer'.pc = "mkdir" /\ writer'.step = step
          /\ UNCHANGED <<disk, latest, best, writeError>>
      BY <2>1, BeginEffect
    <2>3. Base = latest /\ Base' = step /\ Unpublished' /\ Listed' = Listed
          /\ (EndIsNext' <=> EndIsNext)
      BY <1>a, <2>2 DEF Base, Unpublished, Listed, EndIsNext
    <2>4. /\ latest < step /\ step <= latest + CheckpointInterval /\ CheckpointDue(step)
          /\ CheckpointDue(latest)
      BY <1>a, <1>c, <2>1, <2>2, <2>3 DEF OrderInv, LoopInv
    <2>5. step = latest + CheckpointInterval
      BY <1>a, <2>4, NextMultiple DEF CheckpointDue
    <2>6. \/ phase' = "train" /\ step < MaxSteps
          \/ phase' = "final" /\ step = MaxSteps
          \/ phase' = "saving"
      BY <1>a, <2>1, NextIterationType
    <2>7. QED
      BY <1>a, <1>c, <2>1, <2>2, <2>3, <2>4, <2>5, <2>6 DEF OrderInv, CheckpointDue
  <1>4. CASE SaveFinal
    <2>1. /\ phase = "final" /\ step' = step /\ Store!BeginSave(MaxSteps, evalLoss)
          /\ phase' \in {"join", "savingFinal"}
      BY <1>4 DEF SaveFinal
    <2>2. /\ ~Store!Saving /\ ~writeError /\ writer'.pc = "mkdir" /\ writer'.step = MaxSteps
          /\ UNCHANGED <<disk, latest, best, writeError>>
      BY <2>1, BeginEffect
    <2>3. Base = latest /\ Listed' = Listed /\ (EndIsNext' <=> EndIsNext)
      BY <1>a, <2>2 DEF Base, Listed, EndIsNext
    <2>4. EndIsNext
      BY <1>a, <1>c, <2>1, <2>2, <2>3 DEF OrderInv, EndIsNext
    <2>5. QED
      BY <1>a, <1>c, <2>1, <2>2, <2>3, <2>4 DEF OrderInv, CheckpointDue
  <1>5. CASE SaveReturns
    <2>1. /\ phase \in {"saving", "savingFinal"} /\ step' = step /\ ~writeError
          /\ UNCHANGED <<disk, latest, best, writer, writeError>> /\ ~Store!Saving
          /\ phase' = IF phase = "saving" THEN NextIteration(step) ELSE "join"
      BY <1>5 DEF SaveReturns, storeVars
    <2>2. /\ Base' = Base /\ Listed' = Listed /\ (EndIsNext' <=> EndIsNext)
          /\ (Unpublished' <=> Unpublished)
      BY <2>1, OrderInStore
    <2>3. \/ phase' = "join"
          \/ phase = "saving" /\ phase' = "train" /\ step < MaxSteps
          \/ phase = "saving" /\ phase' = "final" /\ step = MaxSteps
      BY <1>a, <2>1, NextIterationType
    <2>4. QED
      BY <1>a, <1>b, <1>c, <2>1, <2>2, <2>3 DEF OrderInv, CheckpointDue
  <1>6. CASE SaveRaises \/ ExitDropsError
    <2>1. /\ phase' = "failed" /\ UNCHANGED <<disk, latest, best, writer>>
      BY <1>6 DEF SaveRaises, ExitDropsError, Store!RaiseWriteError, trainerVars
    <2>2. /\ Listed' = Listed /\ (EndIsNext' <=> EndIsNext) /\ (Unpublished' <=> Unpublished)
      BY <2>1, OrderInStore
    <2>3. QED
      BY <1>a, <1>c, <2>1, <2>2 DEF OrderInv, CheckpointDue
  <1>7. CASE Write
    <2>0. UNCHANGED <<phase, step>> /\ Store!WriterStep
      BY <1>7 DEF Write, trainerVars
    <2>1. CASE Store!MakeDirectory \/ Store!OpenFile \/ Store!CloseFile \/ Store!WriteMeta
      <3>1. /\ Unpublished /\ Unpublished' /\ writer'.step = writer.step
            /\ writer'.pc \notin {"best", "prune", "rmtree"}
            /\ UNCHANGED <<latest, best, writeError>>
            /\ \A d \in 1..MaxSteps : disk'[d].exists => disk[d].exists \/ d = writer.step
        BY <1>a, <2>1, FilesEffect, MetaEffect DEF Unpublished, SameSave
      <3>2. Base' = Base /\ (EndIsNext' <=> EndIsNext)
        BY <3>1 DEF Base, EndIsNext
      <3>3. \A d \in Listed' : d \in Listed \/ d = writer.step
        BY <3>1 DEF Listed
      <3>4. QED
        BY <1>a, <1>c, <2>0, <3>1, <3>2, <3>3 DEF OrderInv, CheckpointDue
    <2>2. CASE Store!PublishLatest
      <3>1. /\ writer.pc = "latest" /\ writer'.pc \in {"best", "prune"}
            /\ writer'.step = writer.step
            /\ UNCHANGED <<disk, best, writeError>> /\ latest' = writer.step
        BY <1>a, <2>2, PublishEffect DEF SameSave
      <3>2. /\ Unpublished /\ ~Unpublished' /\ Base = writer.step /\ Base' = writer.step
            /\ Store!Saving /\ Listed' = Listed /\ writer.step \in 1..MaxSteps
        BY <1>a, <3>1 DEF Base, Unpublished, Listed, Store!Saving
      <3>3. latest <= writer.step
        BY <1>a, <1>c, <3>2 DEF OrderInv
      <3>4. \A d \in Listed : d <= writer.step \/ (d = MaxSteps /\ Patience > 0)
        BY <1>a, <1>c, <3>2, <3>3 DEF OrderInv, EndIsNext, Listed
      <3>5. /\ writer.step = MaxSteps \/ CheckpointDue(writer.step)
            /\ phase \in {"train", "saving"} => writer.step <= step
            /\ phase \in {"evaluate", "checkpoint"} => writer.step < step
        BY <1>a, <3>2 DEF SaveInv
      <3>6. \A d \in Listed : d <= writer.step \/ (d = MaxSteps /\ EndIsNext')
        BY <3>4 DEF EndIsNext
      <3>7. QED
        BY <1>a, <1>c, <2>0, <3>1, <3>2, <3>3, <3>4, <3>5, <3>6 DEF OrderInv, CheckpointDue
    <2>3. CASE Store!UpdateBest
      <3>1. /\ writer.pc = "best" /\ writer'.pc = "prune" /\ writer'.step = writer.step
            /\ UNCHANGED <<disk, latest, writeError>> /\ latest = writer.step
            /\ best'.step \in {best.step, writer.step}
        BY <1>a, <2>3, BestEffect DEF SameSave
      <3>2. /\ ~Unpublished /\ ~Unpublished' /\ Base = latest /\ Base' = latest
            /\ Listed' = Listed /\ (EndIsNext' <=> EndIsNext)
        BY <3>1 DEF Base, Unpublished, Listed, EndIsNext
      <3>3. QED
        BY <1>a, <1>c, <2>0, <3>1, <3>2 DEF OrderInv, CheckpointDue
    <2>4. CASE Store!ListVictims \/ Store!RemoveDirectory
      <3>1. /\ writer.pc \in {"prune", "rmtree"} /\ writer'.pc \in {"idle", "rmtree"}
            /\ UNCHANGED <<latest, best, writeError>>
            /\ \A d \in 1..MaxSteps : disk'[d].exists => disk[d].exists
        BY <1>a, <2>4, ListEffect, RemoveEffect, IdleIsIdle
      <3>2. /\ ~Unpublished /\ ~Unpublished' /\ Base = latest /\ Base' = latest
            /\ Listed' \subseteq Listed /\ (EndIsNext' <=> EndIsNext)
        BY <3>1 DEF Base, Unpublished, Listed, EndIsNext
      <3>3. QED
        BY <1>a, <1>c, <2>0, <3>1, <3>2 DEF OrderInv, CheckpointDue
    <2>5. QED
      BY <2>0, <2>1, <2>2, <2>3, <2>4 DEF Store!WriterStep
  <1>8. CASE WriteFails
    <2>1. /\ writer'.pc = "idle" /\ writeError' /\ UNCHANGED <<disk, latest, best, phase, step>>
      BY <1>8, IdleIsIdle DEF WriteFails, Store!SaveFails, trainerVars
    <2>2. Listed' = Listed /\ ~Unpublished' /\ (EndIsNext' <=> EndIsNext)
      BY <2>1 DEF Listed, Unpublished, EndIsNext
    <2>3. QED
      BY <1>c, <2>1, <2>2 DEF OrderInv, CheckpointDue
  <1>9. CASE Crash
    <2>1. /\ writer'.pc = "idle" /\ phase' = "down" /\ UNCHANGED <<disk, latest, best>>
      BY <1>9, IdleIsIdle DEF Crash, Store!Crash
    <2>2. Listed' = Listed /\ ~Unpublished' /\ (EndIsNext' <=> EndIsNext)
      BY <2>1 DEF Listed, Unpublished, EndIsNext
    <2>3. QED
      BY <1>c, <2>1, <2>2 DEF OrderInv, CheckpointDue
  <1>10. CASE TrainFails \/ ResumeFails \/ Finish
    <2>1. /\ phase' \in {"failed", "done"} /\ UNCHANGED <<disk, latest, best, writer>>
      BY <1>10 DEF TrainFails, ResumeFails, Finish, storeVars
    <2>2. /\ Listed' = Listed /\ (EndIsNext' <=> EndIsNext) /\ (Unpublished' <=> Unpublished)
      BY <2>1, OrderInStore
    <2>3. writer' = writer
      BY <2>1
    <2>4. QED
      BY <1>a, <1>c, <2>1, <2>2, <2>3 DEF OrderInv, CheckpointDue
  <1>11. CASE Resume
    <2>1. PICK d \in ResumeTargets : Store!Load(d) /\ step' = d /\ phase' = NextIteration(d)
      BY <1>11 DEF Resume
    <2>2. /\ UNCHANGED <<disk, latest, best, writer, writeError>> /\ ~Store!Saving
          /\ d = latest /\ d \in 1..MaxSteps
      BY <2>1, ResumesAtLatest DEF Store!Load
    <2>3. /\ Base' = Base /\ Listed' = Listed /\ (EndIsNext' <=> EndIsNext)
          /\ (Unpublished' <=> Unpublished) /\ Base = latest
      BY <1>a, <2>2, OrderInStore DEF Base
    <2>4. \/ phase' = "train" /\ d < MaxSteps
          \/ phase' = "final" /\ d = MaxSteps
      BY <1>a, <2>1, <2>2, NextIterationType
    <2>5. QED
      BY <1>a, <1>c, <2>1, <2>2, <2>3, <2>4 DEF OrderInv, CheckpointDue
  <1>12. CASE UNCHANGED vars
    <2>1. UNCHANGED <<disk, latest, best, writer, writeError, phase, step>>
      BY <1>12 DEF vars, storeVars, trainerVars
    <2>2. /\ Base' = Base /\ Listed' = Listed /\ (EndIsNext' <=> EndIsNext)
          /\ (Unpublished' <=> Unpublished)
      BY <2>1, OrderInStore
    <2>3. QED
      BY <1>c, <2>1, <2>2 DEF OrderInv, CheckpointDue
  <1>13. QED
    BY <1>1, <1>2, <1>3, <1>4, <1>5, <1>6, <1>7, <1>8, <1>9, <1>10, <1>11, <1>12
       DEF Next, TrainerStep

LEMMA OrderedStep ==
  ASSUME ~ResumeFromStepDir, Ordered, [Next]_vars
  PROVE  Ordered'
  BY SaveStep, OrderStep DEF Ordered

-----------------------------------------------------------------------------
(* latest.json names a directory that is there.                            *)

\* Only the writer changes the directories and the pointers.
LEMMA OutsideWriter ==
  ASSUME [Next]_vars, ~Write
  PROVE  /\ UNCHANGED <<disk, latest, best>>
         /\ \/ writer' = writer
            \/ writer'.pc = "idle"
            \/ writer'.pc = "mkdir" /\ SavePeriodic
            \/ writer'.pc = "mkdir" /\ SaveFinal
  <1>1. CASE TrainStep \/ Evaluate \/ SaveReturns \/ SaveRaises \/ Finish
    BY <1>1 DEF TrainStep, Store!Mutate, Evaluate, SaveReturns, SaveRaises, Finish,
                Store!RaiseWriteError, storeVars
  <1>2. CASE SavePeriodic \/ SaveFinal
    BY <1>2, BeginEffect DEF SavePeriodic, SaveFinal
  <1>3. CASE WriteFails \/ Crash
    BY <1>3, IdleIsIdle DEF WriteFails, Crash, Store!SaveFails, Store!Crash
  <1>4. CASE TrainFails \/ ExitDropsError \/ Resume \/ ResumeFails \/ UNCHANGED vars
    BY <1>4 DEF TrainFails, ExitDropsError, Resume, ResumeFails, Store!RaiseWriteError,
                Store!Load, storeVars, vars
  <1>5. QED
    BY <1>1, <1>2, <1>3, <1>4 DEF Next, TrainerStep

\* _prune keeps a directory that is the last one or has only one behind it.
LEMMA SparesTheLast ==
  ASSUME NEW d \in 1..MaxSteps,
         \/ \A e \in Listed : e <= d
         \/ KeepLastN > 1 /\ \A e \in Listed : e <= d \/ e = MaxSteps
  PROVE  d \notin Store!Excess
  <1> DEFINE above == {e \in Store!Existing : e > d}
  <1>1. Store!Cardinality(above) = Cardinality(above) /\ KeepLastN \in Nat \ {0}
    BY SameCardinality, StoreAssumption
  <1>2. Store!Existing = Listed
    BY DEF Store!Existing, Listed
  <1>3. CASE \A e \in Listed : e <= d
    <2>1. above = {}
      BY <1>2, <1>3 DEF Listed
    <2>2. QED
      BY <1>1, <2>1, FS_EmptySet DEF Store!Excess
  <1>4. CASE KeepLastN > 1 /\ \A e \in Listed : e <= d \/ e = MaxSteps
    <2>1. above \subseteq {MaxSteps}
      BY <1>2, <1>4 DEF Listed
    <2>2. IsFiniteSet({MaxSteps}) /\ Cardinality({MaxSteps}) = 1
      BY FS_Singleton
    <2>3. Cardinality(above) \in Nat /\ Cardinality(above) <= 1
      BY <2>1, <2>2, FS_Subset, FS_CardinalityType
    <2> HIDE DEF above
    <2>4. ~(Cardinality(above) >= KeepLastN)
      BY <1>1, <1>4, <2>3
    <2>5. QED
      BY <1>1, <2>4 DEF Store!Excess, above
  <1>5. QED
    BY <1>3, <1>4

\* The published directory is never a victim, so it keeps its meta.json.
LatestInv ==
  /\ writer.pc = "rmtree" => latest \notin writer.victims
  /\ latest # 0 => disk[latest].exists /\ disk[latest].meta

LEMMA LatestInit == Init => LatestInv
  BY IdleIsIdle DEF Init, Store!Init, LatestInv, Store!NoStep

LEMMA LatestIsSpared ==
  ASSUME KeepLastN > 1 \/ Patience = 0, Ordered, writer.pc = "prune"
  PROVE  latest \notin Store!Excess
  <1>1. \A d \in Listed : d <= latest \/ (d = MaxSteps /\ Patience > 0)
    BY DEF Ordered, OrderInv
  <1>2. latest \in 0..MaxSteps
    BY OrderTypes DEF Ordered
  <1>3. CASE latest = 0
    BY <1>3 DEF Store!Excess, Store!Existing
  <1>4. CASE latest \in 1..MaxSteps
    BY <1>1, <1>4, SparesTheLast, PatienceAssumption
  <1>5. QED
    BY <1>2, <1>3, <1>4

LEMMA LatestStep ==
  ASSUME KeepLastN > 1 \/ Patience = 0, Ordered, LatestInv, [Next]_vars
  PROVE  LatestInv'
  <1>a. latest \in 0..MaxSteps /\ Placed /\ (Store!Saving => writer.step \in 1..MaxSteps)
    BY OrderTypes DEF Ordered
  <1>1. CASE ~Write
    BY <1>1, OutsideWriter DEF LatestInv
  <1>2. CASE Store!MakeDirectory \/ Store!OpenFile \/ Store!CloseFile
    <2>1. /\ writer'.pc \in {"open", "close", "meta"} /\ latest' = latest
          /\ \A d \in 1..MaxSteps : /\ disk'[d].meta = disk[d].meta
                                    /\ disk'[d].exists <=> disk[d].exists \/ d = writer.step
      BY <1>a, <1>2, FilesEffect
    <2>2. QED
      BY <1>a, <2>1 DEF LatestInv
  <1>3. CASE Store!WriteMeta
    <2>1. /\ writer'.pc = "latest" /\ latest' = latest /\ disk'[writer.step].meta
          /\ \A d \in 1..MaxSteps : /\ disk'[d].exists = disk[d].exists
                                    /\ d # writer.step => disk'[d] = disk[d]
      BY <1>a, <1>3, MetaEffect
    <2>2. QED
      BY <1>a, <2>1 DEF LatestInv
  <1>4. CASE Store!PublishLatest
    BY <1>a, <1>4, PublishEffect DEF LatestInv, Store!Loadable
  <1>5. CASE Store!UpdateBest
    BY <1>a, <1>5, BestEffect DEF LatestInv
  <1>6. CASE Store!ListVictims
    BY <1>a, <1>6, ListEffect, LatestIsSpared, IdleIsIdle DEF LatestInv
  <1>7. CASE Store!RemoveDirectory
    <2>1. PICK v \in writer.victims :
            /\ writer.pc = "rmtree" /\ latest' = latest
            /\ writer' = Store!Idle \/ writer'.victims \subseteq writer.victims
            /\ \A d \in 1..MaxSteps : d # v => disk'[d] = disk[d]
      BY <1>a, <1>7, RemoveEffect
    <2>2. QED
      BY <1>a, <2>1, IdleIsIdle DEF LatestInv
  <1>8. QED
    BY <1>1, <1>2, <1>3, <1>4, <1>5, <1>6, <1>7 DEF Write, Store!WriterStep

\* A run that keeps two checkpoints, or does not stop early, and is resumed
\* from the pointers never finds that latest.json names a missing directory.
THEOREM PointerNeverDangles ==
  ASSUME ~ResumeFromStepDir, KeepLastN > 1 \/ Patience = 0
  PROVE  Spec => []LatestIsThere
  <1>1. Init => Ordered /\ LatestInv
    BY SaveInit, OrderInit, LatestInit DEF Ordered
  <1>2. Ordered /\ LatestInv /\ [Next]_vars => Ordered' /\ LatestInv'
    BY OrderedStep, LatestStep
  <1>3. LatestInv => LatestIsThere
    BY DEF LatestInv, LatestIsThere, NoStep, Store!NoStep
  <1>4. QED
    BY <1>1, <1>2, <1>3, PTL DEF Spec

-----------------------------------------------------------------------------
(* best.json tells the truth about its directory.                          *)

\* After the save with the label max_steps no evaluation follows, so saving
\* again under that label records the same loss.
BestInv ==
  /\ best.step # 0 /\ disk[best.step].meta => disk[best.step].loss \in {best.loss, NoLoss}
  /\ Running /\ best.step = MaxSteps => evalLoss \in {best.loss, NoLoss}
  /\ Store!Saving /\ writer.step = MaxSteps => writer.loss = evalLoss

LEMMA BestInit == Init => BestInv
  BY IdleIsIdle, StepsAssumption DEF Init, Store!Init, BestInv, Store!NoStep, Store!Saving

LEMMA BestStep ==
  ASSUME Ordered, BestInv, [Next]_vars
  PROVE  BestInv'
  <1>a. /\ latest \in 0..MaxSteps /\ best.step \in 0..MaxSteps /\ step \in 0..MaxSteps
        /\ MaxSteps \in Nat \ {0} /\ phase \in Phases /\ Placed /\ SaveInv /\ LoopInv
        /\ Store!Saving => writer.step \in 1..MaxSteps
        /\ best.step <= latest
    BY OrderTypes DEF Ordered, OrderInv
  <1>1. CASE Evaluate
    <2>1. /\ phase = "evaluate" /\ UNCHANGED <<disk, best, writer>>
      BY <1>1 DEF Evaluate, storeVars
    <2>2. latest < step /\ best.step # MaxSteps
      BY <1>a, <2>1 DEF Ordered, OrderInv
    <2>3. ~(Store!Saving /\ writer.step = MaxSteps)
      BY <1>a, <2>1 DEF SaveInv
    <2>4. QED
      BY <2>1, <2>2, <2>3 DEF BestInv, Store!Saving, NoLoss
  <1>2. CASE TrainStep \/ SaveReturns \/ SaveRaises \/ Finish \/ TrainFails \/ ExitDropsError
               \/ UNCHANGED vars
    <2>1. UNCHANGED <<disk, best, writer, evalLoss>>
      BY <1>2 DEF TrainStep, Store!Mutate, SaveReturns, SaveRaises, Finish, TrainFails,
                  ExitDropsError, Store!RaiseWriteError, storeVars, vars, trainerVars
    <2>2. Running' => Running
      BY <1>2 DEF TrainStep, SaveReturns, SaveRaises, Finish, TrainFails, ExitDropsError,
                  vars, trainerVars, Running
    <2>3. QED
      BY <2>1, <2>2 DEF BestInv, Store!Saving, NoLoss
  <1>3. CASE SavePeriodic \/ SaveFinal
    <2>1. /\ UNCHANGED <<disk, best, evalLoss>> /\ writer'.loss = evalLoss /\ Running
      BY <1>3, BeginEffect DEF SavePeriodic, SaveFinal, Running
    <2>2. QED
      BY <2>1 DEF BestInv, NoLoss
  <1>4. CASE WriteFails \/ Crash
    <2>1. /\ UNCHANGED <<disk, best, evalLoss>> /\ writer'.pc = "idle"
          /\ Running' => Running
      BY <1>4, IdleIsIdle DEF WriteFails, Crash, Store!SaveFails, Store!Crash, trainerVars, Running
    <2>2. QED
      BY <2>1 DEF BestInv, Store!Saving, NoLoss
  <1>5. CASE Resume \/ ResumeFails
    <2>1. /\ UNCHANGED <<disk, best, writer>> /\ evalLoss' = NoLoss /\ ~Store!Saving
      BY <1>5 DEF Resume, ResumeFails, NewProcess, Store!Load, storeVars
    <2>2. QED
      BY <2>1 DEF BestInv, Store!Saving, NoLoss
  <1>6. CASE Write
    <2>0. UNCHANGED <<phase, evalLoss>>
      BY <1>6 DEF Write, trainerVars
    <2>a. Running' <=> Running
      BY <2>0 DEF Running
    <2>b. Store!Saving /\ writer.step = MaxSteps => Running
      BY <1>a DEF SaveInv, Running
    <2>1. CASE Store!MakeDirectory \/ Store!OpenFile \/ Store!CloseFile
      <3>1. /\ best' = best /\ SameSave /\ Store!Saving
            /\ \A d \in 1..MaxSteps : disk'[d].meta = disk[d].meta /\ disk'[d].loss = disk[d].loss
        BY <1>a, <2>1, FilesEffect DEF Store!Saving
      <3>2. QED
        BY <1>a, <2>0, <2>a, <3>1 DEF BestInv, SameSave, NoLoss
    <2>2. CASE Store!WriteMeta
      <3>1. /\ best' = best /\ SameSave /\ Store!Saving /\ writer.pc = "meta"
            /\ disk'[writer.step].loss = writer.loss
            /\ \A d \in 1..MaxSteps : d # writer.step => disk'[d] = disk[d]
        BY <1>a, <2>2, MetaEffect DEF Store!Saving
      <3>2. CASE writer.step # best.step
        BY <1>a, <2>0, <2>a, <3>1, <3>2 DEF BestInv, SameSave, NoLoss
      <3>3. CASE writer.step = best.step
        <4>1. writer.step = MaxSteps
          BY <1>a, <3>1, <3>3, IntervalsAssumption DEF Ordered, OrderInv, Unpublished
        <4>2. writer.loss \in {best.loss, NoLoss}
          BY <2>b, <3>1, <3>3, <4>1 DEF BestInv, NoLoss
        <4>3. QED
          BY <1>a, <2>0, <2>a, <3>1, <3>3, <4>1, <4>2 DEF BestInv, SameSave, NoLoss
      <3>4. QED
        BY <3>2, <3>3
    <2>3. CASE Store!PublishLatest
      BY <1>a, <2>0, <2>a, <2>3, PublishEffect DEF BestInv, SameSave, Store!Saving, NoLoss
    <2>4. CASE Store!UpdateBest
      <3>1. /\ writer.pc = "best" /\ SameSave /\ disk' = disk
            /\ disk[writer.step].loss = writer.loss
            /\ best' = best \/ best' = [step |-> writer.step, loss |-> writer.loss]
        BY <1>a, <2>4, BestEffect
      <3>2. Store!Saving
        BY <3>1 DEF Store!Saving
      <3>3. CASE best' = best
        BY <2>0, <2>a, <3>1, <3>2, <3>3 DEF BestInv, SameSave, NoLoss
      <3>4. CASE best' = [step |-> writer.step, loss |-> writer.loss]
        <4>1. best'.step = writer.step /\ best'.loss = writer.loss
          BY <3>4
        <4>2. QED
          BY <2>0, <2>a, <3>1, <3>2, <4>1 DEF BestInv, SameSave, NoLoss
      <3>5. QED
        BY <3>1, <3>3, <3>4
    <2>5. CASE Store!ListVictims
      <3>1. /\ UNCHANGED <<disk, best>> /\ writer.pc = "prune"
            /\ writer' = Store!Idle \/ SameSave
        BY <1>a, <2>5, ListEffect
      <3>2. QED
        BY <2>0, <2>a, <3>1, IdleIsIdle DEF BestInv, SameSave, Store!Saving, NoLoss
    <2>6. CASE Store!RemoveDirectory
      <3>1. PICK v \in writer.victims :
              /\ best' = best /\ v # best.step /\ writer.pc = "rmtree"
              /\ writer' = Store!Idle \/ SameSave
              /\ \A d \in 1..MaxSteps : d # v => disk'[d] = disk[d]
        BY <1>a, <2>6, RemoveEffect
      <3>2. QED
        BY <1>a, <2>0, <2>a, <3>1, IdleIsIdle DEF BestInv, SameSave, Store!Saving, NoLoss
    <2>7. QED
      BY <1>6, <2>1, <2>2, <2>3, <2>4, <2>5, <2>6 DEF Write, Store!WriterStep
  <1>7. QED
    BY <1>1, <1>2, <1>3, <1>4, <1>5, <1>6 DEF Next, TrainerStep

\* Over any number of restarts from the pointers, the loss best.json records
\* is the one recorded with the checkpoint it names.
THEOREM BestLossIsItsOwn ==
  ASSUME ~ResumeFromStepDir
  PROVE  Spec => []BestDescribesItsDirectory
  <1>1. Init => Ordered /\ BestInv
    BY SaveInit, OrderInit, BestInit DEF Ordered
  <1>2. Ordered /\ BestInv /\ [Next]_vars => Ordered' /\ BestInv'
    BY OrderedStep, BestStep
  <1>3. BestInv => BestDescribesItsDirectory
    BY DEF BestInv, BestDescribesItsDirectory, NoStep, Store!NoStep
  <1>4. QED
    BY <1>1, <1>2, <1>3, PTL DEF Spec

-----------------------------------------------------------------------------
(* The label of a checkpoint is the training behind its model.             *)

\* Only the label max_steps, after an early stop, may promise more.
Progress(trained, label) == \/ trained = label
                            \/ Patience > 0 /\ label = MaxSteps /\ trained < label

ModelHashed == \/ writer.pc \in {"open", "close"} /\ writer.file # "model"
               \/ writer.pc = "meta"

\* From the tensors through the snapshot and its hash to meta.json.
LabelInv ==
  /\ phase \in {"train", "evaluate", "checkpoint", "saving"} => live.trained = step
  /\ phase \in {"final", "savingFinal", "join"} => Progress(live.trained, MaxSteps)
  /\ Store!Saving => /\ Progress(writer.snap.trained, writer.step)
                     /\ Device = "cuda" \/ live = writer.snap
  /\ ModelHashed => writer.hash["model"].to = writer.snap
  /\ \A d \in 1..MaxSteps : disk[d].meta => Progress(disk[d].hash["model"].to.trained, d)

LEMMA LabelInit == Init => LabelInv
  BY IdleIsIdle DEF Init, Store!Init, LabelInv, ModelHashed, Store!Saving, Store!NoDirectory

\* What the writer hashes for model.pt is the snapshot: the tensors have been
\* copied, or nobody changes them while the save runs.
LEMMA ModelIsSnapshot ==
  ASSUME Placed, LabelInv, Store!OpenFile \/ Store!CloseFile \/ Store!MakeDirectory
  PROVE  ModelHashed' => writer'.hash["model"].to = writer'.snap
  <1>0. /\ writer \in Store!Writer
        /\ writer.pc \in {"open", "close", "mkdir"} => writer.file \in Store!FileNames
        /\ writer.pc = "mkdir" => writer.file = "model"
    BY DEF Placed, LoopTypes, TypeOK, Store!TypeOK, P!DirectoryInv, P!InPlace, P!Saving,
           P!FileNames, Store!FileNames
  <1>1. CASE Store!MakeDirectory
    <2>1. writer.pc = "mkdir" /\ writer'.pc = "open" /\ writer'.file = writer.file
      BY <1>0, <1>1 DEF Store!MakeDirectory, Store!Writer
    <2>2. QED
      BY <1>0, <2>1 DEF ModelHashed
  <1>2. CASE Store!OpenFile
    <2>1. /\ writer.pc = "open" /\ writer'.pc = "close" /\ writer'.file = writer.file
          /\ writer'.hash = writer.hash /\ writer'.snap = writer.snap
      BY <1>0, <1>2 DEF Store!OpenFile, Store!Writer
    <2>2. QED
      BY <2>1 DEF ModelHashed, LabelInv
  <1>3. CASE Store!CloseFile
    <2> DEFINE content == Store!Whole(writer.from, Store!Serialised(writer.file))
    <2>1. content.to = Store!Serialised(writer.file)
      BY DEF Store!Whole
    <2> HIDE DEF content
    <2>2. /\ writer.pc = "close"
          /\ writer' = [writer EXCEPT !.hash[writer.file] = content,
                         !.from = Store!NoVersion, !.file = Store!NextFile(writer.file),
                         !.pc = IF Store!NextFile(writer.file) = "none" THEN "meta" ELSE "open"]
      BY <1>3 DEF Store!CloseFile, content
    <2>3. /\ writer'.snap = writer.snap
          /\ writer'.hash = [writer.hash EXCEPT ![writer.file] = content]
      BY <1>0, <2>2 DEF Store!Writer
    <2>4. CASE writer.file = "model"
      <3>1. writer'.hash["model"] = content
        BY <1>0, <2>3, <2>4 DEF Store!Writer, Store!FileNames
      <3>2. Store!Serialised(writer.file) = writer.snap
        BY <2>2, <2>4, StoreAssumption
           DEF Store!Serialised, Store!SharesStorage, LabelInv, Store!Saving
      <3>3. QED
        BY <2>1, <2>3, <3>1, <3>2
    <2>5. CASE writer.file # "model"
      <3>1. writer'.hash["model"] = writer.hash["model"]
        BY <1>0, <2>3, <2>5 DEF Store!Writer, Store!FileNames
      <3>2. writer.hash["model"].to = writer.snap
        BY <2>2, <2>5 DEF LabelInv, ModelHashed
      <3>3. QED
        BY <2>3, <3>1, <3>2
    <2>6. QED
      BY <2>4, <2>5
  <1>4. QED
    BY <1>1, <1>2, <1>3

LEMMA LabelStep ==
  ASSUME Device = "cuda" \/ TRUE \notin AsyncChoices, Saves, LabelInv, [Next]_vars
  PROVE  LabelInv'
  <1>a. /\ step \in 0..MaxSteps /\ MaxSteps \in Nat \ {0} /\ phase \in Phases /\ Placed
        /\ LoopInv /\ SaveInv /\ (Store!Saving => writer.step \in 1..MaxSteps)
        /\ Patience \in Nat
    BY OrderTypes
  <1>1. CASE TrainStep
    <2>1. /\ step < MaxSteps /\ step' = step + 1 /\ phase = "train"
          /\ phase' = IF EvalDue(step + 1) THEN "evaluate" ELSE AfterEval(step + 1)
          /\ live' = [run |-> runs, trained |-> OneMore(live.trained)]
          /\ Store!Saving => TRUE \in AsyncChoices
          /\ UNCHANGED <<disk, writer>>
      BY <1>1 DEF TrainStep, Store!Mutate
    <2>2. live'.trained = step + 1
      BY <1>a, <2>1, MostTrainedType DEF LabelInv, OneMore
    <2>3. /\ phase' \in {"evaluate", "checkpoint", "train", "final"}
          /\ phase' = "final" => step + 1 = MaxSteps
      BY <1>a, <2>1, NextIterationType
    <2>4. QED
      BY <2>1, <2>2, <2>3 DEF LabelInv, Progress, ModelHashed, Store!Saving
  <1>2. CASE Evaluate
    <2>1. /\ phase = "evaluate" /\ step' = step
          /\ phase' = AfterEval(step) \/ (phase' = "final" /\ Patience > 0)
          /\ UNCHANGED <<disk, writer, live>>
      BY <1>2 DEF Evaluate, storeVars
    <2>2. /\ phase' \in {"checkpoint", "train", "final"}
          /\ phase' = "final" => step = MaxSteps \/ Patience > 0
      BY <1>a, <2>1, NextIterationType
    <2>3. QED
      BY <1>a, <2>1, <2>2 DEF LabelInv, Progress, ModelHashed, Store!Saving
  <1>3. CASE SavePeriodic
    <2>1. /\ phase = "checkpoint" /\ step' = step /\ Store!BeginSave(step, evalLoss)
          /\ phase' \in {NextIteration(step), "saving"}
      BY <1>3 DEF SavePeriodic
    <2>2. /\ writer'.pc = "mkdir" /\ writer'.step = step /\ writer'.snap = live
          /\ UNCHANGED <<disk, live>>
      BY <2>1, BeginEffect
    <2>3. /\ phase' \in {"train", "final", "saving"}
          /\ phase' = "final" => step = MaxSteps
      BY <1>a, <2>1, NextIterationType
    <2>4. QED
      BY <1>a, <2>1, <2>2, <2>3 DEF LabelInv, Progress, ModelHashed
  <1>4. CASE SaveFinal
    <2>1. /\ phase = "final" /\ Store!BeginSave(MaxSteps, evalLoss)
          /\ phase' \in {"join", "savingFinal"}
      BY <1>4 DEF SaveFinal
    <2>2. /\ writer'.pc = "mkdir" /\ writer'.step = MaxSteps /\ writer'.snap = live
          /\ UNCHANGED <<disk, live>>
      BY <2>1, BeginEffect
    <2>3. QED
      BY <2>1, <2>2 DEF LabelInv, Progress, ModelHashed
  <1>5. CASE SaveReturns
    <2>1. /\ phase \in {"saving", "savingFinal"} /\ step' = step
          /\ UNCHANGED <<disk, writer, live>>
          /\ phase' = IF phase = "saving" THEN NextIteration(step) ELSE "join"
      BY <1>5 DEF SaveReturns, storeVars
    <2>2. \/ phase = "savingFinal" /\ phase' = "join"
          \/ phase = "saving" /\ phase' = "train"
          \/ phase = "saving" /\ phase' = "final" /\ step = MaxSteps
      BY <1>a, <2>1, NextIterationType
    <2>3. QED
      BY <1>a, <2>1, <2>2 DEF LabelInv, Progress, ModelHashed, Store!Saving
  <1>6. CASE SaveRaises \/ ExitDropsError \/ TrainFails \/ ResumeFails \/ Finish
    <2>1. /\ phase' \in {"failed", "done"} /\ UNCHANGED <<disk, writer, live>>
      BY <1>6 DEF SaveRaises, ExitDropsError, TrainFails, ResumeFails, Finish,
                  Store!RaiseWriteError, storeVars, trainerVars
    <2>2. QED
      BY <2>1 DEF LabelInv, Progress, ModelHashed, Store!Saving
  <1>7. CASE WriteFails \/ Crash
    <2>1. /\ UNCHANGED <<disk, live, step>> /\ writer'.pc = "idle"
          /\ phase' \in {phase, "down"}
      BY <1>7, IdleIsIdle DEF WriteFails, Crash, Store!SaveFails, Store!Crash, trainerVars
    <2>2. QED
      BY <2>1 DEF LabelInv, Progress, ModelHashed, Store!Saving
  <1>8. CASE UNCHANGED vars
    BY <1>8 DEF vars, storeVars, trainerVars, LabelInv, Progress, ModelHashed, Store!Saving
  <1>9. CASE Resume
    <2>1. PICK d \in ResumeTargets : Store!Load(d) /\ step' = d /\ phase' = NextIteration(d)
      BY <1>9 DEF Resume
    <2>2. /\ UNCHANGED <<disk, writer>> /\ ~Store!Saving /\ disk[d].meta
          /\ live' = disk[d].hash["model"].to
      BY <2>1 DEF Store!Load, Store!Loadable
    <2>3. d \in 1..MaxSteps
      BY TargetsAreLabels DEF Saves, Placed, LoopTypes, TypeOK
    <2>4. Progress(live'.trained, d)
      BY <2>2, <2>3 DEF LabelInv
    <2>5. \/ phase' = "train" /\ d < MaxSteps
          \/ phase' = "final" /\ d = MaxSteps
      BY <1>a, <2>1, <2>3, NextIterationType
    <2>6. QED
      BY <2>1, <2>2, <2>3, <2>4, <2>5 DEF LabelInv, Progress, ModelHashed, Store!Saving
  <1>10. CASE Write
    <2>0. UNCHANGED <<phase, step>> /\ Store!WriterStep
      BY <1>10 DEF Write, trainerVars
    <2>1. CASE Store!MakeDirectory \/ Store!OpenFile \/ Store!CloseFile
      <3>1. /\ SameSave /\ live' = live /\ Store!Saving
            /\ \A d \in 1..MaxSteps : disk'[d].meta = disk[d].meta /\ disk'[d].hash = disk[d].hash
        BY <1>a, <2>1, FilesEffect DEF Store!Saving
      <3>2. ModelHashed' => writer'.hash["model"].to = writer'.snap
        BY <1>a, <2>1, ModelIsSnapshot
      <3>3. QED
        BY <1>a, <2>0, <3>1, <3>2 DEF LabelInv, Progress, SameSave
    <2>2. CASE Store!WriteMeta
      <3>1. /\ SameSave /\ live' = live /\ writer.pc = "meta" /\ writer'.pc = "latest"
            /\ disk'[writer.step].hash = writer.hash
            /\ \A d \in 1..MaxSteps : d # writer.step => disk'[d] = disk[d]
        BY <1>a, <2>2, MetaEffect
      <3>2. Store!Saving /\ ~ModelHashed' /\ writer.hash["model"].to = writer.snap
        BY <3>1 DEF Store!Saving, ModelHashed, LabelInv
      <3>3. \A d \in 1..MaxSteps : disk'[d].meta => Progress(disk'[d].hash["model"].to.trained, d)
        BY <3>1, <3>2 DEF LabelInv
      <3>4. QED
        BY <2>0, <3>1, <3>2, <3>3 DEF LabelInv, Progress, SameSave
    <2>3. CASE Store!PublishLatest \/ Store!UpdateBest \/ Store!ListVictims
      <3>1. /\ UNCHANGED <<disk, live>> /\ Store!Saving
            /\ writer' = Store!Idle \/ (SameSave /\ writer'.pc \in {"best", "prune", "rmtree"})
        BY <1>a, <2>3, PublishEffect, BestEffect, ListEffect DEF Store!Saving
      <3>2. QED
        BY <2>0, <3>1, IdleIsIdle DEF LabelInv, Progress, SameSave, ModelHashed, Store!Saving
    <2>4. CASE Store!RemoveDirectory
      <3>1. PICK v \in writer.victims :
              /\ live' = live /\ writer.pc = "rmtree"
              /\ writer' = Store!Idle \/ (SameSave /\ writer'.pc = "rmtree")
              /\ disk'[v].meta => disk[v].meta /\ disk'[v].hash = disk[v].hash
              /\ \A d \in 1..MaxSteps : d # v => disk'[d] = disk[d]
        BY <1>a, <2>4, RemoveEffect
      <3>2. \A d \in 1..MaxSteps : disk'[d].meta => disk[d].meta /\ disk'[d].hash = disk[d].hash
        BY <3>1
      <3>3. QED
        BY <2>0, <3>1, <3>2, IdleIsIdle DEF LabelInv, Progress, SameSave, ModelHashed, Store!Saving
    <2>5. QED
      BY <2>0, <2>1, <2>2, <2>3, <2>4 DEF Store!WriterStep
  <1>11. QED
    BY <1>1, <1>2, <1>3, <1>4, <1>5, <1>6, <1>7, <1>8, <1>9, <1>10 DEF Next, TrainerStep

\* When the model is on the GPU, or no run saves in the background, a
\* checkpoint labelled d holds the result of d optimizer steps, over restarts
\* from any directory; only the label of the save after an early stop may lie.
THEOREM LabelsAreProgress ==
  ASSUME Device = "cuda" \/ TRUE \notin AsyncChoices
  PROVE  Spec => []LabelIsTrainingProgress
  <1>1. Saves /\ LabelInv /\ [Next]_vars => Saves' /\ LabelInv'
    BY SaveStep, LabelStep
  <1>2. LabelInv => LabelIsTrainingProgress
    BY DEF LabelInv, LabelIsTrainingProgress, Progress, Store!Loadable
  <1>3. QED
    BY SaveInit, LabelInit, <1>1, <1>2, PTL DEF Spec

-----------------------------------------------------------------------------
(* A checkpoint that verifies outlives every crash.                        *)

\* The last step with an evaluation, up to s.
LastEval(s) == EvalInterval * (s \div EvalInterval)

LEMMA LastEvalGrows ==
  ASSUME NEW s \in Nat
  PROVE  /\ LastEval(s) \in Int /\ LastEval(s + 1) \in Int
         /\ LastEval(s) <= LastEval(s + 1)
         /\ (s + 1) % EvalInterval = 0 =>
              LastEval(s + 1) = s + 1 /\ LastEval(s + 1) = LastEval(s) + EvalInterval
<1> DEFINE n == EvalInterval
           q == s \div n
           r == s % n
<1>1. n \in Nat \ {0}
  BY IntervalsAssumption
<1>2. q \in Int /\ r \in 0..n - 1 /\ n * q + r = s
  BY <1>1, Quotient
<1>3. LastEval(s) = n * q /\ LastEval(s + 1) = n * ((s + 1) \div n)
  BY DEF LastEval
<1>4. n * q \in Int /\ n * (q + 1) = n * q + n
  BY <1>1, <1>2
<1> HIDE DEF q, r, n
<1>5. CASE r + 1 = n
  <2>1. n * (q + 1) + 0 = s + 1
    BY <1>1, <1>2, <1>4, <1>5
  <2>2. (n * (q + 1) + 0) \div n = q + 1
    BY <1>1, <1>2, QuotientUnique
  <2>3. (s + 1) \div n = q + 1
    BY <2>1, <2>2
  <2>4. QED
    BY <1>1, <1>2, <1>3, <1>4, <1>5, <2>3 DEF n
<1>6. CASE r + 1 # n
  <2>1. r + 1 \in 0..n - 1 /\ n * q + (r + 1) = s + 1
    BY <1>1, <1>2, <1>4, <1>6
  <2>2. (n * q + (r + 1)) \div n = q /\ (n * q + (r + 1)) % n = r + 1
    BY <1>1, <1>2, <2>1, QuotientUnique
  <2>3. (s + 1) \div n = q /\ (s + 1) % n # 0
    BY <1>1, <1>2, <2>1, <2>2
  <2>4. QED
    BY <1>1, <1>3, <1>4, <2>3 DEF n
<1> QED  BY <1>5, <1>6

\* The process has not begun a save, and the published checkpoint, if there is
\* one, would be lost if max_steps were saved now and pruned behind it.
Virgin == /\ ~Store!Saving
          /\ ~writeError
          /\ latest = 0 \/ \E d \in Listed : latest < d /\ d < MaxSteps

\* d stays when the directory max_steps is overwritten and pruning follows.
Below(d) == d < MaxSteps /\ Store!Loadable(d) /\ \A e \in Listed : e <= d \/ e = MaxSteps

\* An early stop needs Patience evaluations after the first one, and by then
\* a periodic save was due.
SurviveInv ==
  /\ latest # 0 /\ latest < MaxSteps => Store!Loadable(latest)
  /\ latest = MaxSteps =>
       \E d \in 1..MaxSteps : Below(d) /\ (writer.pc = "rmtree" => d \notin writer.victims)
  /\ Unpublished /\ writer.step = MaxSteps /\ latest < MaxSteps =>
       latest # 0 /\ \A d \in Listed : d <= latest \/ d = MaxSteps
  /\ Virgin /\ phase \in {"train", "evaluate", "checkpoint"} /\ step < MaxSteps =>
       \/ bestLoss = NoLoss /\ stale = 0
       \/ latest + stale * EvalInterval < LastEval(IF phase = "evaluate" THEN step - 1 ELSE step)
  /\ phase \in {"saving", "final"} => ~Virgin

\* A periodic save comes before the last step and before an early stop.
SavesBeforeEnd == /\ KeepLastN > 1
                  /\ CheckpointInterval < MaxSteps
                  /\ Patience = 0 \/ CheckpointInterval <= Patience * EvalInterval

LEMMA SurviveInit == Init => SurviveInv
  BY IdleIsIdle, StepsAssumption
     DEF Init, Store!Init, SurviveInv, Unpublished, NoLoss, Store!NoLoss, Store!NoStep

LEMMA VirginInLoop ==
  ASSUME UNCHANGED <<disk, latest, writer, writeError>>
  PROVE  Virgin' <=> Virgin
  BY DEF Virgin, Store!Saving, Listed

LEMMA WritingIsNotVirgin ==
  ASSUME Ordered, Write \/ WriteFails
  PROVE  ~Virgin'
  <1>a. Placed /\ (Store!Saving => writer.step \in 1..MaxSteps)
    BY OrderTypes DEF Ordered
  <1>1. CASE WriteFails
    BY <1>1 DEF WriteFails, Store!SaveFails, Virgin
  <1>2. CASE Write /\ ~Store!Saving'
    <2>1. Store!ListVictims \/ Store!RemoveDirectory
      BY <1>2, <1>a, FilesEffect, MetaEffect, PublishEffect, BestEffect
         DEF Write, Store!WriterStep, Store!Saving
    <2>2. /\ writer.pc \in {"prune", "rmtree"} /\ latest' = latest /\ latest = writer.step
          /\ \A d \in 1..MaxSteps : disk'[d].exists => disk[d].exists
      BY <2>1, <1>a, ListEffect, RemoveEffect
    <2>3. latest # 0 /\ \A d \in Listed : d <= latest \/ d = MaxSteps
      BY <1>a, <2>2 DEF Ordered, OrderInv, Store!Saving
    <2>4. Listed' \subseteq Listed /\ latest \in 1..MaxSteps
      BY <1>a, <2>2 DEF Listed, Store!Saving
    <2>5. QED
      BY <2>2, <2>3, <2>4, StepsAssumption DEF Virgin, Listed
  <1>3. CASE Write /\ Store!Saving'
    BY <1>3 DEF Virgin
  <1>4. QED
    BY <1>1, <1>2, <1>3

\* At the last step, and at an early stop, a save has come before.
LEMMA StopIsNotVirgin ==
  ASSUME SavesBeforeEnd, Ordered, SurviveInv, Evaluate, phase' = "final"
  PROVE  ~Virgin
  <1> SUFFICES ASSUME Virgin PROVE FALSE
    OBVIOUS
  <1>a. /\ latest \in 0..MaxSteps /\ step \in 0..MaxSteps /\ phase \in Phases /\ LoopInv
        /\ MaxSteps \in Nat \ {0} /\ CheckpointInterval \in Nat \ {0} /\ Patience \in Nat
        /\ Unpublished => Store!Saving
    BY OrderTypes DEF Ordered
  <1>b. EvalInterval \in Nat \ {0} /\ stale \in Nat
    BY IntervalsAssumption, PatienceAssumption DEF Ordered, Saves, Placed, LoopTypes, TypeOK
  <1>1. /\ phase = "evaluate"
        /\ \/ phase' = AfterEval(step)
           \/ Patience > 0 /\ bestLoss # NoLoss /\ stale + 1 >= Patience
    BY <1>b, PatienceAssumption DEF Evaluate, Stalls
  <1>2. Base = latest /\ latest < step /\ step <= latest + CheckpointInterval
    BY <1>a, <1>1 DEF Virgin, Base, Ordered, OrderInv
  <1>3. step < MaxSteps
    <2> SUFFICES ASSUME step = MaxSteps PROVE FALSE
      BY <1>a
    <2>1. latest # 0
      BY <1>a, <1>2 DEF SavesBeforeEnd
    <2>2. PICK d \in Listed : latest < d /\ d < MaxSteps
      BY <2>1 DEF Virgin
    <2>3. d = latest + CheckpointInterval
      BY <1>a, <2>2 DEF Ordered, OrderInv, Listed
    <2>4. QED
      BY <1>a, <1>2, <2>2, <2>3
  <1>4. Patience > 0 /\ bestLoss # NoLoss /\ stale + 1 >= Patience
    BY <1>1, <1>3, <1>a, NextIterationType
  <1>5. latest + stale * EvalInterval < LastEval(step - 1)
    BY <1>1, <1>3, <1>4 DEF SurviveInv
  <1>6. step - 1 \in Nat /\ step - 1 + 1 = step /\ step % EvalInterval = 0
    BY <1>a, <1>1, <1>3 DEF LoopInv, EvalDue
  <1>7. LastEval(step - 1) \in Int /\ step = LastEval(step - 1) + EvalInterval
    BY <1>6, LastEvalGrows
  <1>8. latest + (stale * EvalInterval + EvalInterval) < step
    <2>1. stale * EvalInterval \in Nat
      BY <1>b
    <2>2. QED
      BY <1>a, <1>b, <1>5, <1>7, <2>1
  <1>9. Patience * EvalInterval <= stale * EvalInterval + EvalInterval
    <2>1. (stale + 1) - Patience \in Nat
      BY <1>a, <1>b, <1>4
    <2>2. ((stale + 1) - Patience) * EvalInterval \in Nat
      BY <1>b, <2>1
    <2>3. ((stale + 1) - Patience) * EvalInterval
            = (stale * EvalInterval + EvalInterval) - Patience * EvalInterval
      BY <1>a, <1>b
    <2>4. Patience * EvalInterval \in Nat /\ stale * EvalInterval \in Nat
      BY <1>a, <1>b
    <2>5. QED
      BY <1>b, <2>2, <2>3, <2>4
  <1>10. CheckpointInterval <= Patience * EvalInterval /\ Patience * EvalInterval \in Nat
    BY <1>4, <1>a, <1>b DEF SavesBeforeEnd
  <1>11. stale * EvalInterval \in Nat
    BY <1>b
  <1>12. QED
    BY <1>a, <1>b, <1>2, <1>8, <1>9, <1>10, <1>11

\* The first three parts, which are about the disk.
LEMMA SurviveOnDisk ==
  ASSUME ~ResumeFromStepDir, SavesBeforeEnd, Ordered, LatestInv, SurviveInv, [Next]_vars
  PROVE  /\ latest' # 0 /\ latest' < MaxSteps => Store!Loadable(latest)'
         /\ latest' = MaxSteps =>
              \E d \in 1..MaxSteps : /\ Below(d)'
                                     /\ writer'.pc = "rmtree" => d \notin writer'.victims
         /\ Unpublished' /\ writer'.step = MaxSteps /\ latest' < MaxSteps =>
              latest' # 0 /\ \A d \in Listed' : d <= latest' \/ d = MaxSteps
  <1> DEFINE Disk == /\ latest' # 0 /\ latest' < MaxSteps => Store!Loadable(latest)'
                     /\ latest' = MaxSteps =>
                          \E d \in 1..MaxSteps : /\ Below(d)'
                                                 /\ writer'.pc = "rmtree" => d \notin writer'.victims
                     /\ Unpublished' /\ writer'.step = MaxSteps /\ latest' < MaxSteps =>
                          latest' # 0 /\ \A d \in Listed' : d <= latest' \/ d = MaxSteps
  <1> SUFFICES Disk
    OBVIOUS
  <1>a. /\ latest \in 0..MaxSteps /\ step \in 0..MaxSteps /\ phase \in Phases /\ LoopInv
        /\ MaxSteps \in Nat \ {0} /\ CheckpointInterval \in Nat \ {0} /\ Placed /\ SaveInv
        /\ Store!Saving => writer.step \in 1..MaxSteps
        /\ Unpublished => Store!Saving
    BY OrderTypes DEF Ordered
  <1>1. CASE ~Write
    <2>1. UNCHANGED <<disk, latest>> /\ Listed' = Listed
      BY <1>1, OutsideWriter DEF Listed
    <2>2. \A d \in 1..MaxSteps : /\ Store!Loadable(d)' <=> Store!Loadable(d)
                                 /\ Below(d)' <=> Below(d)
      BY <2>1, StillLoadable DEF Below
    <2>3. CASE writer' = writer \/ writer'.pc = "idle"
      BY <1>a, <2>1, <2>2, <2>3 DEF SurviveInv, Unpublished
    <2>4. CASE writer'.pc = "mkdir" /\ (SavePeriodic \/ SaveFinal)
      <3>1. Store!Loadable(latest)' <=> Store!Loadable(latest)
        BY <2>1 DEF Store!Loadable
      <3>2. ASSUME writer'.step = MaxSteps, latest < MaxSteps
            PROVE  latest # 0 /\ \A d \in Listed : d <= latest \/ d = MaxSteps
        <4>1. CASE SavePeriodic
          <5>1. /\ phase = "checkpoint" /\ writer'.step = step /\ ~Store!Saving /\ ~writeError
            BY <4>1, BeginEffect DEF SavePeriodic
          <5>2. Base = latest
            BY <1>a, <5>1 DEF Base
          <5>3. MaxSteps <= latest + CheckpointInterval
            BY <3>2, <5>1, <5>2 DEF Ordered, OrderInv
          <5>4. latest # 0
            BY <1>a, <5>3 DEF SavesBeforeEnd
          <5>5. \A d \in Listed : d <= latest \/ d = MaxSteps
            BY <1>a, <5>3 DEF Ordered, OrderInv, Listed
          <5>6. QED
            BY <5>4, <5>5
        <4>2. CASE SaveFinal
          <5>1. phase = "final" /\ ~Store!Saving /\ ~writeError
            BY <4>2, BeginEffect DEF SaveFinal
          <5>2. ~Virgin
            BY <5>1 DEF SurviveInv
          <5>3. QED
            BY <1>a, <5>1, <5>2 DEF Virgin, Listed
        <4>3. QED
          BY <2>4, <4>1, <4>2
      <3>3. QED
        BY <2>1, <2>2, <2>4, <3>1, <3>2 DEF SurviveInv
    <2>5. QED
      BY <1>1, <2>3, <2>4, OutsideWriter
  <1>2. CASE Store!MakeDirectory \/ Store!OpenFile \/ Store!CloseFile \/ Store!WriteMeta
    <2>1. /\ Unpublished /\ writer'.step = writer.step /\ latest' = latest
          /\ writer'.pc # "rmtree"
          /\ \A d \in 1..MaxSteps : /\ d # writer.step => disk'[d] = disk[d]
                                    /\ disk'[d].exists => disk[d].exists \/ d = writer.step
      BY <1>a, <1>2, FilesEffect, MetaEffect DEF Unpublished, SameSave
    <2>2. \/ latest < MaxSteps /\ writer.step = latest + CheckpointInterval
          \/ writer.step = MaxSteps
      BY <2>1 DEF Ordered, OrderInv
    <2>3. \A d \in Listed' : d \in Listed \/ d = writer.step
      BY <2>1 DEF Listed
    <2>4. ASSUME latest # 0, latest < MaxSteps PROVE Store!Loadable(latest)'
      <3>1. latest \in 1..MaxSteps /\ latest # writer.step
        BY <1>a, <2>2, <2>4
      <3>2. Store!Loadable(latest)
        BY <2>4 DEF SurviveInv
      <3>3. disk'[latest] = disk[latest]
        BY <2>1, <3>1
      <3>4. QED
        BY <2>1, <3>2, <3>3 DEF Store!Loadable
    <2>5. ASSUME latest = MaxSteps
          PROVE  \E d \in 1..MaxSteps : Below(d)'
      <3>1. PICK d \in 1..MaxSteps : Below(d)
        BY <2>5 DEF SurviveInv
      <3>2. writer.step = MaxSteps /\ d # writer.step
        BY <1>a, <2>2, <2>5, <3>1 DEF Below
      <3>3. Store!Loadable(d)'
        BY <2>1, <3>1, <3>2, StillLoadable DEF Below
      <3>4. QED
        BY <2>3, <3>1, <3>2, <3>3 DEF Below
    <2>6. writer.step = MaxSteps /\ latest < MaxSteps =>
            latest # 0 /\ \A d \in Listed' : d <= latest \/ d = MaxSteps
      BY <2>1, <2>3 DEF SurviveInv
    <2>7. QED
      BY <2>1, <2>4, <2>5, <2>6
  <1>3. CASE Store!PublishLatest
    <2>1. /\ Unpublished /\ ~Unpublished' /\ latest' = writer.step /\ disk' = disk
          /\ writer'.pc # "rmtree" /\ Store!Loadable(writer.step) /\ writer.step \in 1..MaxSteps
          /\ writer.pc # "rmtree"
      BY <1>a, <1>3, PublishEffect DEF Unpublished
    <2>2. Store!Loadable(latest)'
      BY <2>1 DEF Store!Loadable
    <2>3. \A d \in 1..MaxSteps : Below(d)' <=> Below(d)
      BY <2>1, StillLoadable DEF Below, Listed
    <2>4. ASSUME writer.step = MaxSteps
          PROVE  \E d \in 1..MaxSteps : Below(d)
      <3>1. CASE latest = MaxSteps
        BY <3>1 DEF SurviveInv
      <3>2. CASE latest < MaxSteps
        <4>1. latest \in 1..MaxSteps /\ \A d \in Listed : d <= latest \/ d = MaxSteps
          BY <1>a, <2>1, <2>4, <3>2 DEF SurviveInv
        <4>2. Store!Loadable(latest)
          BY <3>2, <4>1 DEF SurviveInv
        <4>3. QED
          BY <3>2, <4>1, <4>2 DEF Below
      <3>3. QED
        BY <1>a, <3>1, <3>2
    <2>5. QED
      BY <2>1, <2>2, <2>3, <2>4
  <1>4. CASE Store!UpdateBest \/ Store!ListVictims
    <2>1. /\ UNCHANGED <<disk, latest>> /\ ~Unpublished'
          /\ writer'.pc = "rmtree" => writer'.victims \subseteq Store!Excess
      BY <1>a, <1>4, BestEffect, ListEffect, IdleIsIdle DEF Unpublished
    <2>2. \A d \in 1..MaxSteps : Below(d)' <=> Below(d)
      BY <2>1, StillLoadable DEF Below, Listed
    <2>3. Store!Loadable(latest)' <=> Store!Loadable(latest)
      BY <2>1 DEF Store!Loadable
    <2>4. ASSUME NEW d \in 1..MaxSteps, Below(d) PROVE d \notin Store!Excess
      BY <2>4, SparesTheLast DEF Below, SavesBeforeEnd
    <2>5. QED
      BY <2>1, <2>2, <2>3, <2>4 DEF SurviveInv
  <1>5. CASE Store!RemoveDirectory
    <2>1. PICK v \in writer.victims :
            /\ writer.pc = "rmtree" /\ latest' = latest
            /\ \/ writer' = Store!Idle
               \/ writer'.pc = "rmtree" /\ writer'.victims \subseteq writer.victims
            /\ disk'[v].exists => disk[v].exists
            /\ \A d \in 1..MaxSteps : d # v => disk'[d] = disk[d]
      BY <1>a, <1>5, RemoveEffect
    <2>2. ~Unpublished' /\ Listed' \subseteq Listed
      BY <2>1, IdleIsIdle DEF Unpublished, Listed
    <2>3. ASSUME latest # 0, latest < MaxSteps PROVE Store!Loadable(latest)'
      <3>1. latest # v /\ latest \in 1..MaxSteps
        BY <1>a, <2>1, <2>3 DEF LatestInv
      <3>2. disk'[latest] = disk[latest] /\ Store!Loadable(latest)
        BY <2>1, <2>3, <3>1 DEF SurviveInv
      <3>3. QED
        BY <2>1, <3>2 DEF Store!Loadable
    <2>4. ASSUME latest = MaxSteps
          PROVE  \E d \in 1..MaxSteps : Below(d)' /\ (writer'.pc = "rmtree" => d \notin writer'.victims)
      <3>1. PICK d \in 1..MaxSteps : Below(d) /\ d \notin writer.victims
        BY <2>1, <2>4 DEF SurviveInv
      <3>2. Store!Loadable(d)'
        BY <2>1, <3>1, StillLoadable DEF Below
      <3>3. Below(d)'
        BY <2>2, <3>1, <3>2 DEF Below
      <3>4. writer'.pc = "rmtree" => d \notin writer'.victims
        BY <2>1, <3>1, IdleIsIdle
      <3>5. QED
        BY <3>3, <3>4
    <2>5. QED
      BY <2>1, <2>2, <2>3, <2>4
  <1>6. QED
    BY <1>1, <1>2, <1>3, <1>4, <1>5 DEF Write, Store!WriterStep

\* The last two, about the loop before the first save of a process.
LEMMA SurviveInLoop ==
  ASSUME ~ResumeFromStepDir, SavesBeforeEnd, Ordered, SurviveInv, [Next]_vars
  PROVE  /\ Virgin' /\ phase' \in {"train", "evaluate", "checkpoint"} /\ step' < MaxSteps =>
              \/ bestLoss' = NoLoss /\ stale' = 0
              \/ latest' + stale' * EvalInterval
                   < LastEval(IF phase' = "evaluate" THEN step' - 1 ELSE step')
         /\ phase' \in {"saving", "final"} => ~Virgin'
  <1> DEFINE Ahead(at, b, st, s) ==
               \/ b = NoLoss /\ st = 0
               \/ latest + st * EvalInterval < LastEval(IF at = "evaluate" THEN s - 1 ELSE s)
  <1>a. /\ latest \in 0..MaxSteps /\ step \in 0..MaxSteps /\ phase \in Phases /\ LoopInv
        /\ MaxSteps \in Nat \ {0} /\ CheckpointInterval \in Nat \ {0}
        /\ Unpublished => Store!Saving
    BY OrderTypes DEF Ordered
  <1>b. EvalInterval \in Nat \ {0} /\ stale \in Nat
    BY IntervalsAssumption, PatienceAssumption DEF Ordered, Saves, Placed, LoopTypes, TypeOK
  <1>1. CASE TrainStep
    <2>1. /\ phase = "train" /\ step < MaxSteps /\ step' = step + 1
          /\ phase' = IF EvalDue(step + 1) THEN "evaluate" ELSE AfterEval(step + 1)
          /\ UNCHANGED <<disk, latest, writer, writeError, bestLoss, stale>>
      BY <1>1 DEF TrainStep, Store!Mutate
    <2>2. Virgin' <=> Virgin
      BY <2>1, VirginInLoop
    <2>3. /\ LastEval(step) \in Int /\ LastEval(step + 1) \in Int
          /\ LastEval(step) <= LastEval(step + 1)
      BY <1>a, LastEvalGrows
    <2>4. phase' \in {"evaluate", "checkpoint", "train"}
      BY <1>a, <2>1, NextIterationType DEF EvalDue
    <2>5. Virgin => Ahead("train", bestLoss, stale, step)
      BY <2>1 DEF SurviveInv
    <2>6. stale * EvalInterval \in Nat
      BY <1>b
    <2>7. Virgin => Ahead(phase', bestLoss, stale, step + 1)
      <3>1. step + 1 - 1 = step
        BY <1>a
      <3>2. QED
        BY <1>a, <2>3, <2>4, <2>5, <2>6, <3>1
    <2>8. QED
      BY <2>1, <2>2, <2>4, <2>7
  <1>2. CASE Evaluate
    <2>1. /\ phase = "evaluate" /\ step' = step
          /\ UNCHANGED <<disk, latest, writer, writeError>>
          /\ phase' \in {AfterEval(step), "final"}
          /\ \/ bestLoss' = bestLoss /\ stale' = stale
             \/ stale' = 0
             \/ bestLoss # NoLoss /\ stale' = stale + 1
      BY <1>2 DEF Evaluate, storeVars, Stalls
    <2>2. Virgin' <=> Virgin
      BY <2>1, VirginInLoop
    <2>3. phase' \in {"checkpoint", "train", "final"}
      BY <1>a, <2>1, NextIterationType
    <2>4. phase' = "final" => ~Virgin
      BY <1>2, StopIsNotVirgin
    <2>5. ASSUME Virgin, step < MaxSteps
          PROVE  Ahead(phase', bestLoss', stale', step)
      <3>1. step - 1 \in Nat /\ step - 1 + 1 = step /\ step % EvalInterval = 0 /\ latest < step
        BY <1>a, <2>1, <2>5 DEF LoopInv, EvalDue, Ordered, OrderInv
      <3>2. /\ LastEval(step - 1) \in Int /\ LastEval(step) = step
            /\ LastEval(step) = LastEval(step - 1) + EvalInterval
        BY <3>1, LastEvalGrows
      <3>3. \/ bestLoss = NoLoss /\ stale = 0
            \/ latest + stale * EvalInterval < LastEval(step - 1)
        BY <2>1, <2>5 DEF SurviveInv
      <3>4. /\ stale * EvalInterval \in Nat
            /\ (stale + 1) * EvalInterval = stale * EvalInterval + EvalInterval
            /\ 0 * EvalInterval = 0
        BY <1>b
      <3>5. phase' # "evaluate"
        BY <2>3
      <3>6. CASE bestLoss' = bestLoss /\ stale' = stale
        BY <1>a, <1>b, <3>2, <3>3, <3>4, <3>5, <3>6
      <3>7. CASE stale' = 0
        BY <1>a, <1>b, <3>1, <3>2, <3>4, <3>5, <3>7
      <3>8. CASE bestLoss # NoLoss /\ stale' = stale + 1
        BY <1>a, <1>b, <3>2, <3>3, <3>4, <3>5, <3>8
      <3>9. QED
        BY <2>1, <3>6, <3>7, <3>8
    <2>6. QED
      BY <2>1, <2>2, <2>3, <2>4, <2>5
  <1>3. CASE SavePeriodic \/ SaveFinal
    <2>1. writer'.pc = "mkdir"
      BY <1>3, BeginEffect DEF SavePeriodic, SaveFinal
    <2>2. QED
      BY <2>1 DEF Virgin, Store!Saving
  <1>4. CASE SaveReturns
    <2>1. /\ phase \in {"saving", "savingFinal"}
          /\ UNCHANGED <<disk, latest, writer, writeError>>
          /\ phase' = IF phase = "saving" THEN NextIteration(step) ELSE "join"
      BY <1>4 DEF SaveReturns, storeVars
    <2>2. (Virgin' <=> Virgin) /\ (phase = "saving" => ~Virgin)
      BY <2>1, VirginInLoop DEF SurviveInv
    <2>3. QED
      BY <2>1, <2>2
  <1>5. CASE SaveRaises \/ Finish \/ TrainFails \/ ExitDropsError \/ Crash \/ ResumeFails
    BY <1>5 DEF SaveRaises, Finish, TrainFails, ExitDropsError, Crash, ResumeFails, trainerVars
  <1>6. CASE Write \/ WriteFails
    BY <1>6, WritingIsNotVirgin
  <1>7. CASE Resume
    <2>1. PICK d \in ResumeTargets : Store!Load(d) /\ step' = d /\ phase' = NextIteration(d)
      BY <1>7 DEF Resume
    <2>2. /\ UNCHANGED <<disk, latest, writer, writeError>> /\ bestLoss' = NoLoss /\ stale' = 0
          /\ d = latest /\ d \in 1..MaxSteps
      BY <1>7, <2>1, ResumesAtLatest DEF Resume, NewProcess, Store!Load
    <2>3. \/ phase' = "train"
          \/ phase' = "final" /\ latest = MaxSteps
      BY <1>a, <2>1, <2>2, NextIterationType
    <2>4. latest = MaxSteps => ~Virgin
      BY <1>a DEF Virgin, Listed
    <2>5. Virgin' <=> Virgin
      BY <2>2, VirginInLoop
    <2>6. QED
      BY <2>2, <2>3, <2>4, <2>5
  <1>8. CASE UNCHANGED vars
    <2>1. UNCHANGED <<disk, latest, writer, writeError, phase, step, bestLoss, stale>>
      BY <1>8 DEF vars, storeVars, trainerVars
    <2>2. Virgin' <=> Virgin
      BY <2>1, VirginInLoop
    <2>3. QED
      BY <2>1, <2>2 DEF SurviveInv
  <1>9. QED
    BY <1>1, <1>2, <1>3, <1>4, <1>5, <1>6, <1>7, <1>8 DEF Next, TrainerStep

LEMMA SurviveStep ==
  ASSUME ~ResumeFromStepDir, SavesBeforeEnd, Ordered, LatestInv, SurviveInv, [Next]_vars
  PROVE  SurviveInv'
  BY SurviveOnDisk, SurviveInLoop DEF SurviveInv, LastEval

\* Once a checkpoint was published, one that verifies is on the disk for ever:
\* through overwrites in place, pruning, failed unlinks, I/O errors and any
\* number of crashes and restarts from the pointers. It needs two directories to
\* be kept, and a periodic save before the loop ends for any other reason.
THEOREM CheckpointSurvives ==
  ASSUME ~ResumeFromStepDir, SavesBeforeEnd
  PROVE  Spec => []CommittedSurvives
  <1>1. Init => Ordered /\ LatestInv /\ SurviveInv
    BY SaveInit, OrderInit, LatestInit, SurviveInit DEF Ordered
  <1>2. Ordered /\ LatestInv /\ SurviveInv /\ [Next]_vars => Ordered' /\ LatestInv' /\ SurviveInv'
    BY OrderedStep, LatestStep, SurviveStep DEF SavesBeforeEnd
  <1>3. Ordered /\ SurviveInv => CommittedSurvives
    <2> SUFFICES ASSUME Ordered, SurviveInv, latest # 0
                 PROVE  \E d \in 1..MaxSteps : Store!Loadable(d)
      BY DEF CommittedSurvives, NoStep, Store!NoStep
    <2>1. latest \in 1..MaxSteps
      BY OrderTypes DEF Ordered
    <2>2. CASE latest < MaxSteps
      BY <2>1, <2>2 DEF SurviveInv
    <2>3. CASE latest = MaxSteps
      BY <2>3 DEF SurviveInv, Below
    <2>4. QED
      BY <2>1, <2>2, <2>3, StepsAssumption
  <1>4. QED
    BY <1>1, <1>2, <1>3, PTL DEF Spec
=============================================================================
