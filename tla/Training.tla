------------------------------- MODULE Training -------------------------------
(***************************************************************************)
(* The training loop (Trainer.fit, training/trainer.py) driving the        *)
(* checkpoint directory of CheckpointStore, the restart of a stopped run   *)
(* with `fontaine train --resume`, and early stopping.                     *)
(*                                                                         *)
(* The loop body is split where the process can be observed or can die: an *)
(* optimizer step, an evaluation, the call of save() and its return.       *)
(***************************************************************************)
EXTENDS Integers, FiniteSets

CONSTANTS
  MaxSteps,            \* training.max_steps
  CheckpointInterval,  \* training.checkpoint_interval
  EvalInterval,        \* training.eval_interval
  Patience,            \* training.early_stopping_patience; 0 disables it
  Losses,              \* values val_loss can take; {} when there is no val split
  NaN,                 \* the loss of a diverged run
  KeepLastN, Device, MaxFaults,             \* see CheckpointStore
  AsyncChoices,        \* what training.async_checkpoints may be; a new process may change it
  ResumeFromStepDir,   \* the user may pass a step_* directory to --resume
  MaxRuns              \* bound on the number of times the process is started

ASSUME StepsAssumption     == MaxSteps \in Nat \ {0}
ASSUME IntervalsAssumption == /\ CheckpointInterval \in Nat \ {0}
                              /\ EvalInterval \in Nat \ {0}
ASSUME PatienceAssumption  == Patience \in Nat
ASSUME AsyncAssumption     == AsyncChoices \subseteq BOOLEAN /\ AsyncChoices # {}
ASSUME ResumeAssumption    == ResumeFromStepDir \in BOOLEAN
ASSUME RunsAssumption      == MaxRuns \in Nat \ {0}
ASSUME StoreAssumption     == /\ Losses \subseteq Nat \ {0} /\ NaN \in Nat \ {0}
                              /\ KeepLastN \in Nat \ {0}
                              /\ Device \in {"cpu", "cuda"}
                              /\ MaxFaults \in Nat

VARIABLES
  disk, latest, best, writer, writeError, live, faults,  \* CheckpointStore
  phase,       \* where fit() is
  step,        \* the loop variable
  evalLoss,    \* val_loss of the last evaluation of this process (final_metrics)
  bestLoss,    \* _best_metric
  stale,       \* _evals_without_improvement
  runs,        \* times the process was started
  async        \* training.async_checkpoints of this process

\* Weights are told apart by the run that produced them and the number of
\* optimizer steps behind them: a resumed run computes different bytes. A
\* background save of tensors on the CPU may hold more steps than its label
\* says, so only MaxSteps for each run bounds the number.
MostTrained == MaxRuns * MaxSteps
Version     == [run : 1..MaxRuns, trained : 0..MostTrained]

Store == INSTANCE CheckpointStore
           WITH Labels <- 1..MaxSteps, Versions <- Version, Async <- TRUE \in AsyncChoices

storeVars   == <<disk, latest, best, writer, writeError, live, faults>>
trainerVars == <<phase, step, evalLoss, bestLoss, stale, runs, async>>
vars        == <<storeVars, trainerVars>>

NoLoss == Store!NoLoss
NoStep == Store!NoStep

Phases == {"train", "evaluate", "checkpoint", "saving", "final", "savingFinal",
           "join", "done", "failed", "down"}

Running == phase \notin {"done", "failed", "down"}

Init ==
  /\ Store!Init
  /\ live = [run |-> 1, trained |-> 0]
  /\ phase = "train"
  /\ step = 0
  /\ evalLoss = NoLoss
  /\ bestLoss = NoLoss
  /\ stale = 0
  /\ runs = 1
  /\ async \in AsyncChoices

-----------------------------------------------------------------------------
(* The loop body of fit().                                                 *)

EvalDue(s)       == s % EvalInterval = 0 \/ s = MaxSteps
CheckpointDue(s) == s % CheckpointInterval = 0
NextIteration_LoopsOn(s) == "train"   \* mutant: the range has no end
NextIteration(s) == IF s < MaxSteps THEN "train" ELSE "final"
AfterEval(s)     == IF CheckpointDue(s) THEN "checkpoint" ELSE NextIteration(s)

OneMore(trained) == IF trained < MostTrained THEN trained + 1 ELSE MostTrained

TrainStep ==
  /\ phase = "train"
  /\ step < MaxSteps
  /\ Store!Mutate([run |-> runs, trained |-> OneMore(live.trained)])
  /\ step' = step + 1
  /\ phase' = IF EvalDue(step + 1) THEN "evaluate" ELSE AfterEval(step + 1)
  /\ UNCHANGED <<evalLoss, bestLoss, stale, runs, async>>

\* _check_early_stopping keeps its own best value and counter, both of which
\* start afresh in every process.
Less(x, y)   == x # NaN /\ y # NaN /\ x < y
Stalls(loss) == bestLoss # NoLoss /\ ~Less(loss, bestLoss)

Evaluate ==
  /\ phase = "evaluate"
  /\ \E loss \in IF Losses = {} THEN {NoLoss} ELSE Losses :
       LET tracked == Patience > 0 /\ loss # NoLoss
           count   == IF Stalls(loss) THEN stale + 1 ELSE 0
       IN /\ evalLoss' = loss
          /\ bestLoss' = IF tracked /\ ~Stalls(loss) THEN loss ELSE bestLoss
          /\ stale' = IF tracked THEN count ELSE stale
          /\ phase' = IF tracked /\ count >= Patience THEN "final" ELSE AfterEval(step)
  /\ UNCHANGED <<storeVars, step, runs, async>>

\* Mutant: the directory is named after the step to come.
SavePeriodic_NextLabel ==
  /\ phase = "checkpoint"
  /\ Store!BeginSave(step + 1, evalLoss)
  /\ phase' = IF async THEN NextIteration(step) ELSE "saving"
  /\ UNCHANGED <<step, evalLoss, bestLoss, stale, runs, async>>

SavePeriodic ==
  /\ phase = "checkpoint"
  /\ Store!BeginSave(step, evalLoss)
  /\ phase' = IF async THEN NextIteration(step) ELSE "saving"
  /\ UNCHANGED <<step, evalLoss, bestLoss, stale, runs, async>>

\* After the loop, however it ended, the save is labelled max_steps.
\* _force_best_metric touches only bestLoss and returns the metric unchanged.
SaveFinal ==
  /\ phase = "final"
  /\ Store!BeginSave(MaxSteps, evalLoss)
  /\ bestLoss' = IF /\ evalLoss # NoLoss /\ bestLoss # NoLoss
                    /\ Store!GreaterOrEqual(bestLoss, evalLoss)
                 THEN evalLoss ELSE bestLoss
  /\ phase' = IF async THEN "join" ELSE "savingFinal"
  /\ UNCHANGED <<step, evalLoss, stale, runs, async>>

\* A synchronous save() returns to the loop.
SaveReturns ==
  /\ phase \in {"saving", "savingFinal"}
  /\ ~Store!Saving
  /\ ~writeError
  /\ phase' = IF phase = "saving" THEN NextIteration(step) ELSE "join"
  /\ UNCHANGED <<storeVars, step, evalLoss, bestLoss, stale, runs, async>>

\* The exception leaves a synchronous save(), or the wait() at the start of the
\* next save or at the end of fit(), and ends the run.
SaveRaises ==
  /\ phase \in {"saving", "savingFinal", "checkpoint", "final", "join"}
  /\ Store!RaiseWriteError
  /\ phase' = "failed"
  /\ UNCHANGED <<step, evalLoss, bestLoss, stale, runs, async>>

\* Mutant: fit() returns without the last wait().
Finish_NoWait ==
  /\ phase = "join"
  /\ phase' = "done"
  /\ UNCHANGED <<storeVars, step, evalLoss, bestLoss, stale, runs, async>>

\* fit() waits for the last background save and returns.
Finish ==
  /\ phase = "join"
  /\ ~Store!Saving
  /\ ~writeError
  /\ phase' = "done"
  /\ UNCHANGED <<storeVars, step, evalLoss, bestLoss, stale, runs, async>>

-----------------------------------------------------------------------------
(* The writer, failures and restarts.                                      *)

\* The file steps of a save, on the training thread or in the background.
Write ==
  /\ Store!WriterStep
  /\ UNCHANGED trainerVars

WriteFails ==
  /\ Store!SaveFails
  /\ UNCHANGED trainerVars

\* An exception in the loop body (a batch with every label masked) ends fit();
\* the interpreter still waits for the non-daemon writer thread.
TrainFails ==
  /\ phase = "train"
  /\ phase' = "failed"
  /\ UNCHANGED <<storeVars, step, evalLoss, bestLoss, stale, runs, async>>

\* The failed process ends after its writer; an error of that save goes with it.
ExitDropsError ==
  /\ phase = "failed"
  /\ Store!RaiseWriteError
  /\ UNCHANGED trainerVars

Crash ==
  /\ Running
  /\ Store!Crash
  /\ phase' = "down"
  /\ UNCHANGED <<step, evalLoss, bestLoss, stale, runs, async>>

\* resolve_resume_target: latest.json first, then best.json; or a step directory.
ResumeTargets ==
  (IF latest # NoStep THEN {latest}
   ELSE IF best.step # NoStep THEN {best.step} ELSE {})
  \cup (IF ResumeFromStepDir THEN {d \in 1..MaxSteps : disk[d].meta} ELSE {})

\* A new process: a fresh Trainer, then load().
NewProcess ==
  /\ ~Running
  /\ ~Store!Saving
  /\ ~writeError
  /\ runs < MaxRuns
  /\ runs' = runs + 1
  /\ evalLoss' = NoLoss
  /\ bestLoss' = NoLoss
  /\ stale' = 0
  /\ async' \in AsyncChoices

Resume ==
  /\ NewProcess
  /\ \E d \in ResumeTargets :
       /\ Store!Load(d)
       /\ step' = d
       /\ phase' = NextIteration(d)

\* load() raises: the directory is gone, has no meta.json or does not verify.
ResumeFails ==
  /\ NewProcess
  /\ \E d \in ResumeTargets : ~Store!Loadable(d)
  /\ phase' = "failed"
  /\ UNCHANGED <<storeVars, step>>

TrainerStep ==
  \/ TrainStep \/ Evaluate \/ SavePeriodic \/ SaveFinal
  \/ SaveReturns \/ SaveRaises \/ Finish

Next ==
  \/ TrainerStep \/ Write
  \/ WriteFails \/ TrainFails \/ ExitDropsError \/ Crash
  \/ Resume \/ ResumeFails

\* A live process keeps executing its loop and its writer thread.
Fairness == WF_vars(TrainerStep) /\ WF_vars(Write)

Spec == Init /\ [][Next]_vars /\ Fairness

-----------------------------------------------------------------------------
(* Properties.                                                             *)

TypeOK ==
  /\ Store!TypeOK
  /\ phase \in Phases
  /\ step \in 0..MaxSteps
  /\ evalLoss \in Losses \cup {NoLoss}
  /\ bestLoss \in Losses \cup {NoLoss}
  /\ stale \in 0..Patience
  /\ runs \in 1..MaxRuns
  /\ async \in AsyncChoices

\* Once a checkpoint was published, some complete checkpoint that verifies is
\* on the disk in every later state: through overwrites in place, pruning,
\* crashes at any step of a save and restarts.
CommittedSurvives ==
  latest # NoStep => \E d \in 1..MaxSteps : Store!Loadable(d)

\* latest.json references a directory that is there and has its meta.json,
\* so that resuming never stops at "references missing directory".
LatestIsThere == latest # NoStep => disk[latest].exists /\ disk[latest].meta

\* A checkpoint labelled d holds the result of exactly d optimizer steps, in
\* whichever processes they ran ("step: training progress", meta.json). The
\* label of the final save after an early stop, max_steps, is an exception.
LabelIsTrainingProgress ==
  \A d \in 1..MaxSteps : Store!Loadable(d) =>
    LET trained == disk[d].file["model"].to.trained
    IN trained = d \/ (Patience > 0 /\ d = MaxSteps /\ trained < d)

\* The loss best.json records is the loss recorded with the checkpoint it
\* points to (or that checkpoint was saved again without a metric).
BestDescribesItsDirectory ==
  best.step # NoStep /\ disk[best.step].meta
    => disk[best.step].loss \in {best.loss, NoLoss}

\* fit() returns only when the final checkpoint is published and verifies.
DoneMeansSaved == phase = "done" => latest = MaxSteps /\ Store!Loadable(MaxSteps)

\* An exception of a background save is not lost: it stops the run, at the
\* next save or at the end of fit() (unless the process dies first).
WriteErrorSurfaces == writeError ~> phase \in {"failed", "down"}

\* A run comes to its end: no save blocks the loop or the loop a save.
RunEnds == []<>~Running

-----------------------------------------------------------------------------
(* What the documentation says, and the runs that disagree.                *)

\* docs/training/checkpoint-format.md:34-35: "a crash mid-save never produces
\* a half checkpoint": after a crash the published checkpoint still verifies.
CrashKeepsLatest == phase = "down" /\ latest # NoStep => Store!Loadable(latest)

\* checkpointing/manager.py:163-164: "async_write copies tensors to CPU first":
\* the files hold the state at the moment save() was called.
LoadedStateIsOneCapture == Store!LoadedStateIsOneCapture
=============================================================================
