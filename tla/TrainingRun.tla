------------------------------ MODULE TrainingRun ------------------------------
(***************************************************************************)
(* runpod/train.py and the training it wraps: the latest checkpoint is     *)
(* found, scripts/reflection_train.py is started with it, loads its data,  *)
(* trains, saves checkpoints and then the adapter; signals are passed on,  *)
(* and whatever is killed is launched again into the same directory.       *)
(***************************************************************************)
EXTENDS Integers, SequencesExt

CONSTANTS
    Steps,         \* steps of a whole training, counted in checkpoint intervals
    KeepLast,      \* checkpoint_keep_last
    MaxLaunches    \* bound: launches of the wrapper

ASSUME StepsAssumption ==
    Steps \in Nat \ {0} /\ KeepLast \in Nat \ {0} /\ MaxLaunches \in Nat

None == 0    \* as a checkpoint, a step or a launch: there is none

VARIABLES
    backend,       \* "unsloth" or "stub"
    launches,      \* launches so far: the number of the current one
    wrapper,       \* "down", "config", "handlers", "waiting" or "ended"
    trainer,       \* the child: "none", "loading", "training", "saving", "files" or "gone"
    resumeFrom,    \* --resume-from: the step of a checkpoint
    began, step,   \* the step the training began after, and the last one done
    loaded,        \* examples loaded
    checkpoints,   \* [step, launch, whole] by the time they were last touched
    written,       \* files of the adapter this launch has written
    adapter,       \* per file of the adapter: the launch that wrote it
    exitCode       \* of the child: None, 0, or 1 for everything else

trainVars == <<backend, launches, wrapper, trainer, resumeFrom, began, step, loaded, checkpoints,
               written, adapter, exitCode>>

Running == {"loading", "training", "saving", "files"}
AdapterFile == {"weights", "manifest", "lora_config"}
NoCode == -1

TrainInit ==
    /\ backend \in {"unsloth", "stub"} /\ launches = 0 /\ wrapper = "down" /\ trainer = "none"
    /\ resumeFrom = None /\ began = None /\ step = 0 /\ loaded = 0 /\ checkpoints = <<>>
    /\ written = {} /\ adapter = [f \in AdapterFile |-> None] /\ exitCode = NoCode

--------------------------------------------------------------------------------
(* The wrapper                                                                 *)

Launch ==
    /\ wrapper \in {"down", "ended"} /\ launches < MaxLaunches
    /\ launches' = launches + 1 /\ wrapper' = "config" /\ trainer' = "none"
    /\ exitCode' = NoCode /\ resumeFrom' = None
    /\ UNCHANGED <<backend, began, step, loaded, checkpoints, written, adapter>>

\* _find_latest_checkpoint: the newest directory, whole or not.
FindLatestCheckpoint ==
    /\ wrapper = "config" /\ wrapper' = "handlers"
    /\ resumeFrom' = IF checkpoints = <<>> THEN None ELSE Last(checkpoints).step
    /\ UNCHANGED <<backend, launches, trainer, began, step, loaded, checkpoints, written, adapter,
                   exitCode>>

StartTrainer ==
    /\ wrapper = "handlers" /\ wrapper' = "waiting"
    /\ trainer' = "loading" /\ written' = {} /\ step' = 0 /\ began' = None /\ loaded' = 0
    /\ UNCHANGED <<backend, launches, resumeFrom, checkpoints, adapter, exitCode>>

WrapperReturns ==
    /\ wrapper = "waiting" /\ trainer = "gone" /\ wrapper' = "ended"
    /\ UNCHANGED <<backend, launches, trainer, resumeFrom, began, step, loaded, checkpoints, written,
                   adapter, exitCode>>

\* SIGTERM or SIGINT: the end of a wrapper without handlers, nothing while there is no child
\* yet, and otherwise the end of the child.
Signal ==
    /\ \/ wrapper = "config" /\ wrapper' = "down" /\ UNCHANGED <<trainer, exitCode>>
       \/ wrapper = "handlers" /\ UNCHANGED <<wrapper, trainer, exitCode>>
       \/ /\ wrapper = "waiting" /\ trainer \in Running
          /\ trainer' = "gone" /\ exitCode' = 1 /\ UNCHANGED wrapper
    /\ UNCHANGED <<backend, launches, resumeFrom, began, step, loaded, checkpoints, written, adapter>>

\* The pod goes away.
KillPod ==
    /\ wrapper # "down" /\ wrapper' = "down" /\ trainer' = "gone" /\ exitCode' = NoCode
    /\ UNCHANGED <<backend, launches, resumeFrom, began, step, loaded, checkpoints, written, adapter>>

--------------------------------------------------------------------------------
(* The training                                                                *)

TrainerRaises ==
    /\ trainer \in Running /\ trainer' = "gone" /\ exitCode' = 1
    /\ UNCHANGED <<backend, launches, wrapper, resumeFrom, began, step, loaded, checkpoints, written,
                   adapter>>

\* load_training_dataset, and the trainer build_trainer returns: UnslothTrainer refuses no
\* examples.  train() is called without a checkpoint, and begins at the beginning.
LoadDataset ==
    /\ trainer = "loading" /\ \E n \in {0, 1} : loaded' = n
    /\ backend = "unsloth" => loaded' > 0
    /\ trainer' = IF backend = "stub" THEN "files" ELSE "training"
    /\ began' = None /\ step' = None
    /\ UNCHANGED <<backend, launches, wrapper, resumeFrom, checkpoints, written, adapter, exitCode>>

\* The files of the checkpoint are being written, into the directory that an earlier launch
\* may have left under that step (which may or may not make it the newest).
TrainStep ==
    /\ trainer = "training" /\ step < Steps /\ step' = step + 1 /\ trainer' = "saving"
    /\ LET c == [step |-> step', launch |-> launches, whole |-> FALSE]
           left == {i \in DOMAIN checkpoints : checkpoints[i].step = step'}
       IN  \/ left = {} /\ checkpoints' = Append(checkpoints, c)
           \/ \E i \in left : \/ checkpoints' = Append(RemoveAt(checkpoints, i), c)
                             \/ checkpoints' = [checkpoints EXCEPT ![i] = c]
    /\ UNCHANGED <<backend, launches, wrapper, resumeFrom, began, loaded, written, adapter, exitCode>>

\* ... and done: save_total_limit removes others until KeepLast are left.
Left == IF Len(checkpoints) > KeepLast THEN KeepLast ELSE Len(checkpoints)
CheckpointSaved ==
    /\ trainer = "saving" /\ trainer' = "training"
    /\ \E place \in [1..Left -> DOMAIN checkpoints] :
         /\ \A i, j \in 1..Left : i < j => place[i] < place[j]
         /\ \E i \in 1..Left : checkpoints[place[i]].step = step
         /\ checkpoints' = [i \in 1..Left |->
              LET c == checkpoints[place[i]]
              IN  IF c.step = step THEN [c EXCEPT !.whole = TRUE] ELSE c]
    /\ UNCHANGED <<backend, launches, wrapper, resumeFrom, began, step, loaded, written, adapter,
                   exitCode>>

TrainingDone ==
    /\ trainer = "training" /\ step = Steps /\ trainer' = "files"
    /\ UNCHANGED <<backend, launches, wrapper, resumeFrom, began, step, loaded, checkpoints, written,
                   adapter, exitCode>>

ManifestFirst == <<"manifest", "weights", "lora_config">>

\* save_pretrained, write_training_manifest, write_lora_config; of the stub likewise.
Order == <<"weights", "manifest", "lora_config">>

WriteAdapterFile ==
    /\ trainer = "files"
    /\ \E i \in DOMAIN Order :
         /\ written = {Order[j] : j \in 1..(i - 1)}
         /\ written' = written \cup {Order[i]}
         /\ adapter' = [adapter EXCEPT ![Order[i]] = launches]
    /\ UNCHANGED <<backend, launches, wrapper, trainer, resumeFrom, began, step, loaded, checkpoints,
                   exitCode>>

TrainerExits ==
    /\ trainer = "files" /\ written = AdapterFile /\ trainer' = "gone" /\ exitCode' = 0
    /\ UNCHANGED <<backend, launches, wrapper, resumeFrom, began, step, loaded, checkpoints, written,
                   adapter>>

TrainNext == \/ Launch \/ FindLatestCheckpoint \/ StartTrainer \/ WrapperReturns
             \/ Signal \/ KillPod
             \/ TrainerRaises \/ LoadDataset \/ TrainStep \/ CheckpointSaved \/ TrainingDone
             \/ WriteAdapterFile \/ TrainerExits

TrainSpec == TrainInit /\ [][TrainNext]_trainVars

--------------------------------------------------------------------------------

\* Every variable has its type.
TrainTypeOK ==
    /\ backend \in {"unsloth", "stub"} /\ launches \in 0..MaxLaunches
    /\ wrapper \in {"down", "config", "handlers", "waiting", "ended"}
    /\ trainer \in Running \cup {"none", "gone"}
    /\ {resumeFrom, began, step} \subseteq 0..Steps /\ loaded \in {0, 1}
    /\ checkpoints \in Seq([step : 1..Steps, launch : 1..MaxLaunches, whole : BOOLEAN])
    /\ written \subseteq AdapterFile /\ adapter \in [AdapterFile -> 0..MaxLaunches]
    /\ exitCode \in {NoCode, 0, 1}

\* However often trainings are killed and launched again into one directory: the manifest never
\* describes weights that were not saved, nor lora_config.json an adapter without a manifest;
\* at most one checkpoint is not whole unless a kill left it behind; and the wrapper reports
\* success only if all three files are of its own launch.
ManifestNeverAhead ==
    /\ adapter["manifest"] <= adapter["weights"] /\ adapter["lora_config"] <= adapter["manifest"]
    /\ \A i \in DOMAIN checkpoints :
         checkpoints[i].whole \/ checkpoints[i].launch < launches \/ trainer \in {"saving", "gone"}
                              \/ wrapper # "waiting"
    /\ wrapper = "ended" /\ exitCode = 0 => \A f \in AdapterFile : adapter[f] = launches

\* TECHNICAL_SPECIFICATION_MODEL_LOADING.md, 5.2: a training that is given a checkpoint goes on
\* from its step.
ResumeContinues == trainer = "training" => began = resumeFrom
================================================================================
