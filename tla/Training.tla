------------------------------- MODULE Training -------------------------------
(***************************************************************************)
(* TrainingPipeline (ml_pipeline/train): it splits the machines, trains an *)
(* LSTM and a random forest, each within an MLflow run, and registers what *)
(* it trained.  Every step may raise; the run is ended all the same, and   *)
(* the rest of the pipeline is given up.                                   *)
(*                                                                         *)
(* A machine is the number of its cycles; the machines are numbered in the *)
(* order the split shuffled them to.                                       *)
(***************************************************************************)
EXTENDS Labels, Sequences, FiniteSets

CONSTANTS Fleet,             \* number of machines
          Lifetimes,         \* cycles a machine may have
          WindowLength,      \* sequence_length
          MaxTrainings,      \* bound: calls of the pipeline
          MaxTrainingFaults  \* bound: calls to MLflow, fits and writes that raise

ASSUME TrainingAssumption ==
    /\ Fleet \in Nat \ {0} /\ Lifetimes \subseteq Nat \ {0} /\ WindowLength \in Nat \ {0}
    /\ MaxTrainings \in Nat /\ MaxTrainingFaults \in Nat

Kind == {"lstm", "forest"}

VARIABLES
    lifetime,     \* cycles of each machine
    queue,        \* the models still to train, the current one first
    source,       \* "table": rows read back; "frame": rows just processed
    held,         \* whether the caller passes a test set
    pos,          \* the next step of the current training, or 0
    activeRun,    \* whether the process has an MLflow run open
    openRuns,     \* runs the tracking server still shows as running
    evaluated,    \* whether the current model was measured on the test set
    versions,     \* versions registered of each kind,
    measured,     \* and those of them that had been evaluated
    saved,        \* model files of each kind
    litter,       \* steps whose temporary file was left in the directory
    trainings, trainingFaults

runVars      == <<activeRun, openRuns>>
modelVars    == <<versions, measured, saved>>
jobVars      == <<lifetime, source, held>>
trainingVars == <<jobVars, queue, pos, runVars, evaluated, modelVars, litter,
                  trainings, trainingFaults>>

TrainingFault == trainingFaults < MaxTrainingFaults /\ trainingFaults' = trainingFaults + 1

-------------------------------------------------------------------------------
(* split_by_equipment *)

Share(percent) == (Fleet * percent) \div 100
TrainPart == 1 .. Share(70)
ValPart   == Share(70) + 1 .. Share(70) + Share(15)
TestPart  == Share(70) + Share(15) + 1 .. Fleet

(* health_status_code of the rows of some machines *)
Classes(part) ==
    {HealthStatus(RulLabel(remaining)) :
         remaining \in UNION {0 .. lifetime[m] - 1 : m \in part}}

(* prepare_lstm_data: without a window the array has no dimensions. *)
HasWindow(part) == \E m \in part : lifetime[m] >= WindowLength

-------------------------------------------------------------------------------
(* train_lstm and train_random_forest, between start_run and end_run *)

LstmScript   == <<"config", "tags", "build", "params", "fit", "history",
                  "evaluate", "plot", "save", "register">>
ForestScript == <<"tags", "build", "params", "fit", "evaluate", "confusion",
                  "importance", "save", "register">>

Script(kind) == IF kind = "lstm" THEN LstmScript ELSE ForestScript

Current == Head(queue)
Step    == Script(Current)[pos]
Running == pos \in 1 .. Len(Script(Current))

LeavesFile(step) == step \in {"config", "plot", "confusion", "importance"}

(* The rows of the table have no features: insert_features stores {}. *)
HasFeatures(part) == source = "frame" /\ part # {}

(* The shape of the first window is the shape of the input. *)
CanBuildLstm == HasWindow(TrainPart)

(* Both fits use the validation set too, which nothing checks for rows. *)
CanFitLstm   == HasFeatures(TrainPart) /\ HasFeatures(ValPart) /\ HasWindow(ValPart)
CanFitForest == HasFeatures(TrainPart) /\ HasFeatures(ValPart)

CanEvaluateLstm == HasWindow(TestPart)

(* classification_report is told four names: it raises unless the labels   *)
(* and the predictions have four classes between them.                     *)
FourClasses ==
    \E predicted \in SUBSET Classes(TrainPart) \ {{}} :
        Cardinality(Classes(TestPart) \cup predicted) = 4

CanDo(step) ==
    CASE step = "build"             -> Current = "lstm" => CanBuildLstm
      [] step = "fit"               -> IF Current = "lstm" THEN CanFitLstm ELSE CanFitForest
      [] step = "evaluate" /\ held -> IF Current = "lstm" THEN CanEvaluateLstm ELSE FourClasses
      [] OTHER                      -> TRUE

-------------------------------------------------------------------------------

TrainingInit ==
    /\ lifetime \in [1 .. Fleet -> Lifetimes]
    /\ queue = <<>> /\ source = "table" /\ held = TRUE /\ pos = 0
    /\ activeRun = FALSE /\ openRuns = 0 /\ evaluated = FALSE
    /\ versions = [k \in Kind |-> 0] /\ measured = [k \in Kind |-> 0]
    /\ saved = [k \in Kind |-> 0] /\ litter = {}
    /\ trainings = 0 /\ trainingFaults = 0

(* run_full_pipeline reads the table and always has a test set; a caller   *)
(* with a frame of its own trains one model.                               *)
BeginTraining(kinds, from, withTest) ==
    /\ queue = <<>>
    /\ trainings < MaxTrainings /\ trainings' = trainings + 1
    /\ from = "table" => withTest
    /\ from = "frame" => Len(kinds) = 1
    /\ queue' = kinds /\ source' = from /\ held' = withTest
    /\ UNCHANGED <<lifetime, pos, runVars, evaluated, modelVars, litter, trainingFaults>>

(* MLflow refuses a second run; start_run is called before the try. *)
StartRun(fails) ==
    /\ queue # <<>> /\ pos = 0
    /\ IF activeRun \/ fails
       THEN /\ IF activeRun THEN UNCHANGED trainingFaults ELSE TrainingFault
            /\ queue' = <<>>
            /\ UNCHANGED <<pos, runVars, evaluated>>
       ELSE /\ activeRun' = TRUE /\ openRuns' = openRuns + 1
            /\ pos' = 1 /\ evaluated' = FALSE
            /\ UNCHANGED <<queue, trainingFaults>>
    /\ UNCHANGED <<jobVars, modelVars, litter, trainings>>

Registers ==
    /\ versions' = [versions EXCEPT ![Current] = @ + 1]
    /\ measured' = IF evaluated THEN [measured EXCEPT ![Current] = @ + 1] ELSE measured

TrainingStep ==
    /\ queue # <<>> /\ Running
    /\ CanDo(Step)
    /\ evaluated' = (evaluated \/ (Step = "evaluate" /\ held))
    /\ saved' = IF Step = "save" THEN [saved EXCEPT ![Current] = @ + 1] ELSE saved
    /\ IF Step = "register" THEN Registers ELSE UNCHANGED <<versions, measured>>
    /\ litter' = IF ~held /\ Step \in {"plot", "confusion"} THEN litter ELSE litter \ {Step}
    /\ pos' = pos + 1
    /\ UNCHANGED <<jobVars, queue, runVars, trainings, trainingFaults>>

(* The data does not allow the step, or the call raises, a registration    *)
(* perhaps after it took effect; the temporary file of the step stays.     *)
TrainingStepFails(applied) ==
    /\ queue # <<>> /\ Running
    /\ ~held => Step \notin {"evaluate", "plot", "confusion"}
    /\ (~CanDo(Step) /\ UNCHANGED trainingFaults) \/ TrainingFault
    /\ applied => Step = "register"
    /\ IF applied THEN Registers ELSE UNCHANGED <<versions, measured>>
    /\ litter' = IF LeavesFile(Step) THEN litter \cup {Step} ELSE litter
    /\ pos' = Len(Script(Current)) + 2
    /\ UNCHANGED <<jobVars, queue, runVars, evaluated, saved, trainings>>

(* finally: end_run.  MLflow forgets the run before it tells the server. *)
EndRun(fails) ==
    /\ queue # <<>> /\ pos > Len(Script(Current))
    /\ activeRun' = FALSE /\ pos' = 0
    /\ IF fails THEN TrainingFault /\ UNCHANGED openRuns
       ELSE UNCHANGED trainingFaults /\ openRuns' = openRuns - 1
    /\ queue' = IF fails \/ pos = Len(Script(Current)) + 2 THEN <<>> ELSE Tail(queue)
    /\ UNCHANGED <<jobVars, evaluated, modelVars, litter, trainings>>

Plans == {<<"lstm", "forest">>, <<"lstm">>, <<"forest">>}

TrainingNext ==
    \/ \E kinds \in Plans, from \in {"table", "frame"}, withTest \in BOOLEAN :
           BeginTraining(kinds, from, withTest)
    \/ TrainingStep
    \/ \E fails \in BOOLEAN : StartRun(fails) \/ TrainingStepFails(fails) \/ EndRun(fails)

TrainingSpec == TrainingInit /\ [][TrainingNext]_trainingVars

-------------------------------------------------------------------------------
(* Properties *)

(* Every variable has its type. *)
TrainingTypeOK ==
    /\ lifetime \in [1 .. Fleet -> Lifetimes]
    /\ queue \in Plans \cup {<<>>} /\ source \in {"table", "frame"} /\ held \in BOOLEAN
    /\ pos \in Nat /\ activeRun \in BOOLEAN /\ openRuns \in Nat /\ evaluated \in BOOLEAN
    /\ versions \in [Kind -> Nat] /\ measured \in [Kind -> Nat] /\ saved \in [Kind -> Nat]
    /\ litter \subseteq {"config", "plot", "confusion", "importance"}
    /\ trainings \in Nat /\ trainingFaults \in Nat

(* With the shipped label settings no label is ever healthy or warning, so *)
(* the report on a forest always raises: a forest that was measured on a   *)
(* test set is never registered, and one that is was not measured.         *)
MeasuredForestNeverRegistered == measured["forest"] = 0

(* A process that trains nothing has no MLflow run open, so that the next  *)
(* training can start one; a version has a model file of its own.          *)
RunsEnd == queue = <<>> => ~activeRun
VersionsHaveFiles == \A k \in Kind : versions[k] <= saved[k]
===============================================================================
