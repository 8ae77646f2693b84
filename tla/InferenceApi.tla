----------------------------- MODULE InferenceApi -----------------------------
(***************************************************************************)
(* InferenceEngine (inference_service/models/inference_engine.py) and the  *)
(* requests of the API for predictions, health and training                *)
(* (inference_service/api/main.py).                                        *)
(* How the models get loaded is ModelServing's matter; here they are there *)
(* or not, and a forest is the classes it was trained on.                  *)
(*                                                                         *)
(* A reading is the value of its features; 0 also stands for a reading     *)
(* without a feature_i, since a missing feature reads as zero.             *)
(***************************************************************************)
EXTENDS Scaler, Labels, Sequences, FiniteSets

CONSTANTS SequenceSteps,    \* sequence_length of the engine
          Readings,         \* values of a reading
          Predictions,      \* what an LSTM may predict, before it is clipped
          MaxSequence       \* bound: readings of a request, sequences of a batch

ASSUME InferenceAssumption ==
    /\ SequenceSteps \in Nat \ {0} /\ MaxSequence \in Nat
    /\ Readings \subseteq Int /\ Predictions \subseteq Int

VARIABLES
    lstm,       \* whether requests find an LSTM
    forest,     \* the class codes the forest they find was trained on, or none
    answer      \* the last answer to a request

inferenceVars == <<lstm, forest, answer>>

Code == -1 .. 3
Dependency == {"timescaledb", "kafka", "redis"}

-------------------------------------------------------------------------------
(* inference_engine.py *)

(* The last readings; a shorter sequence has zeros in front. *)
PreprocessSequence(rows) ==
    [i \in 1 .. SequenceSteps |->
        LET j == i + Len(rows) - SequenceSteps IN IF j >= 1 THEN rows[j] ELSE 0]

Clip(prediction) == IF prediction < 0 THEN 0 ELSE IF prediction > 200 THEN 200 ELSE prediction

HealthFromRul(rul) ==
    CASE rul >= 100              -> "healthy"
      [] 50 <= rul /\ rul < 100  -> "warning"
      [] 30 <= rul /\ rul < 50   -> "critical"
      [] rul < 30                -> "imminent_failure"

HealthClass == <<"healthy", "warning", "critical", "imminent_failure">>

(* The codes label_generator gives the classes. *)
CodeOf(status) ==
    IF status = "unknown" THEN -1 ELSE (CHOOSE i \in 1 .. 4 : HealthClass[i] = status) - 1

(* health_classes[code]; -1 is the last of the list. *)
PredictedClass(code) == IF code = -1 THEN HealthClass[4] ELSE HealthClass[code + 1]

(* The columns of predict_proba are the classes the forest knows, in the   *)
(* order of their codes; they are zipped with the names.                   *)
Column(code) == Cardinality({c \in forest : c < code}) + 1
ReportedAs(code) == IF Column(code) <= 4 THEN HealthClass[Column(code)] ELSE "nobody"

-------------------------------------------------------------------------------
(* The handlers; each runs to its end before another one starts. *)

Failed(status) == [of |-> "nothing", status |-> status]

InferenceInit == lstm \in BOOLEAN /\ forest = {} /\ answer = Failed("none")

(* The model manager loads something else. *)
ModelsChange(classes) ==
    /\ lstm' \in BOOLEAN /\ forest' = classes
    /\ UNCHANGED answer

PredictRul(rows, prediction, raises) ==
    /\ answer' =
          IF ~lstm THEN Failed("unavailable")
          ELSE IF ~Scales \/ raises THEN Failed("error")
          ELSE [of |-> "lstm", status |-> "ok", input |-> PreprocessSequence(rows),
                rul |-> Clip(prediction), health |-> HealthFromRul(Clip(prediction))]
    /\ UNCHANGED <<lstm, forest>>

(* One name for the class, and the probabilities by name. *)
PredictHealth(code, raises) ==
    /\ forest # {} => code \in forest
    /\ answer' =
          IF forest = {} THEN Failed("unavailable")
          ELSE IF ~Scales \/ raises THEN Failed("error")
          ELSE [of |-> "forest", status |-> "ok", code |-> code, class |-> PredictedClass(code),
                probability |-> {<<ReportedAs(c), c>> : c \in forest}]
    /\ UNCHANGED <<lstm, forest>>

(* A sequence that fails is left out. *)
PredictBatch(size, broken) ==
    /\ answer' =
          IF ~lstm THEN Failed("unavailable")
          ELSE [of |-> "batch", status |-> "ok",
                results |-> IF Scales THEN (1 .. size) \ broken ELSE {}]
    /\ UNCHANGED <<lstm, forest>>

(* GET /health.  A model counts under any key, also one no request reads,  *)
(* and a pipeline that has stopped does not count.                         *)
HealthCheck(down, other, running) ==
    /\ answer' = [of |-> "health", status |-> "ok",
                  overall  |-> IF down = {} /\ (lstm \/ forest # {} \/ other)
                               THEN "healthy" ELSE "degraded",
                  pipeline |-> IF running THEN "healthy" ELSE "unknown"]
    /\ UNCHANGED <<lstm, forest>>

(* POST /train.  The request is accepted before its thread imports the     *)
(* pipeline, which fails: its modules are not on the path.                 *)
TriggerTraining(modelType) ==
    /\ answer' = IF modelType \in {"lstm", "rf", "all"}
                 THEN [of |-> "training", status |-> "ok"] ELSE Failed("invalid")
    /\ UNCHANGED <<lstm, forest>>

Sequence == UNION {[1 .. n -> Readings] : n \in 1 .. MaxSequence}

InferenceNext ==
    \/ \E classes \in SUBSET Code : ModelsChange(classes)
    \/ \E rows \in Sequence, prediction \in Predictions, raises \in BOOLEAN :
           PredictRul(rows, prediction, raises)
    \/ \E code \in Code, raises \in BOOLEAN : PredictHealth(code, raises)
    \/ \E size \in 0 .. MaxSequence : \E broken \in SUBSET (1 .. size) :
           PredictBatch(size, broken)
    \/ \E down \in SUBSET Dependency, other, running \in BOOLEAN : HealthCheck(down, other, running)
    \/ \E modelType \in {"lstm", "rf", "all", "unknown"} : TriggerTraining(modelType)

InferenceSpec == InferenceInit /\ [][InferenceNext]_inferenceVars

-------------------------------------------------------------------------------
(* Properties *)

(* Every variable has its type. *)
InferenceTypeOK ==
    /\ lstm \in BOOLEAN /\ forest \subseteq Code
    /\ answer.of \in {"nothing", "lstm", "forest", "batch", "health", "training"}
    /\ answer.status \in {"none", "unavailable", "error", "invalid", "ok"}
    /\ answer.of = "lstm" => answer.input \in [1 .. SequenceSteps -> Readings \cup {0}]
                             /\ answer.rul \in 0 .. 200
    /\ answer.of = "forest" => answer.code \in Code
    /\ answer.of = "batch" => answer.results \subseteq 1 .. MaxSequence

(* The engine as the API makes it answers no request with a prediction,    *)
(* whatever is loaded: its scaler was never fitted.                        *)
ShippedApiPredictsNothing ==
    Normalization = "standard" =>
        answer.of \notin {"lstm", "forest"} /\ (answer.of = "batch" => answer.results = {})

(* A class with a code is reported under its own name; the class the label *)
(* generator calls unknown comes back as an imminent failure.              *)
NamesFollowCodes ==
    answer.of = "forest" =>
        IF answer.code = -1 THEN answer.class = "imminent_failure"
        ELSE CodeOf(answer.class) = answer.code
===============================================================================
