----------------------------- MODULE SensorHealth -----------------------------
(***************************************************************************)
(* SensorHealthMonitor and RobustInferenceEngine (robustness/): an         *)
(* autoencoder scores the health of each sensor by how badly it rebuilds   *)
(* its readings, measured by thresholds that fit derives from the same     *)
(* weights; an LSTM sees the channels of a reading weighted by the scores. *)
(* Both parts of a monitor are saved to a directory as files of their own. *)
(*                                                                         *)
(* Weights are numbered in the order they come to be.  Scores, and the     *)
(* floor of the weights, are in units of 1 / Unit.                         *)
(***************************************************************************)
EXTENDS Integers, FiniteSets, Functions

CONSTANTS Sensor, Unit,
          MinWeight,       \* floor of a channel's weight
          Threshold,       \* the error at which a sensor counts as dead
          Errors,          \* errors of a sensor in a reading
          Directory,       \* where monitors are saved
          MaxWeights,      \* bound: autoencoders built or fitted
          MaxModels        \* bound: LSTMs the model manager loads

ASSUME HealthAssumption ==
    /\ IsFiniteSet(Sensor) /\ Sensor # {} /\ Unit \in Nat \ {0}
    /\ MinWeight \in 0 .. Unit /\ Threshold \in Nat \ {0} /\ Errors \subseteq Nat
    /\ MaxWeights \in Nat /\ MaxModels \in Nat

VARIABLES
    autoencoder,   \* the weights of the monitor in memory
    thresholds,    \* the weights its thresholds were derived from, or None
    savedEncoder, savedThresholds,   \* the same of each directory, or None
    made,          \* how many weights there have been
    warned,        \* history: the last load found no thresholds, and fit was not called since
    served,        \* the LSTM of the model manager, numbered, 0 before the first
    engine,        \* the LSTM of the engine, or None before it is made
    estimate       \* the last answer of the engine

monitorVars == <<autoencoder, thresholds, savedEncoder, savedThresholds, made, warned>>
engineVars  == <<served, engine, estimate>>
healthVars  == <<monitorVars, engineVars>>

None == 0

-------------------------------------------------------------------------------
(* Scores and weights *)

Least(a, b) == IF a <= b THEN a ELSE b

HealthScores(errors) ==
    [s \in Sensor |-> Unit - Least(Unit, (Unit * errors[s]) \div Threshold)]

Uniform == [s \in Sensor |-> Unit]

(* A slip a change to this code could make; the specification does not use it. *)
Unfloored(scores) == [s \in Sensor |-> scores[s]]

(* The weight of a channel is its floored score over their mean. *)
Floored(scores) == [s \in Sensor |-> IF scores[s] < MinWeight THEN MinWeight ELSE scores[s]]
Total(scores)   == FoldFunction(+, 0, Floored(scores))
ChannelWeights(scores) ==
    IF Total(scores) = 0 THEN [s \in Sensor |-> <<1, 1>>]
    ELSE [s \in Sensor |-> <<Floored(scores)[s] * Cardinality(Sensor), Total(scores)>>]

(* degraded_threshold is one half. *)
Degraded(scores) == {s \in Sensor : 2 * scores[s] < Unit}

(* Boundaries of its own: 10 where the service says 30 (HealthFromRul). *)
RobustHealth(rul) ==
    CASE rul >= 100             -> "healthy"
      [] 50 <= rul /\ rul < 100 -> "warning"
      [] 10 <= rul /\ rul < 50  -> "critical"
      [] rul < 10               -> "imminent_failure"

-------------------------------------------------------------------------------
(* The monitor *)

HealthInit ==
    /\ autoencoder = 1 /\ made = 1 /\ thresholds = None
    /\ savedEncoder = [d \in Directory |-> None]
    /\ savedThresholds = [d \in Directory |-> None]
    /\ warned = FALSE
    /\ served = 0 /\ engine = None
    /\ estimate = [lstm |-> None, scores |-> Uniform, by |-> "nobody", status |-> 200]

NewWeights == made < MaxWeights /\ made' = made + 1 /\ autoencoder' = made + 1

(* A process starts with a monitor of its own. *)
BuildMonitor ==
    /\ NewWeights
    /\ thresholds' = None /\ warned' = FALSE
    /\ UNCHANGED <<savedEncoder, savedThresholds, engineVars>>

(* Input that is refused changes nothing. *)
Fit ==
    /\ NewWeights
    /\ thresholds' = made' /\ warned' = FALSE
    /\ UNCHANGED <<savedEncoder, savedThresholds, engineVars>>

(* Training is interrupted, or calibration fails: the weights have moved. *)
FitBreaks ==
    /\ NewWeights
    /\ warned' = FALSE
    /\ UNCHANGED <<thresholds, savedEncoder, savedThresholds, engineVars>>

(* The thresholds of an earlier monitor stay if this one has none. *)
Save(d) ==
    /\ savedEncoder' = [savedEncoder EXCEPT ![d] = autoencoder]
    /\ savedThresholds' = IF thresholds = None THEN savedThresholds
                          ELSE [savedThresholds EXCEPT ![d] = thresholds]
    /\ UNCHANGED <<autoencoder, thresholds, made, warned, engineVars>>

(* It stops after the first of the two files. *)
SaveBreaks(d) ==
    /\ savedEncoder' = [savedEncoder EXCEPT ![d] = autoencoder]
    /\ UNCHANGED <<autoencoder, thresholds, savedThresholds, made, warned, engineVars>>

(* Into a new monitor or the present one, which keeps its thresholds, with *)
(* a warning that it has none, if the directory has none.                  *)
Load(d, new) ==
    /\ savedEncoder[d] # None
    /\ autoencoder' = savedEncoder[d]
    /\ thresholds' = IF new \/ savedThresholds[d] # None THEN savedThresholds[d] ELSE thresholds
    /\ warned' = (savedThresholds[d] = None)
    /\ UNCHANGED <<savedEncoder, savedThresholds, made, engineVars>>

-------------------------------------------------------------------------------
(* The engine *)

(* The model manager loads another LSTM; the engine has none of it. *)
ServeModel ==
    /\ served < MaxModels /\ served' = served + 1
    /\ UNCHANGED <<monitorVars, engine, estimate>>

(* from_model_manager at startup, refused without a model. *)
MakeEngine ==
    /\ engine = None /\ served # 0
    /\ engine' = served
    /\ UNCHANGED <<monitorVars, served, estimate>>

(* predict_rul with the scores of the caller, of the monitor, or, when the *)
(* monitor is not calibrated, fails or is missing, with equal ones.        *)
Estimate(scores, by) ==
    /\ engine # None
    /\ estimate' = [lstm |-> engine, scores |-> scores, by |-> by, status |-> 200]
    /\ UNCHANGED <<monitorVars, served, engine>>

EstimateByMonitor(errors) == thresholds # None /\ Estimate(HealthScores(errors), "monitor")

(* A sequence of the wrong shape or not finite, scores out of range, an    *)
(* LSTM that fails.                                                        *)
Problem == {"sequence", "scores", "lstm"}

(* predict_robust_rul: the status of a request without an estimate. *)
Refuse(problem) ==
    /\ estimate' = [lstm |-> None, scores |-> Uniform, by |-> "nobody",
                    status |-> IF engine = None THEN 503
                               ELSE IF problem = "lstm" THEN 500 ELSE 422]
    /\ UNCHANGED <<monitorVars, served, engine>>

HealthNext ==
    \/ BuildMonitor \/ Fit \/ FitBreaks
    \/ \E d \in Directory : Save(d) \/ SaveBreaks(d) \/ \E new \in BOOLEAN : Load(d, new)
    \/ ServeModel \/ MakeEngine
    \/ \E scores \in [Sensor -> 0 .. Unit] : Estimate(scores, "caller")
    \/ \E errors \in [Sensor -> Errors] : EstimateByMonitor(errors)
    \/ Estimate(Uniform, "nobody")
    \/ \E problem \in Problem : Refuse(problem)

HealthSpec == HealthInit /\ [][HealthNext]_healthVars

-------------------------------------------------------------------------------
(* Properties *)

Weights == 0 .. made

(* Every variable has its type. *)
HealthTypeOK ==
    /\ made \in Nat /\ autoencoder \in Weights \ {None} /\ thresholds \in Weights
    /\ savedEncoder \in [Directory -> Weights] /\ savedThresholds \in [Directory -> Weights]
    /\ warned \in BOOLEAN
    /\ served \in Nat /\ engine \in 0 .. served
    /\ estimate.lstm \in 0 .. served /\ estimate.scores \in [Sensor -> 0 .. Unit]
    /\ estimate.by \in {"nobody", "caller", "monitor"} /\ estimate.status \in {200, 422, 500, 503}

(* A channel keeps at least the floor of its nominal weight, a degraded    *)
(* sensor weighs less than a sound one if the floor is below one half, and *)
(* a machine whose sensors are all equally degraded is judged as if they   *)
(* were sound.                                                             *)
WeightsAreFair ==
    LET scores == estimate.scores
        w == ChannelWeights(scores)
    IN \A s, t \in Sensor :
          /\ w[s][1] * Unit >= MinWeight * w[s][2]
          /\ s \in Degraded(scores) /\ t \notin Degraded(scores) /\ 2 * MinWeight < Unit
                => w[s][1] < w[t][1]
          /\ (\A u \in Sensor : scores[u] = scores[s]) => w[s][1] = w[s][2]

(* "compute_health_scores() will raise until fit() is called"              *)
(* (sensor_health_monitor.py:487): after this warning of load, no estimate *)
(* uses scores of the monitor.                                             *)
WarnedMonitorRaises ==
    [][warned /\ estimate' # estimate => estimate'.by # "monitor"]_healthVars
===============================================================================
