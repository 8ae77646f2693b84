------------------------------ MODULE Retraining ------------------------------
(***************************************************************************)
(* RetrainingPipeline (ml_pipeline/retrain/retrain_pipeline.py) with its   *)
(* drift detector and comparator, above the registry: a check looks for    *)
(* drift, a model is trained and compared with the one in Production, and  *)
(* promoted if it is better.  Its modules import each other by bare names, *)
(* so that only a process whose path holds their directory can run it:     *)
(* scheduler.py and POST /train cannot.  Several may at once, each a       *)
(* deployer; nothing else in the repository promotes.                      *)
(*                                                                         *)
(* A model is the score of the primary metric on the test rows, which are  *)
(* the same rows in every run.                                             *)
(***************************************************************************)
EXTENDS ModelRegistry

CONSTANTS Scores,          \* values of the primary metric
          LowerIsBetter,   \* mae, rmse, mape; not r2
          MinImprovement,  \* min_improvement_pct
          LogsModel,       \* whether a training run logs a model; as shipped, none does
          AutoDeploy, RequireApproval,   \* pipeline of the config
          Features, MeanErrors,          \* what the drift detector compares
          ConceptThreshold,              \* concept_drift_threshold, in percent
          MaxKills         \* bound: processes killed

ASSUME RetrainingAssumption ==
    /\ Scores \subseteq Int /\ MinImprovement \in Nat /\ MaxKills \in Nat
    /\ MaxVersions # 0
    /\ MeanErrors \subseteq Nat /\ ConceptThreshold \in Nat
    /\ {LowerIsBetter, LogsModel, AutoDeploy, RequireApproval} \subseteq BOOLEAN

VARIABLES
    phase,      \* where each pipeline is
    trained,    \* the score of the model it trained
    champion,   \* history: the version that model was compared with
    overtaken,  \* history: whether Production moved since the comparison
    score,      \* the score of each registered version
    kills

pipelineVars   == <<phase, trained, champion, overtaken>>
retrainingVars == <<registryVars, pipelineVars, score, kills>>

NoScore == 0

Enter(d, where) == phase' = [phase EXCEPT ![d] = where]

(* The call returns and its locals are gone. *)
Leave(d) ==
    /\ Enter(d, "idle")
    /\ trained' = [trained EXCEPT ![d] = NoScore]
    /\ champion' = [champion EXCEPT ![d] = Nothing]
    /\ overtaken' = [overtaken EXCEPT ![d] = FALSE]

-------------------------------------------------------------------------------

(* An operator may have moved a first version to Production by hand. *)
RetrainingInit ==
    /\ \E first \in {"unregistered", "Production"} :
          /\ stage = [v \in Version |-> IF v = 1 THEN first ELSE "unregistered"]
          /\ last = IF first = "Production" THEN 1 ELSE Nothing
    /\ at = [d \in Deployer |-> "idle"]
    /\ previous = [d \in Deployer |-> Nothing]
    /\ candidate = [d \in Deployer |-> Nothing]
    /\ rollbacks = 0 /\ outages = 0
    /\ before = [v \in Version |-> Nothing] /\ abandoned = FALSE
    /\ phase = [d \in Deployer |-> "idle"]
    /\ trained = [d \in Deployer |-> NoScore]
    /\ champion = [d \in Deployer |-> Nothing]
    /\ overtaken = [d \in Deployer |-> FALSE]
    /\ \E s \in Scores :
          score = [v \in Version |-> IF stage[v] = "Production" THEN s ELSE NoScore]
    /\ kills = 0

(* A feature drifts if it has thirty values on both sides and the test     *)
(* tells them apart; the test is data.                                     *)
DataDrift(affected) == affected # {}

(* The mean error of the model in Production on recent rows, against the   *)
(* one on reference rows.  No model, or no error there, is no drift.       *)
ConceptDrift(reference, current) ==
    /\ Production # {} /\ reference > 0
    /\ 100 * (current - reference) > ConceptThreshold * reference

DriftDetected(enough, affected, reference, current) ==
    enough /\ (DataDrift(affected) \/ ConceptDrift(reference, current))

(* run_scheduled_check: an error of it, or no drift, ends the check. *)
Check(d, enough, affected, reference, current) ==
    /\ phase[d] = "idle" /\ at[d] = "idle"
    /\ DriftDetected(enough, affected, reference, current)
    /\ Enter(d, "train")
    /\ UNCHANGED <<registryVars, trained, champion, overtaken, score, kills>>

(* trigger_retraining by hand needs no drift. *)
Trigger(d) ==
    /\ phase[d] = "idle" /\ at[d] = "idle"
    /\ Enter(d, "train")
    /\ UNCHANGED <<registryVars, trained, champion, overtaken, score, kills>>

(* _prepare_training_data and _train_model *)
Train(d, s) ==
    /\ phase[d] = "train"
    /\ trained' = [trained EXCEPT ![d] = s]
    /\ Enter(d, "compare")
    /\ UNCHANGED <<registryVars, champion, overtaken, score, kills>>

TrainFails(d) ==
    /\ phase[d] = "train"
    /\ Outage
    /\ Leave(d)
    /\ UNCHANGED <<stage, deployerVars, rollbacks, past, score, kills>>

Abs(n) == IF n < 0 THEN -n ELSE n

Gain(old, new) == IF LowerIsBetter THEN old - new ELSE new - old

(* The improvement in percent of the champion's score, at least the least. *)
ShouldPromote(old, new) ==
    Gain(old, new) > 0 /\ 100 * Gain(old, new) >= MinImprovement * Abs(old)

(* A slip a change to this code could make; the specification does not use it. *)
DeploysAnyGain(old, new) == Gain(old, new) > 0 /\ (AutoDeploy \/ ~RequireApproval)

Deploys(old, new) == ShouldPromote(old, new) /\ (AutoDeploy \/ ~RequireApproval)

(* A slip a change to this code could make; the specification does not use it. *)
CompareOrFill(d) ==
    /\ phase[d] = "compare"
    /\ LogsModel
    /\ champion' = [champion EXCEPT ![d] = Latest("Production")]
    /\ overtaken' = [overtaken EXCEPT ![d] = FALSE]
    /\ Enter(d, IF Production = {} \/ Deploys(score[Latest("Production")], trained[d])
                THEN "deploy" ELSE "log")
    /\ UNCHANGED <<registryVars, trained, score, kills>>

(* compare_models.  A score of zero divides by zero, and the pipeline ends. *)
Compare(d) ==
    /\ phase[d] = "compare"
    /\ LogsModel /\ Production # {}
    /\ LET old == score[Latest("Production")]
       IN IF old = 0 THEN Leave(d)
          ELSE /\ Enter(d, IF Deploys(old, trained[d]) THEN "deploy" ELSE "log")
               /\ champion' = [champion EXCEPT ![d] = Latest("Production")]
               /\ overtaken' = [overtaken EXCEPT ![d] = FALSE]
               /\ UNCHANGED trained
    /\ UNCHANGED <<registryVars, score, kills>>

(* A model that cannot be loaded, or a Production without one: the report  *)
(* of the error does not recommend a promotion.                            *)
CompareFails(d) ==
    /\ phase[d] = "compare"
    /\ IF LogsModel /\ Production # {} THEN Outage ELSE UNCHANGED outages
    /\ Enter(d, "log")
    /\ UNCHANGED <<stage, deployerVars, rollbacks, past, trained, champion, overtaken,
                   score, kills>>

Deploy(d, fails) ==
    /\ phase[d] = "deploy"
    /\ BeginPromotion(d, fails)
    /\ Enter(d, "promoting")
    /\ UNCHANGED <<trained, champion, overtaken, score, kills>>

(* A step of a promotion or a rollback, whose report ends it. *)
RegistryStep(d) ==
    /\ DeployerStep(d)
    /\ Enter(d, IF phase[d] = "promoting" /\ at'[d] = "idle" THEN "log" ELSE phase[d])
    /\ overtaken' = [e \in Deployer |->
                        overtaken[e] \/ (e # d /\ In("Production")' # In("Production"))]
    /\ score' = IF at[d] = "register" /\ candidate'[d] # Nothing
                THEN [score EXCEPT ![candidate'[d]] = trained[d]] ELSE score
    /\ UNCHANGED <<trained, champion, kills>>

(* _log_retraining_workflow, whose error is only logged. *)
LogWorkflow(d) ==
    /\ phase[d] = "log"
    /\ Leave(d)
    /\ UNCHANGED <<registryVars, score, kills>>

RollBack(d) ==
    /\ phase[d] = "idle"
    /\ BeginRollback(d)
    /\ UNCHANGED <<pipelineVars, score, kills>>

(* The process dies, perhaps in the middle of a promotion. *)
Kill(d) ==
    /\ phase[d] # "idle" \/ at[d] # "idle"
    /\ kills < MaxKills /\ kills' = kills + 1
    /\ Report(d) /\ Leave(d)
    /\ abandoned' = (abandoned \/ at[d] = "transition")
    /\ UNCHANGED <<stage, bounds, last, before, score>>

RetrainingNext ==
    \E d \in Deployer :
        \/ \E enough \in BOOLEAN, affected \in SUBSET Features, reference, current \in MeanErrors :
               Check(d, enough, affected, reference, current)
        \/ \E s \in Scores : Train(d, s)
        \/ \E fails \in BOOLEAN : Deploy(d, fails)
        \/ Trigger(d) \/ TrainFails(d) \/ Compare(d) \/ CompareFails(d)
        \/ RegistryStep(d) \/ LogWorkflow(d) \/ RollBack(d) \/ Kill(d)

RetrainingSpec == RetrainingInit /\ [][RetrainingNext]_retrainingVars

-------------------------------------------------------------------------------
(* Properties *)

(* Every variable has its type. *)
RetrainingTypeOK ==
    /\ RegistryTypeOK
    /\ phase \in [Deployer -> {"idle", "train", "compare", "deploy", "promoting", "log"}]
    /\ trained \in [Deployer -> Scores \cup {NoScore}]
    /\ champion \in [Deployer -> Version \cup {Nothing}]
    /\ overtaken \in [Deployer -> BOOLEAN]
    /\ score \in [Version -> Scores \cup {NoScore}]
    /\ kills \in Nat

(* Nothing is in Production, and nobody is on the way to change that. *)
Stranded ==
    /\ Production = {}
    /\ \A d \in Deployer : at[d] = "idle" /\ phase[d] # "deploy"

(* A registry without a Production version, left so by a promotion that    *)
(* failed or died half way, stays without: a rollback needs a Production   *)
(* version, and a retrained model needs one to be compared with.           *)
OutageIsPermanent == [][Stranded => Stranded']_retrainingVars

(* A promotion replaces a model by one that beat it on the test rows by    *)
(* the configured margin, unless Production moved after the comparison.    *)
PromotedBeatsChampion ==
    [][\A d \in Deployer :
          at[d] = "transition" /\ stage' # stage /\ ~overtaken[d]
              => /\ In("Production") \subseteq {champion[d]}
                 /\ ShouldPromote(score[champion[d]], score[candidate[d]])]_retrainingVars
===============================================================================
