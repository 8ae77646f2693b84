----------------------------- MODULE ModelServing ------------------------------
(***************************************************************************)
(* ModelManager (inference_service/models/model_manager.py) over the       *)
(* registry of ModelRegistry: the models and metadata it keeps under keys, *)
(* loaded at startup, by the polling thread and by reload requests, and    *)
(* read without a lock by the request handlers and by the Kafka pipeline.  *)
(* The handlers run one at a time on the event loop, the thread "api".     *)
(*                                                                         *)
(* One configured model, whose registry name is the one being deployed.    *)
(* It is stored under its key of the configuration when it comes from      *)
(* MLflow and under LocalKey when it comes from a file (load_lstm_model    *)
(* always uses "lstm"); requests read RequestKey.  In the configuration    *)
(* that ships, the key of neither model is the one its requests read.      *)
(***************************************************************************)
EXTENDS ModelRegistry, Scaler

CONSTANTS Layouts,         \* the possible keys of the model: [config, local, request]
          MaxReloads,      \* bound: reload requests
          MaxPredictions   \* bound: predictions

ASSUME ServingAssumption ==
    /\ \A l \in Layouts : DOMAIN l = {"config", "local", "request"}
    /\ MaxReloads \in Nat /\ MaxPredictions \in Nat

LocalModel == -1            \* the model of the file; also the version of the configuration
Model      == Version \cup {LocalModel}
Thread     == {"poller", "api", "kafka"}

VARIABLES
    keys,       \* the keys of the model, from the configuration and the code
    models,     \* _models
    meta,       \* _model_metadata: version and source of each key
    started,    \* initialize has returned
    localFile,  \* the file of the local model can be loaded
    pc,         \* where each thread is
    loaded,     \* the version whose model a thread has loaded
    looked,     \* the version it then found to be the latest
    used,       \* the model a prediction runs with
    reloads, predictions,
    torn,       \* history: the registry moved during a load, or two loads overlapped
    overlap     \* history: a load wrote while the prediction of a thread ran

ConfigKey  == keys.config
LocalKey   == keys.local
RequestKey == keys.request
Key        == {ConfigKey, LocalKey, RequestKey}

settings   == <<keys, localFile>>
slotVars   == <<models, meta>>
loadVars   == <<started, loaded, looked>>
predictVars == <<used, predictions, overlap>>
vars == <<registryVars, slotVars, loadVars, predictVars, settings, pc, reloads, torn>>

Absent == [version |-> Nothing, source |-> "absent"]
Failed == [version |-> LocalModel, source |-> "failed"]

Init ==
    /\ RegistryInit
    /\ keys \in Layouts
    /\ models = [k \in Key |-> Nothing]
    /\ meta = [k \in Key |-> Absent]
    /\ started = FALSE
    /\ localFile \in BOOLEAN
    /\ pc = [t \in Thread |-> IF t = "api" THEN "load" ELSE "idle"]
    /\ loaded = [t \in Thread |-> Nothing]
    /\ looked = [t \in Thread |-> Nothing]
    /\ used = [t \in Thread |-> Nothing]
    /\ reloads = 0 /\ predictions = 0
    /\ torn = FALSE
    /\ overlap = [t \in Thread |-> FALSE]

Goto(t, where) == pc' = [pc EXCEPT ![t] = where]

(* The load, or the startup, of this thread is over. *)
Done(t) ==
    /\ Goto(t, "idle")
    /\ started' = TRUE
    /\ loaded' = [loaded EXCEPT ![t] = Nothing]
    /\ looked' = [looked EXCEPT ![t] = Nothing]

BetweenWrites(t) == pc[t] \in {"setMeta", "localMeta"}

(* A write under key k is seen by the predictions that are running. *)
Seen(k) ==
    overlap' = [t \in Thread |-> overlap[t] \/ (k = RequestKey /\ pc[t] = "predict")]

-------------------------------------------------------------------------------
(* _load_from_mlflow, called by _load_model and by the poller *)

(* A slip a change to this code could make; the specification does not use it. *)
UnloadThenLoad(t) ==
    /\ pc[t] = "load"
    /\ Production # {}
    /\ loaded' = [loaded EXCEPT ![t] = Latest("Production")]
    /\ models' = [models EXCEPT ![ConfigKey] = Nothing]
    /\ Goto(t, "lookup")
    /\ UNCHANGED <<registryVars, meta, started, looked, predictVars, settings, reloads, torn>>

LoadModel(t) ==
    /\ pc[t] = "load"
    /\ Production # {}
    /\ loaded' = [loaded EXCEPT ![t] = Latest("Production")]
    /\ Goto(t, "lookup")
    /\ UNCHANGED <<registryVars, slotVars, started, looked, predictVars, settings, reloads, torn>>

(* No Production version, or no answer: _load_model turns to the local     *)
(* file, the poller gives up until it polls again.                         *)
LoadFails(t) ==
    /\ pc[t] \in {"load", "lookup"}
    /\ \/ pc[t] = "load" /\ Production = {} /\ UNCHANGED outages
       \/ Outage
    /\ IF t = "poller" THEN Done(t) ELSE Goto(t, "local") /\ UNCHANGED loadVars
    /\ UNCHANGED <<stage, deployerVars, rollbacks, past, slotVars, predictVars, settings,
                   reloads, torn>>

Lookup(t) ==
    /\ pc[t] = "lookup"
    /\ looked' = [looked EXCEPT ![t] = Latest("Production")]
    /\ Goto(t, "setModel")
    /\ UNCHANGED <<registryVars, slotVars, started, loaded, predictVars, settings, reloads, torn>>

SetModel(t) ==
    /\ pc[t] = "setModel"
    /\ models' = [models EXCEPT ![ConfigKey] = loaded[t]]
    /\ Seen(ConfigKey)
    /\ torn' = (torn \/ \E u \in Thread \ {t} : BetweenWrites(u))
    /\ Goto(t, "setMeta")
    /\ UNCHANGED <<registryVars, meta, loadVars, used, predictions, settings, reloads>>

(* A slip a change to this code could make; the specification does not use it. *)
SetMetaOnce(t) ==
    /\ pc[t] = "setMeta"
    /\ IF meta[ConfigKey].source = "absent"
       THEN meta' = [meta EXCEPT ![ConfigKey] = [version |-> looked[t], source |-> "mlflow"]]
       ELSE UNCHANGED meta
    /\ Seen(ConfigKey)
    /\ torn' = (torn \/ looked[t] # loaded[t])
    /\ Done(t)
    /\ UNCHANGED <<registryVars, models, used, predictions, settings, reloads>>

SetMeta(t) ==
    /\ pc[t] = "setMeta"
    /\ meta' = [meta EXCEPT ![ConfigKey] = [version |-> looked[t], source |-> "mlflow"]]
    /\ Seen(ConfigKey)
    /\ torn' = (torn \/ looked[t] # loaded[t])
    /\ Done(t)
    /\ UNCHANGED <<registryVars, models, used, predictions, settings, reloads>>

-------------------------------------------------------------------------------
(* load_lstm_model, load_sklearn_model *)

LoadLocal(t) ==
    /\ pc[t] \in {"local", "reloadLocal"}
    /\ IF localFile
       THEN /\ models' = [models EXCEPT ![LocalKey] = LocalModel]
            /\ Seen(LocalKey)
            /\ torn' = (torn \/ \E u \in Thread \ {t} : BetweenWrites(u))
            /\ Goto(t, "localMeta")
            /\ UNCHANGED <<meta, loadVars>>
       ELSE /\ meta' = [k \in Key |-> IF k = LocalKey \/ (k = ConfigKey /\ pc[t] = "local")
                                      THEN Failed ELSE meta[k]]
            /\ Done(t)
            /\ UNCHANGED <<models, overlap, torn>>
    /\ UNCHANGED <<registryVars, used, predictions, settings, reloads>>

LocalMeta(t) ==
    /\ pc[t] = "localMeta"
    /\ meta' = [meta EXCEPT ![LocalKey] = [version |-> LocalModel, source |-> "local"]]
    /\ Seen(LocalKey)
    /\ Done(t)
    /\ UNCHANGED <<registryVars, models, used, predictions, settings, reloads, torn>>

-------------------------------------------------------------------------------

(* A slip a change to this code could make; the specification does not use it. *)
PollNewer ==
    /\ started
    /\ pc["poller"] = "idle"
    /\ meta[ConfigKey].source = "mlflow"
    /\ Latest("Production") > meta[ConfigKey].version
    /\ Goto("poller", "load")
    /\ UNCHANGED <<registryVars, slotVars, loadVars, predictVars, settings, reloads, torn>>

(* _check_for_new_versions: only metadata that came from MLflow has the    *)
(* registry name, without which a model is not looked at again.            *)
Poll ==
    /\ started
    /\ pc["poller"] = "idle"
    /\ meta[ConfigKey].source = "mlflow"
    /\ Latest("Production") \notin {Nothing, meta[ConfigKey].version}
    /\ Goto("poller", "load")
    /\ UNCHANGED <<registryVars, slotVars, loadVars, predictVars, settings, reloads, torn>>

(* reload_model, for a key with metadata.  A key that is not in the        *)
(* configuration is loaded again from its file.                            *)
Reload(k) ==
    /\ started
    /\ pc["api"] = "idle"
    /\ reloads < MaxReloads /\ reloads' = reloads + 1
    /\ meta[k].source # "absent"
    /\ \/ k = ConfigKey /\ Goto("api", "load")
       \/ k # ConfigKey /\ meta[k].source = "local" /\ Goto("api", "reloadLocal")
    /\ UNCHANGED <<registryVars, slotVars, loadVars, predictVars, settings, torn>>

(* A prediction takes its model; without one it is refused.  An engine     *)
(* with a standard scaler, which nothing ever fits, raises before it.      *)
Predict(t) ==
    /\ started
    /\ pc[t] = "idle"
    /\ Scales
    /\ predictions < MaxPredictions /\ predictions' = predictions + 1
    /\ models[RequestKey] # Nothing
    /\ used' = [used EXCEPT ![t] = models[RequestKey]]
    /\ overlap' = [overlap EXCEPT ![t] = \E u \in Thread : BetweenWrites(u)]
    /\ Goto(t, "predict")
    /\ UNCHANGED <<registryVars, slotVars, loadVars, settings, reloads, torn>>

(* It reports the version the metadata has by then. *)
Answer(t) ==
    /\ pc[t] = "predict"
    /\ used' = [used EXCEPT ![t] = Nothing]
    /\ overlap' = [overlap EXCEPT ![t] = FALSE]
    /\ Goto(t, "idle")
    /\ UNCHANGED <<registryVars, slotVars, loadVars, predictions, settings, reloads, torn>>

-------------------------------------------------------------------------------

Loading(t) ==
    \/ LoadModel(t) \/ LoadFails(t) \/ Lookup(t) \/ SetModel(t) \/ SetMeta(t)
    \/ LoadLocal(t) \/ LocalMeta(t)

ServingNext ==
    \/ Poll
    \/ \E t \in Thread : Loading(t) \/ Answer(t)
    \/ \E t \in {"api", "kafka"} : Predict(t)
    \/ \E k \in Key : Reload(k)

Next ==
    \/ ServingNext
    \/ /\ RegistryNext
       /\ UNCHANGED <<slotVars, loadVars, predictVars, settings, pc, reloads, torn>>

(* The poller polls every minute and the loads end, in success or failure. *)
Fairness == WF_vars(Poll) /\ \A t \in Thread : WF_vars(Loading(t) \/ Answer(t))

Spec == Init /\ [][Next]_vars
FairSpec == Spec /\ Fairness

-------------------------------------------------------------------------------
(* Properties *)

(* Every variable has its type. *)
TypeOK ==
    /\ RegistryTypeOK
    /\ keys \in Layouts
    /\ models \in [Key -> Model \cup {Nothing}]
    /\ meta \in [Key -> [version : Model \cup {Nothing},
                         source : {"absent", "mlflow", "local", "failed"}]]
    /\ started \in BOOLEAN /\ localFile \in BOOLEAN
    /\ pc \in [Thread -> {"idle", "load", "lookup", "setModel", "setMeta",
                          "local", "reloadLocal", "localMeta", "predict"}]
    /\ loaded \in [Thread -> Version \cup {Nothing}]
    /\ looked \in [Thread -> Version \cup {Nothing}]
    /\ used \in [Thread -> Model \cup {Nothing}]
    /\ \A t \in Thread : (used[t] # Nothing) = (pc[t] = "predict")
    /\ reloads \in Nat /\ predictions \in Nat
    /\ torn \in BOOLEAN /\ overlap \in [Thread -> BOOLEAN]

Named(k) == meta[k].source \in {"mlflow", "local"}

(* The metadata of a key names the model under it, between the two writes  *)
(* of a load excepted, as long as no two loads overlapped and the registry *)
(* did not move between the load of a model and the lookup of its version. *)
MetadataNamesModel ==
    ~torn /\ (\A t \in Thread : ~BetweenWrites(t)) =>
        \A k \in Key : models[k] # Nothing /\ Named(k) => meta[k].version = models[k]

(* A prediction reports the version of the model that made it, unless a    *)
(* load wrote between the two reads, or the metadata was wrong already.    *)
PredictionNamesModel ==
    [][\A t \in Thread :
          pc[t] = "predict" /\ pc'[t] = "idle" /\ ~overlap[t] /\ ~torn /\ Named(RequestKey)
              => used[t] = meta[RequestKey].version]_vars

(* "No requests are dropped" (docs/expected-behaviour.md, 10.6): once      *)
(* requests have a model they keep one, through every reload and failure.  *)
KeepsServing == [][\A k \in Key : models[k] # Nothing => models'[k] # Nothing]_vars

(* While the metadata has a registry name, the poller brings it to the     *)
(* version in Production, after whatever promotions, rollbacks, reloads    *)
(* and outages.                                                            *)
MetadataFollowsRegistry ==
    []<>(meta[ConfigKey].source = "mlflow" =>
            Latest("Production") \in {Nothing, meta[ConfigKey].version})

(* "Inference Service detects new Production model, hot-swaps within 60    *)
(* seconds." (docs/expected-behaviour.md:402): a version that stays in     *)
(* Production becomes the one requests are answered with.                  *)
PromotedModelServed ==
    \A v \in Version : Production = {v} ~> (models[RequestKey] = v \/ Production # {v})
===============================================================================
