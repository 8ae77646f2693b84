----------------------------- MODULE MCComponents -----------------------------
(***************************************************************************)
(* The components that share no state while they run, in one run: part     *)
(* says which of them takes its steps, the others stay as they start.      *)
(***************************************************************************)
EXTENDS FeatureStore, Training, ModelSelection, Retraining, DataGenerator, EngineStreamer,
        InferenceApi, PredictionFlow, SensorHealth

VARIABLE part

Part == {"store", "training", "selection", "retraining", "generator", "streamer",
         "inference", "flow", "health"}

partVars == <<storeVars, trainingVars, selectionVars, retrainingVars, generatorVars,
              streamerVars, inferenceVars, flowVars, healthVars, part>>

MCPredictions == {-1, 40, 201}

(* A feature message that is passed over and one that is predicted for. *)
MCFeatureLog == <<"empty", "complete">>

(* Only the part that moves has a choice of where it starts. *)
PartsInit ==
    /\ part \in Part
    /\ FeatureStoreInit /\ (part = "store" \/ redis)
    /\ TrainingInit /\ (part = "training" \/ \A m \in 1 .. Fleet : lifetime[m] >= WindowLength)
    /\ SelectionInit /\ (part = "selection" \/ goal = "least")
    /\ RetrainingInit /\ (part = "retraining" \/ Production = {})
    /\ GeneratorInit /\ (part = "generator" \/ (producer /\ \A m \in Equipment : rul_remaining[m] = NoMode))
    /\ StreamerInit /\ (part = "streamer" \/ (~again /\ only = All /\ \A u \in Engine : cycles[u] = 1 /\ final[u] = 0))
    /\ InferenceInit /\ (part = "inference" \/ lstm)
    /\ FlowInit /\ HealthInit

PartsNext ==
    /\ UNCHANGED part
    /\ \/ /\ part = "store" /\ FeatureStoreNext
          /\ UNCHANGED <<trainingVars, selectionVars, retrainingVars, generatorVars,
                         streamerVars, inferenceVars, flowVars, healthVars>>
       \/ /\ part = "training" /\ TrainingNext
          /\ UNCHANGED <<storeVars, selectionVars, retrainingVars, generatorVars,
                         streamerVars, inferenceVars, flowVars, healthVars>>
       \/ /\ part = "selection" /\ SelectionNext
          /\ UNCHANGED <<storeVars, trainingVars, retrainingVars, generatorVars,
                         streamerVars, inferenceVars, flowVars, healthVars>>
       \/ /\ part = "retraining" /\ RetrainingNext
          /\ UNCHANGED <<storeVars, trainingVars, selectionVars, generatorVars,
                         streamerVars, inferenceVars, flowVars, healthVars>>
       \/ /\ part = "generator" /\ GeneratorNext
          /\ UNCHANGED <<storeVars, trainingVars, selectionVars, retrainingVars,
                         streamerVars, inferenceVars, flowVars, healthVars>>
       \/ /\ part = "streamer" /\ StreamerNext
          /\ UNCHANGED <<storeVars, trainingVars, selectionVars, retrainingVars,
                         generatorVars, inferenceVars, flowVars, healthVars>>
       \/ /\ part = "inference" /\ InferenceNext
          /\ UNCHANGED <<storeVars, trainingVars, selectionVars, retrainingVars,
                         generatorVars, streamerVars, flowVars, healthVars>>
       \/ /\ part = "flow" /\ FlowNext
          /\ UNCHANGED <<storeVars, trainingVars, selectionVars, retrainingVars,
                         generatorVars, streamerVars, inferenceVars, healthVars>>
       \/ /\ part = "health" /\ HealthNext
          /\ UNCHANGED <<storeVars, trainingVars, selectionVars, retrainingVars,
                         generatorVars, streamerVars, inferenceVars, flowVars>>

(* FlowFairness when it is that part which moves; the others promise       *)
(* nothing about what must happen.                                         *)
PartsFairness ==
    /\ WF_flowVars(part = "flow" /\ Deliver)
    /\ \A s \in Service : /\ WF_flowVars(part = "flow" /\ Loop(s))
                          /\ WF_flowVars(part = "flow" /\ Stopping(s))

PartsSpec == PartsInit /\ [][PartsNext]_partVars /\ PartsFairness

(* Every variable of every part has its type. *)
ComponentsTypeOK ==
    /\ FeatureStoreTypeOK /\ TrainingTypeOK /\ SelectionTypeOK /\ RetrainingTypeOK
    /\ GeneratorTypeOK /\ StreamerTypeOK /\ InferenceTypeOK
    /\ FlowTypeOK /\ HealthTypeOK
===============================================================================
