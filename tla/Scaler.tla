-------------------------------- MODULE Scaler --------------------------------
(***************************************************************************)
(* The scaler of InferenceEngine (inference_service/models/                *)
(* inference_engine.py), through which every prediction goes: those of the *)
(* requests (InferenceApi), of the Kafka pipeline (PredictionFlow), and of *)
(* either for the model of ModelServing.                                   *)
(***************************************************************************)

CONSTANT Normalization    \* of the engine; the API makes it "standard"

(* The standard scaler is made without data, and nothing fits or loads     *)
(* one, so that its transform raises.                                      *)
Scales == Normalization # "standard"
===============================================================================
