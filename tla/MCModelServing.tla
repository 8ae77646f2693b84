---------------------------- MODULE MCModelServing ----------------------------
EXTENDS ModelServing

(* inference_config.yaml, with the keys the code loads and reads under. *)
Sequential == [config |-> "lstm_rul", local |-> "lstm", request |-> "lstm"]
Forest     == [config |-> "random_forest_health", local |-> "random_forest_health",
               request |-> "random_forest"]

(* A configuration whose key is the one requests read. *)
Aligned == [config |-> "lstm", local |-> "lstm", request |-> "lstm"]

AllLayouts     == {Sequential, Forest, Aligned}
ShippedLayouts == {Sequential, Forest}
===============================================================================
