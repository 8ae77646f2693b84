-------------------------- MODULE MCStreamProcessor --------------------------
EXTENDS StreamProcessor, TLC

WorkerSymmetry == Permutations(Workers)

(* Two rows for one table and one for the other. *)
MixedLog == <<"reading", "featureless">>

(* A message that is rejected, one that is stored and one the client       *)
(* cannot deserialize, which ends the loop of the consumer.                *)
ShortLog == <<"incomplete", "reading", "garbled">>

(* A topic of complete readings. *)
PlainLog == <<"reading", "reading", "reading">>
===============================================================================
