-------------------------------- MODULE Labels --------------------------------
(***************************************************************************)
(* The labels of a reading (feature_store/features/label_generator.py):    *)
(* its remaining useful life, whether a failure is near, and the class of  *)
(* health a forest is trained on.                                          *)
(***************************************************************************)
EXTENDS Integers

CONSTANTS MaxRul, EarlyLifeRul, FailureWindow   \* label_generation of the config

ASSUME LabelsAssumption ==
    MaxRul \in Nat \ {0} /\ EarlyLifeRul \in Nat /\ FailureWindow \in Nat

Lower(a, b) == IF a <= b THEN a ELSE b

(* A slip a change to this code could make; the specification does not use it. *)
RulClipped(remaining) == Lower(remaining, MaxRul)

(* max_cycle - current_cycle, flat in early life and clipped. *)
RulLabel(remaining) == Lower(Lower(remaining, EarlyLifeRul), MaxRul)

FailureImminent(rul) == rul <= FailureWindow

(* The categories of the configuration, each without its upper end. *)
HealthStatus(rul) ==
    CASE 100 * rul < 20 * MaxRul -> "imminent_failure"
      [] 20 * MaxRul <= 100 * rul /\ 100 * rul < 50 * MaxRul -> "critical"
      [] 50 * MaxRul <= 100 * rul /\ 100 * rul < 80 * MaxRul -> "warning"
      [] 80 * MaxRul <= 100 * rul /\ rul < MaxRul -> "healthy"
      [] OTHER -> "unknown"
===============================================================================
