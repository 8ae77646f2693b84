---------------------------- MODULE MCAlertEngine ----------------------------
EXTENDS AlertEngine

(* Two rules of the configuration, the less severe one first. *)
TwoSeverities == <<"warning", "critical">>
TwoCooldowns  == <<1, 2>>

OneSeverity == <<"critical">>
OneCooldown == <<2>>
==============================================================================
