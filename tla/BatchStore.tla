------------------------------ MODULE BatchStore ------------------------------
(***************************************************************************)
(* What one table of the batch writer promises its callers, with no        *)
(* threads, pages, connections or failures in it: a row that was handed    *)
(* over waits in "pending", and a flush moves every waiting row into the   *)
(* table exactly once.  A flush that fails is a stutter.                   *)
(*                                                                         *)
(* TimescaleWriter shows which steps of the real writer keep this promise. *)
(***************************************************************************)
EXTENDS Naturals

CONSTANT Row          \* the rows a caller can hand over

VARIABLES pending,    \* rows that were handed over and are not in the table yet
          stored      \* how many copies of each row the table holds

storeVars == <<pending, stored>>

Init == pending = {} /\ stored = [r \in Row |-> 0]

(* A caller hands over a row it never handed over before. *)
Accept(r) ==
    /\ r \notin pending
    /\ stored[r] = 0
    /\ pending' = pending \cup {r}
    /\ UNCHANGED stored

(* All the waiting rows reach the table, once each. *)
Flush ==
    /\ pending # {}
    /\ stored' = [r \in Row |-> IF r \in pending THEN stored[r] + 1 ELSE stored[r]]
    /\ pending' = {}

Next == Flush \/ \E r \in Row : Accept(r)

Spec == Init /\ [][Next]_storeVars
===============================================================================
