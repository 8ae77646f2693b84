----------------------------- MODULE ModelRegistry -----------------------------
(***************************************************************************)
(* DeploymentManager (ml_pipeline/retrain/deployment_manager.py) over the  *)
(* MLflow registry of one model: promotion registers a version, archives   *)
(* the Production one and moves the new one in; rollback moves the latest  *)
(* archived version back.  Several deployers (processes that retrain, an   *)
(* operator) may work at once; each call to the registry is a step, and    *)
(* may fail before or after it took effect.                                *)
(***************************************************************************)
EXTENDS Integers, FiniteSets

CONSTANTS Deployer,
          MaxVersions,   \* bound: versions registered
          MaxRollbacks,  \* bound: rollbacks begun
          MaxOutages     \* bound: failed calls to the registry

ASSUME RegistryAssumption ==
    /\ IsFiniteSet(Deployer)
    /\ MaxVersions \in Nat /\ MaxRollbacks \in Nat /\ MaxOutages \in Nat

Version == 1 .. MaxVersions
Nothing == 0

VARIABLES
    stage,       \* the stage of each version in the registry
    at,          \* where each deployer is
    previous,    \* previous_version of its promotion
    candidate,   \* the version it promotes or restores
    rollbacks, outages,
    last,        \* history: the version that became Production last
    before,      \* history: the Production version each one replaced
    abandoned    \* history: a promotion failed after it had archived

deployerVars == <<at, previous, candidate>>
bounds       == <<rollbacks, outages>>
past         == <<last, before, abandoned>>
registryVars == <<stage, deployerVars, bounds, past>>

RegistryInit ==
    /\ stage = [v \in Version |-> "unregistered"]
    /\ at = [d \in Deployer |-> "idle"]
    /\ previous = [d \in Deployer |-> Nothing]
    /\ candidate = [d \in Deployer |-> Nothing]
    /\ rollbacks = 0 /\ outages = 0
    /\ last = Nothing
    /\ before = [v \in Version |-> Nothing]
    /\ abandoned = FALSE

In(s)      == {v \in Version : stage[v] = s}
Production == In("Production")

(* get_latest_versions: the highest version of the stage. *)
Latest(s) == IF In(s) = {} THEN Nothing
             ELSE CHOOSE v \in In(s) : \A u \in In(s) : u <= v

Outage == outages < MaxOutages /\ outages' = outages + 1

Move(d, where) == at' = [at EXCEPT ![d] = where]

(* The report is made and the locals are gone. *)
Report(d) ==
    /\ Move(d, "idle")
    /\ previous' = [previous EXCEPT ![d] = Nothing]
    /\ candidate' = [candidate EXCEPT ![d] = Nothing]

-------------------------------------------------------------------------------
(* promote_to_production *)

(* A registry that does not answer counts as one without a Production version. *)
BeginPromotion(d, fails) ==
    /\ at[d] = "idle"
    /\ Cardinality({u \in Deployer : at[u] = "register"}) < Cardinality(In("unregistered"))
    /\ IF fails THEN Outage ELSE UNCHANGED outages
    /\ previous' = [previous EXCEPT ![d] = IF fails THEN Nothing ELSE Latest("Production")]
    /\ Move(d, "register")
    /\ UNCHANGED <<stage, candidate, rollbacks, past>>

NextVersion == CHOOSE v \in In("unregistered") : \A u \in In("unregistered") : v <= u

(* A registration that is reported as failed is looked up by its run: the  *)
(* version is found if it took effect, or the training had registered it.  *)
Register(d) ==
    /\ at[d] = "register"
    /\ stage' = [stage EXCEPT ![NextVersion] = "None"]
    /\ candidate' = [candidate EXCEPT ![d] = NextVersion]
    /\ Move(d, IF previous[d] = Nothing THEN "transition" ELSE "archive")
    /\ UNCHANGED outages \/ Outage
    /\ UNCHANGED <<previous, rollbacks, past>>

(* The lookup finds none. *)
RegisterFails(d) ==
    /\ at[d] = "register"
    /\ Outage
    /\ Report(d)
    /\ UNCHANGED <<stage, rollbacks, past>>

(* A slip a change to this code could make; the specification does not use it. *)
ArchiveFailureAborts(d, applied) ==
    /\ at[d] = "archive"
    /\ (applied /\ UNCHANGED outages) \/ Outage
    /\ stage' = IF applied THEN [stage EXCEPT ![previous[d]] = "Archived"] ELSE stage
    /\ IF outages' = outages
       THEN Move(d, "transition") /\ UNCHANGED <<previous, candidate>>
       ELSE Report(d)
    /\ UNCHANGED <<rollbacks, past>>

(* _archive_version: its failure is only logged. *)
Archive(d, applied) ==
    /\ at[d] = "archive"
    /\ (applied /\ UNCHANGED outages) \/ Outage
    /\ stage' = IF applied THEN [stage EXCEPT ![previous[d]] = "Archived"] ELSE stage
    /\ Move(d, "transition")
    /\ UNCHANGED <<previous, candidate, rollbacks, past>>

-------------------------------------------------------------------------------
(* transition_model_version_stage *)

(* A slip a change to this code could make; the specification does not use it. *)
TransitionBeside(v) == [stage EXCEPT ![v] = "Production"]

(* archive_existing_versions=True: MLflow does it in one transaction. *)
TransitionTo(v) ==
    [u \in Version |-> IF u = v THEN "Production"
                       ELSE IF stage[u] = "Production" THEN "Archived" ELSE stage[u]]

(* The last step of a promotion and of a rollback. *)
Transition(d) ==
    /\ at[d] \in {"transition", "restore"}
    /\ stage' = TransitionTo(candidate[d])
    /\ last' = candidate[d]
    /\ before' = IF last = candidate[d] THEN before
                 ELSE [before EXCEPT ![candidate[d]] = last]
    /\ Report(d)
    /\ UNCHANGED outages \/ Outage
    /\ UNCHANGED <<rollbacks, abandoned>>

TransitionFails(d) ==
    /\ at[d] \in {"transition", "restore"}
    /\ Outage
    /\ abandoned' = (abandoned \/ at[d] = "transition")
    /\ Report(d)
    /\ UNCHANGED <<stage, rollbacks, last, before>>

-------------------------------------------------------------------------------
(* rollback_to_previous *)

(* Without a Production version there is nothing to roll back from. *)
BeginRollback(d) ==
    /\ at[d] = "idle"
    /\ rollbacks < MaxRollbacks /\ rollbacks' = rollbacks + 1
    /\ Production # {}
    /\ Move(d, "pick")
    /\ UNCHANGED <<stage, previous, candidate, outages, past>>

(* A slip a change to this code could make; the specification does not use it. *)
PickAny(d) ==
    /\ at[d] = "pick"
    /\ candidate' = [candidate EXCEPT ![d] = Latest("Archived")]
    /\ Move(d, "restore")
    /\ UNCHANGED <<stage, previous, rollbacks, outages, past>>

PickArchived(d) ==
    /\ at[d] = "pick"
    /\ IF Latest("Archived") = Nothing
       THEN Report(d)
       ELSE /\ candidate' = [candidate EXCEPT ![d] = Latest("Archived")]
            /\ Move(d, "restore")
            /\ UNCHANGED previous
    /\ UNCHANGED <<stage, rollbacks, outages, past>>

PickFails(d) ==
    /\ at[d] = "pick"
    /\ Outage
    /\ Report(d)
    /\ UNCHANGED <<stage, rollbacks, past>>

-------------------------------------------------------------------------------

DeployerStep(d) ==
    \/ Register(d) \/ RegisterFails(d)
    \/ \E applied \in BOOLEAN : Archive(d, applied)
    \/ Transition(d) \/ TransitionFails(d)
    \/ PickArchived(d) \/ PickFails(d)

RegistryNext ==
    \E d \in Deployer :
        \/ \E fails \in BOOLEAN : BeginPromotion(d, fails)
        \/ BeginRollback(d)
        \/ DeployerStep(d)

RegistrySpec == RegistryInit /\ [][RegistryNext]_registryVars

-------------------------------------------------------------------------------
(* Properties *)

RegistryTypeOK ==
    /\ stage \in [Version -> {"unregistered", "None", "Production", "Archived"}]
    /\ at \in [Deployer -> {"idle", "register", "archive", "transition", "pick", "restore"}]
    /\ previous \in [Deployer -> Version \cup {Nothing}]
    /\ candidate \in [Deployer -> Version \cup {Nothing}]
    /\ \A d \in Deployer : /\ at[d] \in {"archive", "transition", "restore"} => candidate[d] # Nothing
                           /\ at[d] = "archive" => previous[d] # Nothing
    /\ rollbacks \in Nat /\ outages \in Nat
    /\ last \in Version \cup {Nothing}
    /\ before \in [Version -> Version \cup {Nothing}]
    /\ abandoned \in BOOLEAN

(* However promotions and rollbacks interleave and fail, at most one       *)
(* version is in Production.                                               *)
OneProduction == Cardinality(Production) <= 1

(* Once a version has been in Production there is always one, but for the  *)
(* time between the two registry calls of a promotion, or after a          *)
(* promotion that failed between them.                                     *)
GapNeedsPromotion ==
    last # Nothing /\ Production = {} =>
        abandoned \/ \E d \in Deployer : at[d] = "transition"

(* "Previous Production model is restored from MLflow archive."            *)
(* (docs/expected-behaviour.md:410): a rollback restores the version that  *)
(* the current one replaced.                                               *)
RollbackRestoresPrevious ==
    [][\A d \in Deployer :
          at[d] = "restore" /\ at'[d] = "idle" /\ stage' # stage /\ last \in Production
              => last' = before[last]]_registryVars
===============================================================================
