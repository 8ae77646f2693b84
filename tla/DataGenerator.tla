---------------------------- MODULE DataGenerator -----------------------------
(***************************************************************************)
(* The data generator (data_generator/): in every round each simulated     *)
(* machine that has not failed makes one reading and hands it to a Kafka   *)
(* producer, which sends it in the background.  A machine with a failure   *)
(* mode counts its remaining life down and stops when it is used up.       *)
(***************************************************************************)
EXTENDS Integers, Sequences

CONSTANTS Simulated,          \* number of machines
          TotalRuls,          \* lives a failure mode may give
          MaxRounds,          \* bound, and max_cycles
          MaxPublishFaults    \* bound: sends refused, delayed, lost or repeated

ASSUME GeneratorAssumption ==
    /\ Simulated \in Nat /\ TotalRuls \subseteq Nat \ {0}
    /\ MaxRounds \in Nat \ {0} /\ MaxPublishFaults \in Nat

Equipment == 1 .. Simulated
NoMode    == -1     \* no failure was injected
Life      == {NoMode} \cup UNION {0 .. r : r \in TotalRuls}

VARIABLES
    current_cycle, rul_remaining, is_failed,   \* of each machine
    total,        \* its life when the failure was injected
    sent,         \* the readings of each machine the producer accepted
    producer,     \* whether the producer could be made
    pending,      \* its buffer
    topic,        \* raw_sensor_data
    generating,   \* "loop", "round", "closing" or "closed"
    todo,         \* the machines the round has still to visit
    rounds, signalled, publishFaults

machineVars   == <<current_cycle, rul_remaining, is_failed, total, sent>>
kafkaVars     == <<producer, pending, topic>>
generatorVars == <<machineVars, kafkaVars, generating, todo, rounds, signalled, publishFaults>>

PublishFault == publishFaults < MaxPublishFaults /\ publishFaults' = publishFaults + 1

-------------------------------------------------------------------------------
(* degradation_engine.py *)

(* A slip a change to this code could make; the specification does not use it. *)
FailedBelowZero(rul) == rul # NoMode /\ rul < 0

IsFailed(rul) == rul # NoMode /\ rul <= 0

UpdateRul(rul) == IF rul = NoMode THEN NoMode ELSE IF rul > 0 THEN rul - 1 ELSE 0

(* get_degradation_stage; "healthy" without a failure mode. *)
Stage(rul, of) ==
    CASE rul = NoMode                                   -> "healthy"
      [] rul # NoMode /\ 10 * rul > 7 * of               -> "early"
      [] rul # NoMode /\ 3 * of < 10 * rul /\ 10 * rul <= 7 * of -> "middle"
      [] rul # NoMode /\ of < 10 * rul /\ 10 * rul <= 3 * of     -> "late"
      [] OTHER                                           -> "critical"

-------------------------------------------------------------------------------

(* create_equipment_fleet: a failure is injected into some of the machines *)
(* before their first cycle, and only once.                                *)
GeneratorInit ==
    /\ rul_remaining \in [Equipment -> {NoMode} \cup TotalRuls]
    /\ total = rul_remaining
    /\ current_cycle = [m \in Equipment |-> 0]
    /\ is_failed = [m \in Equipment |-> FALSE]
    /\ sent = [m \in Equipment |-> <<>>]
    /\ producer \in BOOLEAN
    /\ pending = <<>> /\ topic = <<>>
    /\ generating = "loop" /\ todo = {} /\ rounds = 0
    /\ signalled = FALSE /\ publishFaults = 0

(* run: the handler of a signal only sets a flag, read between rounds. *)
Signal ==
    /\ ~signalled /\ generating # "closed"
    /\ signalled' = TRUE
    /\ UNCHANGED <<machineVars, kafkaVars, generating, todo, rounds, publishFaults>>

Active == {m \in Equipment : ~is_failed[m]}

BeginRound ==
    /\ generating = "loop"
    /\ IF signalled \/ Active = {}
       THEN generating' = "closing" /\ UNCHANGED todo
       ELSE generating' = "round" /\ todo' = Active
    /\ UNCHANGED <<machineVars, kafkaVars, rounds, signalled, publishFaults>>

(* generate_and_publish, machine by machine in their order.  The life is   *)
(* counted down before the reading is published; its number, and whether   *)
(* it is made again, depend on that.                                       *)
GenerateAndPublish(m, accepted) ==
    /\ generating = "round" /\ m \in todo /\ \A n \in todo : m <= n
    /\ accepted => producer
    /\ IF accepted \/ ~producer THEN UNCHANGED publishFaults ELSE PublishFault
    /\ LET rul == UpdateRul(rul_remaining[m])
           reading == [machine |-> m, cycle |-> current_cycle[m], rul |-> rul,
                       stage |-> Stage(rul, total[m])]
       IN /\ rul_remaining' = [rul_remaining EXCEPT ![m] = rul]
          /\ is_failed' = [is_failed EXCEPT ![m] = IsFailed(rul)]
          /\ IF accepted
             THEN /\ sent' = [sent EXCEPT ![m] = Append(@, reading)]
                  /\ pending' = Append(pending, reading)
                  /\ current_cycle' = [current_cycle EXCEPT ![m] = @ + 1]
             ELSE UNCHANGED <<sent, pending, current_cycle>>
    /\ todo' = todo \ {m}
    /\ UNCHANGED <<total, producer, topic, generating, rounds, signalled>>

EndRound ==
    /\ generating = "round" /\ todo = {}
    /\ rounds' = rounds + 1
    /\ generating' = IF rounds' >= MaxRounds THEN "closing" ELSE "loop"
    /\ UNCHANGED <<machineVars, kafkaVars, todo, signalled, publishFaults>>

(* The producer's thread: a reading is delivered; or it is delivered and   *)
(* sent again, since the answer was lost; or its retry falls behind the    *)
(* ones in flight; or its retries are used up.  The caller learns nothing. *)
Send(outcome) ==
    /\ pending # <<>>
    /\ IF outcome = "delivered" THEN UNCHANGED publishFaults ELSE PublishFault
    /\ topic' = IF outcome \in {"delivered", "repeated"} THEN Append(topic, Head(pending)) ELSE topic
    /\ pending' = CASE outcome \in {"delivered", "lost"} -> Tail(pending)
                    [] outcome = "delayed" -> Append(Tail(pending), Head(pending))
                    [] OTHER -> pending
    /\ UNCHANGED <<machineVars, producer, generating, todo, rounds, signalled>>

(* _shutdown: flush waits until nothing is pending. *)
Close ==
    /\ generating = "closing" /\ pending = <<>>
    /\ generating' = "closed"
    /\ UNCHANGED <<machineVars, kafkaVars, todo, rounds, signalled, publishFaults>>

GeneratorNext ==
    \/ Signal \/ BeginRound \/ EndRound \/ Close
    \/ \E m \in Equipment, accepted \in BOOLEAN : GenerateAndPublish(m, accepted)
    \/ \E outcome \in {"delivered", "repeated", "delayed", "lost"} : Send(outcome)

GeneratorSpec == GeneratorInit /\ [][GeneratorNext]_generatorVars

-------------------------------------------------------------------------------
(* Properties *)

(* Every variable has its type. *)
GeneratorTypeOK ==
    /\ current_cycle \in [Equipment -> Nat] /\ rul_remaining \in [Equipment -> Life]
    /\ is_failed \in [Equipment -> BOOLEAN] /\ total \in [Equipment -> Life]
    /\ \A m \in Equipment : \A i \in DOMAIN sent[m] :
          sent[m][i].machine = m /\ sent[m][i].cycle = i - 1 /\ sent[m][i].rul \in Life
    /\ producer \in BOOLEAN /\ signalled \in BOOLEAN
    /\ generating \in {"loop", "round", "closing", "closed"}
    /\ todo \subseteq Equipment
    /\ rounds \in Nat /\ publishFaults \in Nat

(* The remaining life in a reading bounds the readings of its machine that *)
(* follow, also when sends were refused while the life went on counting;   *)
(* the last reading of a machine need not be the one that says 0.          *)
LabelBoundsReadings ==
    \A m \in Equipment : \A i \in DOMAIN sent[m] :
        sent[m][i].rul # NoMode => Len(sent[m]) - i <= sent[m][i].rul
===============================================================================
