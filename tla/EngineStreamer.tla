---------------------------- MODULE EngineStreamer ----------------------------
(***************************************************************************)
(* CMAPSSKafkaStreamer (data_loader/): it replays the recorded cycles of   *)
(* all engines, or of one, to Kafka, cycle after cycle, and waits for each *)
(* send to be confirmed; with loop it starts again.  A reading is stamped  *)
(* with the time its cycle is due, not with the time it is sent.  No       *)
(* caller gives a start_time: it is now, and now does not go back.         *)
(*                                                                         *)
(* Time counts in units of one cycle (1 / rate).                           *)
(***************************************************************************)
EXTENDS Integers, Sequences, FiniteSets, SequencesExt

CONSTANTS Engine,              \* unit_id of the engines, numbers
          MaxEngineCycle,      \* bound: cycles of one engine
          FinalRuls,           \* values of the RUL file
          MaxPasses,           \* bound: passes over the data
          MaxSlow,             \* bound: sends that take a unit of time
          MaxSendFaults        \* bound: sends refused, or confirmed too late

ASSUME StreamerAssumption ==
    /\ Engine \subseteq Nat \ {0} /\ IsFiniteSet(Engine) /\ Engine # {}
    /\ MaxEngineCycle \in Nat \ {0} /\ FinalRuls \subseteq Nat
    /\ MaxPasses \in Nat /\ MaxSlow \in Nat /\ MaxSendFaults \in Nat

VARIABLES
    cycles,      \* recorded cycles of each engine
    final,       \* its remaining life at the last of them: 0 in training data
    only,        \* the engine of stream_single_engine, or All
    again,       \* the argument loop of stream_all_engines
    streaming,   \* "cycle", "sleep" or "closed"
    pass, cycle,
    engines,     \* the engines of this cycle still to send
    start_time,  \* start of the stamps of this pass
    begun,       \* time this pass began
    clock,
    late,        \* readings whose confirmation was given up, still in the producer
    arrived,     \* the readings in the topic
    slow, sendFaults

dataVars     == <<cycles, final, only, again>>
timeVars     == <<start_time, begun>>
streamerVars == <<dataVars, streaming, pass, cycle, engines, timeVars, clock,
                  late, arrived, slow, sendFaults>>

All == 0

SendFault == sendFaults < MaxSendFaults /\ sendFaults' = sendFaults + 1

MaxOf(S) == CHOOSE n \in S : \A k \in S : k <= n

-------------------------------------------------------------------------------

(* load_train_data and load_test_data: max_cycle - current_cycle, plus the *)
(* value the RUL file gives the engine.                                    *)
RulOf(u, c) == final[u] + cycles[u] - c

Streamed       == IF only = All THEN Engine ELSE {only}
LastCycle      == MaxOf({cycles[u] : u \in Streamed})
RecordedAt(c)  == {u \in Streamed : c <= cycles[u]}

StreamerInit ==
    /\ cycles \in [Engine -> 1 .. MaxEngineCycle]
    /\ final \in [Engine -> {0}] \cup [Engine -> FinalRuls]
    /\ only \in {All} \cup Engine
    /\ again \in BOOLEAN /\ (again => only = All)
    /\ streaming = "cycle" /\ pass = 1 /\ cycle = 1
    /\ engines = RecordedAt(1)
    /\ clock = 0 /\ start_time = 0 /\ begun = 0
    /\ late = {} /\ arrived = <<>>
    /\ slow = 0 /\ sendFaults = 0

(* The rows of a single engine are stamped from zero. *)
Stamp == start_time + (IF only = All THEN cycle ELSE cycle - 1)

(* _create_message *)
Message(u) == [unit |-> u, cycle |-> cycle, pass |-> pass, rul |-> RulOf(u, cycle),
               stamp |-> Stamp]

(* One row is sent and waited for, engine by engine in their order.  A     *)
(* KafkaError, also the one of a send that is only slow, is logged and the *)
(* next row follows.                                                       *)
SendRow(u, outcome, takes) ==
    /\ streaming = "cycle" /\ u \in engines /\ \A v \in engines : u <= v
    /\ IF outcome = "confirmed" THEN UNCHANGED sendFaults ELSE SendFault
    /\ slow' = slow + takes /\ slow' <= MaxSlow /\ clock' = clock + takes
    /\ arrived' = IF outcome = "confirmed" THEN Append(arrived, Message(u)) ELSE arrived
    /\ late' = IF outcome = "late" THEN late \cup {Message(u)} ELSE late
    /\ engines' = engines \ {u}
    /\ UNCHANGED <<dataVars, streaming, pass, cycle, timeVars>>

(* The producer retries on its own, beside later sends. *)
ArrivesLate(message) ==
    /\ message \in late
    /\ late' = late \ {message} /\ arrived' = Append(arrived, message)
    /\ UNCHANGED <<dataVars, streaming, pass, cycle, engines, timeVars, clock, slow, sendFaults>>

(* The rest of the time until the cycle is over is slept; after a row of a *)
(* single engine, a whole unit.                                            *)
Pace ==
    /\ streaming = "cycle" /\ engines = {}
    /\ clock' = IF only = All THEN MaxOf({clock, begun + cycle}) ELSE clock + 1
    /\ IF cycle < LastCycle
       THEN cycle' = cycle + 1 /\ engines' = RecordedAt(cycle + 1) /\ UNCHANGED streaming
       ELSE streaming' = "sleep" /\ UNCHANGED <<cycle, engines>>
    /\ UNCHANGED <<dataVars, pass, timeVars, late, arrived, slow, sendFaults>>

(* A slip a change to this code could make; the specification does not use it. *)
RestartKeepsStart ==
    /\ streaming = "sleep" /\ again
    /\ pass < MaxPasses /\ pass' = pass + 1
    /\ begun' = clock
    /\ cycle' = 1 /\ engines' = RecordedAt(1) /\ streaming' = "cycle"
    /\ UNCHANGED <<dataVars, start_time, clock, late, arrived, slow, sendFaults>>

(* start_time = datetime.now() before the next pass. *)
Restart ==
    /\ streaming = "sleep" /\ again
    /\ pass < MaxPasses /\ pass' = pass + 1
    /\ start_time' = clock /\ begun' = clock
    /\ cycle' = 1 /\ engines' = RecordedAt(1) /\ streaming' = "cycle"
    /\ UNCHANGED <<dataVars, clock, late, arrived, slow, sendFaults>>

(* finally: close, after the last pass, an interrupt or another error. It  *)
(* waits for what the producer still holds.                                *)
CloseStream ==
    /\ streaming # "closed" /\ late = {}
    /\ streaming' = "closed"
    /\ UNCHANGED <<dataVars, pass, cycle, engines, timeVars, clock, late, arrived,
                   slow, sendFaults>>

StreamerNext ==
    \/ \E u \in Engine, outcome \in {"confirmed", "late", "refused"}, takes \in 0 .. 1 :
           SendRow(u, outcome, takes)
    \/ \E message \in late : ArrivesLate(message)
    \/ Pace \/ Restart \/ CloseStream

StreamerSpec == StreamerInit /\ [][StreamerNext]_streamerVars

-------------------------------------------------------------------------------
(* Properties *)

(* Every variable has its type. *)
StreamerTypeOK ==
    /\ cycles \in [Engine -> 1 .. MaxEngineCycle] /\ final \in [Engine -> Nat]
    /\ only \in {All} \cup Engine /\ again \in BOOLEAN /\ streaming \in {"cycle", "sleep", "closed"}
    /\ pass \in Nat /\ cycle \in 1 .. MaxEngineCycle
    /\ engines \subseteq Engine
    /\ start_time \in Nat /\ begun \in Nat /\ clock \in Nat
    /\ slow \in Nat /\ sendFaults \in Nat

(* Two readings of an engine never share a stamp, which with the engine is *)
(* the key of the tables downstream, and a later reading of one pass has   *)
(* the later stamp and the smaller remaining life.                         *)
StampsTellReadingsApart ==
    LET known == ToSet(arrived) \cup late
    IN \A x, y \in known : x.unit = y.unit /\ x # y =>
          /\ x.stamp # y.stamp
          /\ x.pass = y.pass => (x.stamp < y.stamp <=> x.rul > y.rul)
===============================================================================
