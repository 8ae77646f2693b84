---------------------------- MODULE PredictionFlow ----------------------------
(***************************************************************************)
(* The two consumers behind the feature topic: KafkaPredictionPipeline     *)
(* (inference_service/consumer/__init__.py) turns a feature message into a *)
(* prediction that it publishes and stores, and KafkaAlertConsumer         *)
(* (alerting/consumer/__init__.py) evaluates the published predictions.    *)
(*                                                                         *)
(* Both run the same loop in a daemon thread: poll a batch, handle every   *)
(* message of it.  Offsets are committed by the Kafka client: in a poll,   *)
(* up to what earlier polls returned, and when the consumer is closed, up  *)
(* to what the last poll returned.  A group without a committed offset     *)
(* starts at the end of its topic.                                         *)
(***************************************************************************)
EXTENDS Scaler, Integers, Sequences, FiniteSets, SequencesExt

CONSTANTS FeatureLog,    \* the feature messages in the order they arrive
          MaxBatch,      \* messages one poll returns at most
          MaxCrashes,    \* bound: crashes
          MaxShutdowns,  \* bound: shutdowns
          MaxFaults      \* bound: failed calls to Kafka or to the database

ASSUME FlowAssumption ==
    /\ FeatureLog \in Seq({"complete", "empty"})
    /\ MaxBatch \in Nat \ {0}
    /\ MaxCrashes \in Nat /\ MaxShutdowns \in Nat /\ MaxFaults \in Nat

Service  == {"inference", "alerts"}
NoOffset == -1
Input    == 0 .. Len(FeatureLog) - 1     \* the offsets of the feature messages

VARIABLES
    fed,         \* how many messages the feature topic holds
    predicted,   \* failure_predictions: the feature message of each prediction
    outbox,      \* predictions the producer was given and has not delivered
    stored,      \* rows of each feature message in the predictions table
    committed,   \* the committed offset of each consumer group
    position,    \* the offset after the last message a poll returned
    next,        \* the offset of the next message of the batch
    place,       \* where the loop of each service is
    closing,     \* where its shutdown is
    clients,     \* what the pipeline could connect to beside its consumer
    crashes, shutdowns, faults,
    handled,     \* history: offsets each service has handled
    cut,         \* history: a consumer was closed in the middle of a batch
    fromEnd      \* history: a service started at the end of its topic

topicVars  == <<fed, predicted, outbox, stored>>
offsetVars == <<committed, position, next>>
budget     == <<crashes, shutdowns, faults>>
flowPast   == <<handled, cut, fromEnd>>
flowVars   == <<topicVars, offsetVars, place, closing, clients, budget, flowPast>>

FlowInit ==
    /\ fed = 0 /\ predicted = <<>> /\ outbox = <<>>
    /\ stored = [o \in Input |-> 0]
    /\ committed = [s \in Service |-> NoOffset]
    /\ position = [s \in Service |-> 0]
    /\ next = [s \in Service |-> 0]
    /\ place = [s \in Service |-> "connect"]
    /\ closing = [s \in Service |-> "no"]
    /\ clients = {}
    /\ crashes = 0 /\ shutdowns = 0 /\ faults = 0
    /\ handled = [s \in Service |-> {}]
    /\ cut = [s \in Service |-> FALSE]
    /\ fromEnd = [s \in Service |-> FALSE]

End(s)   == IF s = "inference" THEN fed ELSE Len(predicted)
Fault    == faults < MaxFaults /\ faults' = faults + 1
To(s, p) == place' = [place EXCEPT ![s] = p]
Open(s)  == closing[s] = "no"
Up(s)    == place[s] # "down"

ClientsOpen == closing["inference"] # "leave"

FeatureArrives ==
    /\ fed < Len(FeatureLog)
    /\ fed' = fed + 1
    /\ UNCHANGED <<predicted, outbox, stored, offsetVars, place, closing, clients, budget,
                   flowPast>>

-------------------------------------------------------------------------------
(* _run of the pipeline, start of the alert consumer *)

(* The consumer is tried again every five seconds until it connects.  The  *)
(* producer and the pool of the pipeline are tried once, when it starts.   *)
Connect(s) ==
    /\ place[s] = "connect"
    /\ LET from == IF committed[s] = NoOffset THEN End(s) ELSE committed[s]
       IN /\ position' = [position EXCEPT ![s] = from]
          /\ next' = [next EXCEPT ![s] = from]
          /\ fromEnd' = [fromEnd EXCEPT ![s] = @ \/ (committed[s] = NoOffset /\ from # 0)]
    /\ \/ s = "inference" /\ clients' = {"producer", "pool"} /\ UNCHANGED faults
       \/ s = "inference" /\ clients' \in {{}, {"producer"}, {"pool"}} /\ Fault
       \/ s = "alerts" /\ UNCHANGED <<clients, faults>>
    /\ To(s, "poll")
    /\ UNCHANGED <<topicVars, committed, closing, crashes, shutdowns, handled, cut>>

(* A slip a change to this code could make; the specification does not use it. *)
PollCommittingBatch(s, n) ==
    /\ place[s] = "poll" /\ Open(s)
    /\ n \in 1 .. MaxBatch /\ position[s] + n <= End(s)
    /\ position' = [position EXCEPT ![s] = @ + n]
    /\ committed' = [committed EXCEPT ![s] = position[s] + n]
    /\ To(s, "handle")
    /\ UNCHANGED <<topicVars, next, closing, budget, flowPast, clients>>

(* A poll commits when the commit interval is over. *)
PollBatch(s, n) ==
    /\ place[s] = "poll" /\ Open(s)
    /\ n \in 1 .. MaxBatch /\ position[s] + n <= End(s)
    /\ position' = [position EXCEPT ![s] = @ + n]
    /\ \/ UNCHANGED committed
       \/ committed' = [committed EXCEPT ![s] = position[s]]
    /\ To(s, "handle")
    /\ UNCHANGED <<topicVars, next, closing, budget, flowPast, clients>>

(* A poll that returns nothing may commit as well. *)
PollNothing(s) ==
    /\ place[s] = "poll" /\ Open(s)
    /\ committed' = [committed EXCEPT ![s] = position[s]]
    /\ UNCHANGED <<topicVars, position, next, place, closing, budget, flowPast, clients>>

(* The loop tests the flag between batches, never within one. *)
Exit(s) ==
    /\ place[s] = "poll" /\ ~Open(s)
    /\ To(s, "exited")
    /\ UNCHANGED <<topicVars, offsetVars, closing, budget, flowPast, clients>>

(* The message is done with; the batch may be. *)
Advance(s) ==
    /\ next' = [next EXCEPT ![s] = @ + 1]
    /\ handled' = [handled EXCEPT ![s] = @ \cup {next[s]}]
    /\ To(s, IF next[s] + 1 = position[s] THEN "poll" ELSE "handle")

-------------------------------------------------------------------------------
(* _handle_message of the pipeline *)

(* A slip a change to this code could make; the specification does not use it. *)
PassOverEnds ==
    /\ place["inference"] = "handle"
    /\ ((FeatureLog[next["inference"] + 1] = "empty" \/ ~Scales) /\ UNCHANGED faults) \/ Fault
    /\ next' = [next EXCEPT !["inference"] = @ + 1]
    /\ handled' = [handled EXCEPT !["inference"] = @ \cup {next["inference"]}]
    /\ To("inference", "exited")
    /\ UNCHANGED <<topicVars, committed, position, closing, crashes, shutdowns, cut,
                   fromEnd, clients>>

(* A message without features, or one that no model can predict for (no    *)
(* model is loaded, or the prediction raises), is passed over.             *)
PassOver ==
    /\ place["inference"] = "handle"
    /\ ((FeatureLog[next["inference"] + 1] = "empty" \/ ~Scales) /\ UNCHANGED faults) \/ Fault
    /\ Advance("inference")
    /\ UNCHANGED <<topicVars, committed, position, closing, crashes, shutdowns, cut,
                   fromEnd, clients>>

Predict ==
    /\ place["inference"] = "handle"
    /\ FeatureLog[next["inference"] + 1] = "complete" /\ Scales
    /\ To("inference", "publish")
    /\ UNCHANGED <<topicVars, offsetVars, closing, budget, flowPast, clients>>

(* send hands the prediction to the producer's own thread.  An error of    *)
(* Kafka is logged; without a producer nothing is sent.                    *)
Publish ==
    /\ place["inference"] = "publish"
    /\ \/ "producer" \notin clients /\ UNCHANGED <<outbox, faults>>
       \/ /\ "producer" \in clients /\ ClientsOpen
          /\ \/ outbox' = Append(outbox, next["inference"]) /\ UNCHANGED faults
             \/ UNCHANGED outbox /\ Fault
    /\ To("inference", "persist")
    /\ UNCHANGED <<fed, predicted, stored, offsetVars, closing, crashes, shutdowns,
                   flowPast, clients>>

(* A closed producer raises, and the prediction is not stored either. *)
PublishClosed ==
    /\ place["inference"] = "publish"
    /\ "producer" \in clients /\ ~ClientsOpen
    /\ Advance("inference")
    /\ UNCHANGED <<topicVars, committed, position, closing, budget, cut, fromEnd, clients>>

(* Nobody looks at the result of a send: what fails for good is lost, and  *)
(* what is retried after a lost acknowledgement arrives twice.             *)
Deliver ==
    /\ outbox # <<>>
    /\ \/ predicted' = Append(predicted, Head(outbox)) /\ UNCHANGED faults
       \/ predicted' \in {predicted, predicted \o <<Head(outbox), Head(outbox)>>} /\ Fault
    /\ outbox' = Tail(outbox)
    /\ UNCHANGED <<fed, stored, offsetVars, place, closing, crashes, shutdowns,
                   flowPast, clients>>

(* An error is logged, whether or not the row was committed. *)
Persist ==
    /\ place["inference"] = "persist"
    /\ LET row == [stored EXCEPT ![next["inference"]] = @ + 1]
       IN \/ /\ "pool" \in clients /\ ClientsOpen
             /\ \/ stored' = row /\ UNCHANGED faults
                \/ stored' \in {row, stored} /\ Fault
          \/ ~("pool" \in clients /\ ClientsOpen) /\ UNCHANGED <<stored, faults>>
    /\ Advance("inference")
    /\ UNCHANGED <<fed, predicted, outbox, committed, position, closing, crashes, shutdowns,
                   cut, fromEnd, clients>>

-------------------------------------------------------------------------------
(* _handle of the alert consumer *)

Evaluate ==
    /\ place["alerts"] = "handle"
    /\ Advance("alerts")
    /\ UNCHANGED <<topicVars, committed, position, closing, budget, cut, fromEnd, clients>>

-------------------------------------------------------------------------------
(* Shutdown: stop of the pipeline in the lifespan of the API, the signal   *)
(* handler of the alert engine                                             *)

Shutdown(s) ==
    /\ Up(s) /\ Open(s)
    /\ shutdowns < MaxShutdowns /\ shutdowns' = shutdowns + 1
    /\ closing' = [closing EXCEPT ![s] = IF s = "inference" THEN "join" ELSE "consumer"]
    /\ UNCHANGED <<topicVars, offsetVars, place, crashes, faults, flowPast, clients>>

(* join waits for ten seconds, and goes on with the thread still busy. *)
JoinThread ==
    /\ closing["inference"] = "join"
    /\ place["inference"] = "exited" \/ Fault
    /\ place["inference"] = "exited" => UNCHANGED faults
    /\ closing' = [closing EXCEPT !["inference"] = "consumer"]
    /\ UNCHANGED <<topicVars, offsetVars, place, crashes, shutdowns, flowPast, clients>>

(* A slip a change to this code could make; the specification does not use it. *)
CloseWithoutCommit(s) ==
    /\ closing[s] = "consumer"
    /\ closing' = [closing EXCEPT ![s] = IF s = "inference" THEN "producer" ELSE "leave"]
    /\ UNCHANGED <<topicVars, offsetVars, place, budget, flowPast, clients>>

(* Closing commits what the last poll returned; errors are swallowed. *)
CloseConsumer(s) ==
    /\ closing[s] = "consumer"
    /\ \/ /\ committed' = [committed EXCEPT ![s] = IF place[s] = "connect" THEN @ ELSE position[s]]
          /\ cut' = [cut EXCEPT ![s] = @ \/ (place[s] # "connect" /\ next[s] < position[s])]
          /\ UNCHANGED faults
       \/ UNCHANGED <<committed, cut>> /\ Fault
    /\ closing' = [closing EXCEPT ![s] = IF s = "inference" THEN "producer" ELSE "leave"]
    /\ UNCHANGED <<topicVars, position, next, place, crashes, shutdowns, handled, fromEnd,
                   clients>>

(* A slip a change to this code could make; the specification does not use it. *)
CloseWithoutFlush ==
    /\ closing["inference"] = "producer"
    /\ outbox' = <<>>
    /\ closing' = [closing EXCEPT !["inference"] = "leave"]
    /\ UNCHANGED <<fed, predicted, stored, offsetVars, place, crashes, shutdowns,
                   faults, flowPast, clients>>

(* flush delivers what was sent, or raises and what is left is lost; then  *)
(* the database connections are closed.                                    *)
CloseProducer ==
    /\ closing["inference"] = "producer"
    /\ \/ outbox = <<>> /\ UNCHANGED <<outbox, faults>>
       \/ outbox # <<>> /\ outbox' = <<>> /\ Fault
    /\ closing' = [closing EXCEPT !["inference"] = "leave"]
    /\ UNCHANGED <<fed, predicted, stored, offsetVars, place, crashes, shutdowns,
                   flowPast, clients>>

(* The process ends, and its daemon thread with it. *)
Quit(s) ==
    /\ Up(s) /\ closing[s] = "leave"
    /\ To(s, "down")
    /\ closing' = [closing EXCEPT ![s] = "no"]
    /\ UNCHANGED <<topicVars, offsetVars, clients, budget, flowPast>>

Crash(s) ==
    /\ Up(s)
    /\ crashes < MaxCrashes /\ crashes' = crashes + 1
    /\ To(s, "down")
    /\ closing' = [closing EXCEPT ![s] = "no"]
    /\ outbox' = IF s = "inference" THEN <<>> ELSE outbox
    /\ UNCHANGED <<fed, predicted, stored, offsetVars, shutdowns, faults, clients, flowPast>>

Start(s) ==
    /\ ~Up(s)
    /\ To(s, "connect")
    /\ UNCHANGED <<topicVars, offsetVars, closing, clients, budget, flowPast>>

-------------------------------------------------------------------------------

Loop(s) ==
    \/ Connect(s) \/ Exit(s)
    \/ \E n \in 1 .. MaxBatch : PollBatch(s, n)
    \/ /\ s = "inference"
       /\ PassOver \/ Predict \/ Publish \/ PublishClosed \/ Persist
    \/ s = "alerts" /\ Evaluate

Stopping(s) ==
    \/ CloseConsumer(s) \/ Quit(s)
    \/ s = "inference" /\ (JoinThread \/ CloseProducer)

FlowNext ==
    \/ FeatureArrives \/ Deliver
    \/ \E s \in Service :
          Loop(s) \/ PollNothing(s) \/ Shutdown(s) \/ Stopping(s) \/ Crash(s) \/ Start(s)

FlowSpec == FlowInit /\ [][FlowNext]_flowVars

(* The threads of the services and of the producer run; messages need not  *)
(* arrive, and nobody has to stop or to start a service.                   *)
FlowFairness ==
    /\ WF_flowVars(Deliver)
    /\ \A s \in Service : WF_flowVars(Loop(s)) /\ WF_flowVars(Stopping(s))

FairFlowSpec == FlowSpec /\ FlowFairness

-------------------------------------------------------------------------------
(* Properties *)

(* Every variable has its type, and the offsets of a service their order. *)
FlowTypeOK ==
    /\ fed \in 0 .. Len(FeatureLog)
    /\ predicted \in Seq(Input) /\ outbox \in Seq(Input)
    /\ stored \in [Input -> Nat]
    /\ committed \in [Service -> Nat \cup {NoOffset}]
    /\ position \in [Service -> Nat] /\ next \in [Service -> Nat]
    /\ place \in [Service -> {"connect", "poll", "handle", "publish", "persist", "exited", "down"}]
    /\ closing \in [Service -> {"no", "join", "consumer", "producer", "leave"}]
    /\ clients \subseteq {"producer", "pool"}
    /\ \A s \in Service :
          /\ committed[s] <= position[s] /\ next[s] <= position[s] /\ position[s] <= End(s)
          /\ place[s] \in {"handle", "publish", "persist"} => next[s] < position[s]
          /\ place[s] = "poll" => next[s] = position[s]
    /\ crashes \in Nat /\ shutdowns \in Nat /\ faults \in Nat
    /\ handled \in [Service -> SUBSET Nat]
    /\ cut \in [Service -> BOOLEAN] /\ fromEnd \in [Service -> BOOLEAN]

(* A message below the committed offset of a group has been handled,       *)
(* unless the group started at the end of the topic, or a shutdown closed  *)
(* the consumer while its thread was in the middle of a batch.             *)
CommittedHandled ==
    \A s \in Service :
        ~cut[s] /\ ~fromEnd[s] => \A o \in 0 .. committed[s] - 1 : o \in handled[s]

(* A clean restart handles no feature message again: each further row of   *)
(* one takes a crash or a failed call.                                     *)
RowsNeedCrash == \A o \in Input : stored[o] <= 1 + crashes + faults

(* With the engine the API makes, no feature message becomes a prediction. *)
ShippedFlowPredictsNothing ==
    Normalization = "standard" => predicted = <<>> /\ \A o \in Input : stored[o] = 0

(* As long as nothing crashed and no call failed, what is stored is what   *)
(* was published, but for the message between the two.                     *)
StoredArePublished ==
    crashes = 0 /\ faults = 0 =>
        \A o \in Input :
            \/ stored[o] > 0 <=> o \in ToSet(predicted) \cup ToSet(outbox)
            \/ place["inference"] = "persist" /\ next["inference"] = o

(* "Resumes consuming on reconnect; processes backlog."                    *)
(* (docs/expected-behaviour.md:486): what arrives after a service's        *)
(* position is handled as long as the service is not shut down.            *)
BacklogHandled ==
    \A s \in Service : \A o \in Input :
        place[s] # "connect" /\ position[s] <= o /\ o < End(s)
            ~> (o \in handled[s] \/ ~Up(s) \/ ~Open(s))
===============================================================================
