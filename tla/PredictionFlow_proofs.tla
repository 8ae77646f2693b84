------------------------- MODULE PredictionFlow_proofs -------------------------
(***************************************************************************)
(* Proofs about PredictionFlow for every sequence of feature messages,     *)
(* every size of a batch, and any number of crashes, shutdowns and faults. *)
(***************************************************************************)
EXTENDS PredictionFlow, SequenceTheorems, TLAPS

Place   == {"connect", "poll", "handle", "publish", "persist", "exited", "down"}
Closing == {"no", "join", "consumer", "producer", "leave"}

TopicOK ==
    /\ fed \in 0 .. Len(FeatureLog)
    /\ predicted \in Seq(Input) /\ outbox \in Seq(Input)
    /\ stored \in [Input -> Nat]

StageOK ==
    /\ place \in [Service -> Place]
    /\ closing \in [Service -> Closing]
    /\ clients \subseteq {"producer", "pool"}
    /\ crashes \in Nat /\ shutdowns \in Nat /\ faults \in Nat

PastOK ==
    /\ handled \in [Service -> SUBSET Nat]
    /\ cut \in [Service -> BOOLEAN] /\ fromEnd \in [Service -> BOOLEAN]

OffsetsOK ==
    /\ committed \in [Service -> Nat \cup {NoOffset}]
    /\ position \in [Service -> Nat] /\ next \in [Service -> Nat]
    /\ \A s \in Service :
          /\ committed[s] <= position[s] /\ next[s] <= position[s] /\ position[s] <= End(s)
          /\ place[s] \in {"handle", "publish", "persist"} => next[s] < position[s]
          /\ place[s] = "poll" => next[s] = position[s]

FlowTypeInv == TopicOK /\ StageOK /\ PastOK /\ OffsetsOK

LEMMA TypesFollow == FlowTypeInv => FlowTypeOK
  BY DEF FlowTypeInv, FlowTypeOK, TopicOK, StageOK, PastOK, OffsetsOK, Place, Closing

LEMMA LogLength == Len(FeatureLog) \in Nat
  BY FlowAssumption

LEMMA Initially == FlowInit => FlowTypeInv
  <1> SUFFICES ASSUME FlowInit PROVE FlowTypeInv
    OBVIOUS
  <1>1. TopicOK
    BY LogLength DEF FlowInit, TopicOK, Input
  <1>2. StageOK /\ PastOK
    BY DEF FlowInit, StageOK, PastOK, Place, Closing
  <1>3. OffsetsOK
    BY DEF FlowInit, OffsetsOK, NoOffset, End
  <1>. QED BY <1>1, <1>2, <1>3 DEF FlowTypeInv

(* Nothing ever leaves a topic. *)
LEMMA EndsGrow ==
    ASSUME TopicOK, TopicOK', fed' >= fed, Len(predicted') >= Len(predicted), NEW s \in Service
    PROVE  End(s) \in Nat /\ End(s)' \in Nat /\ End(s) <= End(s)'
  BY LogLength DEF TopicOK, End

(* A step between polls keeps the order of the offsets. *)
LEMMA OffsetsStay ==
    ASSUME TopicOK, TopicOK', OffsetsOK, StageOK, UNCHANGED offsetVars,
           fed' >= fed, Len(predicted') >= Len(predicted),
           \A s \in Service : \/ place'[s] = place[s]
                              \/ place'[s] \in {"publish", "persist"} /\ next[s] < position[s]
                              \/ place'[s] \in {"connect", "exited", "down"}
    PROVE  OffsetsOK'
  <1>1. \A s \in Service : End(s) \in Nat /\ End(s)' \in Nat /\ End(s) <= End(s)'
    BY EndsGrow
  <1>2. ASSUME NEW s \in Service
        PROVE  /\ committed'[s] <= position'[s] /\ next'[s] <= position'[s] /\ position'[s] <= End(s)'
               /\ place'[s] \in {"handle", "publish", "persist"} => next'[s] < position'[s]
               /\ place'[s] = "poll" => next'[s] = position'[s]
    <2>1. /\ committed[s] <= position[s] /\ next[s] <= position[s] /\ position[s] <= End(s)
          /\ place[s] \in {"handle", "publish", "persist"} => next[s] < position[s]
          /\ place[s] = "poll" => next[s] = position[s]
          /\ position[s] \in Nat
      BY DEF OffsetsOK
    <2>2. committed' = committed /\ next' = next /\ position' = position
      BY DEF offsetVars
    <2>3. position[s] <= End(s)'
      BY <1>1, <2>1
    <2>. QED BY <2>1, <2>2, <2>3
  <1>. QED BY <1>2 DEF OffsetsOK, offsetVars

(* Done with a message, a loop goes on in the batch or polls. *)
LEMMA OffsetsAdvance ==
    ASSUME TopicOK, TopicOK', OffsetsOK, StageOK, NEW s \in Service,
           Advance(s), next[s] < position[s], UNCHANGED <<committed, position>>,
           fed' >= fed, Len(predicted') >= Len(predicted)
    PROVE  OffsetsOK'
  <1>1. \A r \in Service : End(r) \in Nat /\ End(r)' \in Nat /\ End(r) <= End(r)'
    BY EndsGrow
  <1>2. next' \in [Service -> Nat] /\ next'[s] = next[s] + 1 /\ next'[s] <= position[s]
    BY DEF OffsetsOK, Advance
  <1>3. place'[s] = IF next[s] + 1 = position[s] THEN "poll" ELSE "handle"
    BY DEF Advance, To, StageOK
  <1>4. \A r \in Service \ {s} : place'[r] = place[r] /\ next'[r] = next[r]
    BY DEF Advance, To, StageOK, OffsetsOK
  <1>5. ASSUME NEW r \in Service
        PROVE  /\ committed'[r] <= position'[r] /\ next'[r] <= position'[r] /\ position'[r] <= End(r)'
               /\ place'[r] \in {"handle", "publish", "persist"} => next'[r] < position'[r]
               /\ place'[r] = "poll" => next'[r] = position'[r]
    <2>1. /\ committed[r] <= position[r] /\ next[r] <= position[r] /\ position[r] <= End(r)
          /\ place[r] \in {"handle", "publish", "persist"} => next[r] < position[r]
          /\ place[r] = "poll" => next[r] = position[r]
          /\ position[r] \in Nat /\ next[r] \in Nat
      BY DEF OffsetsOK
    <2>2. position[r] <= End(r)'
      BY <1>1, <2>1
    <2>3. CASE r = s
      BY <1>2, <1>3, <2>1, <2>2, <2>3
    <2>4. CASE r # s
      BY <1>4, <2>1, <2>2, <2>4
    <2>. QED BY <2>3, <2>4
  <1>. QED BY <1>2, <1>5 DEF OffsetsOK

LEMMA AdvanceTypes ==
    ASSUME StageOK, PastOK, OffsetsOK, NEW s \in Service, Advance(s), UNCHANGED <<cut, fromEnd>>
    PROVE  place' \in [Service -> Place] /\ PastOK'
  BY DEF StageOK, PastOK, OffsetsOK, Advance, To, Place

(* The steps of the topics, and those of the main threads: no offset moves but those committed. *)
LEMMA TopicsKeepTypes ==
    ASSUME FlowTypeInv, FeatureArrives \/ Deliver
    PROVE  FlowTypeInv'
  <1>0. TopicOK /\ StageOK /\ PastOK /\ OffsetsOK
    BY DEF FlowTypeInv
  <1>1. CASE FeatureArrives
    <2>1. TopicOK' /\ fed' >= fed /\ predicted' = predicted
      BY <1>0, <1>1, LogLength DEF FeatureArrives, TopicOK
    <2>2. StageOK' /\ PastOK'
      BY <1>0, <1>1 DEF FeatureArrives, StageOK, PastOK, flowPast, budget
    <2>3. OffsetsOK'
      BY <1>0, <1>1, <2>1, OffsetsStay DEF FeatureArrives, TopicOK
    <2>. QED BY <2>1, <2>2, <2>3 DEF FlowTypeInv
  <1>2. CASE Deliver
    <2>1. Head(outbox) \in Input /\ Tail(outbox) \in Seq(Input)
      BY <1>0, <1>2 DEF Deliver, TopicOK
    <2>2. predicted' \in Seq(Input) /\ Len(predicted') >= Len(predicted)
      <3> DEFINE h == Head(outbox)
      <3>1. Append(predicted, h) \in Seq(Input) /\ Len(Append(predicted, h)) >= Len(predicted)
        BY <1>0, <2>1 DEF TopicOK
      <3>2. <<h, h>> \in Seq(Input) /\ Len(<<h, h>>) = 2
        BY <2>1
      <3>3. predicted \o <<h, h>> \in Seq(Input) /\ Len(predicted \o <<h, h>>) = Len(predicted) + 2
        BY <1>0, <3>2 DEF TopicOK
      <3>4. Len(predicted) \in Nat
        BY <1>0 DEF TopicOK
      <3>5. predicted' \in {Append(predicted, h), predicted, predicted \o <<h, h>>}
        BY <1>2 DEF Deliver
      <3>6. predicted \in Seq(Input)
        BY <1>0 DEF TopicOK
      <3>. HIDE DEF h
      <3>7. CASE predicted' = Append(predicted, h)
        BY <3>1, <3>7
      <3>8. CASE predicted' = predicted
        BY <3>4, <3>6, <3>8
      <3>9. CASE predicted' = predicted \o <<h, h>>
        <4>. DEFINE more == predicted \o <<h, h>>
        <4>1. more \in Seq(Input) /\ Len(more) = Len(predicted) + 2 /\ predicted' = more
          BY <3>3, <3>9
        <4>. HIDE DEF more
        <4>. QED BY <3>4, <4>1
      <3>. QED BY <3>5, <3>7, <3>8, <3>9
    <2>3. TopicOK' /\ fed' >= fed
      BY <1>0, <1>2, <2>1, <2>2, LogLength DEF Deliver, TopicOK
    <2>4. StageOK' /\ PastOK'
      BY <1>0, <1>2 DEF Deliver, StageOK, PastOK, flowPast, Fault
    <2>5. OffsetsOK'
      BY <1>0, <1>2, <2>2, <2>3, OffsetsStay DEF Deliver
    <2>. QED BY <2>3, <2>4, <2>5 DEF FlowTypeInv
  <1>. QED BY <1>1, <1>2
LEMMA FlagsStay ==
    ASSUME NEW f \in [Service -> BOOLEAN], NEW s \in Service, NEW b
    PROVE  [f EXCEPT ![s] = f[s] \/ b] \in [Service -> BOOLEAN]
  <1>1. (f[s] \/ b) \in BOOLEAN
    OBVIOUS
  <1> DEFINE c == f[s] \/ b
  <1>2. c \in BOOLEAN
    BY <1>1
  <1>. HIDE DEF c
  <1>3. [f EXCEPT ![s] = c] \in [Service -> BOOLEAN]
    BY <1>2
  <1>. QED BY <1>3 DEF c

LEMMA ConnectKeepsTypes ==
    ASSUME FlowTypeInv, NEW s \in Service, Connect(s)
    PROVE  FlowTypeInv'
  <1>0. TopicOK /\ StageOK /\ PastOK /\ OffsetsOK
    BY DEF FlowTypeInv
  <1>1. TopicOK'
    BY <1>0 DEF Connect, topicVars, TopicOK
  <1>2. StageOK' /\ PastOK'
    <2>1. /\ place' = [place EXCEPT ![s] = "poll"] /\ closing' = closing
          /\ crashes' = crashes /\ shutdowns' = shutdowns /\ faults' \in {faults, faults + 1}
          /\ clients' \subseteq {"producer", "pool"}
      BY <1>0 DEF Connect, StageOK, To, Fault
    <2>2. StageOK'
      BY <1>0, <2>1 DEF StageOK, Place
    <2>3. fromEnd' \in [Service -> BOOLEAN]
      BY <1>0, FlagsStay DEF Connect, PastOK
    <2>4. PastOK'
      BY <1>0, <2>3 DEF Connect, PastOK
    <2>. QED BY <2>2, <2>4
  <1>3. \A r \in Service : End(r) \in Nat /\ End(r)' = End(r)
    BY <1>0 DEF Connect, topicVars, TopicOK, End
  <1> DEFINE from == IF committed[s] = NoOffset THEN End(s) ELSE committed[s]
  <1>4. from \in Nat /\ from <= End(s) /\ committed[s] <= from
    <2>1. committed[s] \in Nat \cup {NoOffset} /\ committed[s] <= position[s]
          /\ position[s] <= End(s) /\ position[s] \in Nat
      BY <1>0 DEF OffsetsOK
    <2>. QED BY <2>1, <1>3 DEF NoOffset
  <1>5. /\ position' = [position EXCEPT ![s] = from]
        /\ next' = [next EXCEPT ![s] = from]
        /\ committed' = committed
        /\ place' = [place EXCEPT ![s] = "poll"]
    BY DEF Connect, To
  <1>. HIDE DEF from
  <1>6. OffsetsOK'
    BY <1>0, <1>3, <1>4, <1>5 DEF OffsetsOK, StageOK
  <1>. QED BY <1>1, <1>2, <1>6 DEF FlowTypeInv

LEMMA PollKeepsTypes ==
    ASSUME FlowTypeInv, NEW s \in Service, NEW n \in 1 .. MaxBatch, PollBatch(s, n)
    PROVE  FlowTypeInv'
  <1>0. TopicOK /\ StageOK /\ PastOK /\ OffsetsOK /\ n \in Nat \ {0}
    BY FlowAssumption DEF FlowTypeInv
  <1>1. TopicOK'
    BY <1>0 DEF PollBatch, topicVars, TopicOK
  <1>2. StageOK' /\ PastOK'
    BY <1>0 DEF PollBatch, StageOK, PastOK, To, Place, flowPast, budget
  <1>3. \A r \in Service : End(r) \in Nat /\ End(r)' = End(r)
    BY <1>0 DEF PollBatch, topicVars, TopicOK, End
  <1>4. /\ position[s] + n <= End(s)
        /\ position' = [position EXCEPT ![s] = @ + n]
        /\ next' = next
        /\ committed' = committed \/ committed' = [committed EXCEPT ![s] = position[s]]
        /\ place' = [place EXCEPT ![s] = "handle"]
        /\ place[s] = "poll"
    BY DEF PollBatch, To
  <1>5. ASSUME NEW r \in Service
        PROVE  /\ committed'[r] <= position'[r] /\ next'[r] <= position'[r] /\ position'[r] <= End(r)'
               /\ place'[r] \in {"handle", "publish", "persist"} => next'[r] < position'[r]
               /\ place'[r] = "poll" => next'[r] = position'[r]
               /\ committed'[r] \in Nat \cup {NoOffset}
    <2>1. /\ committed[r] <= position[r] /\ next[r] <= position[r] /\ position[r] <= End(r)
          /\ place[r] \in {"handle", "publish", "persist"} => next[r] < position[r]
          /\ place[r] = "poll" => next[r] = position[r]
          /\ position[r] \in Nat /\ next[r] \in Nat /\ committed[r] \in Nat \cup {NoOffset}
      BY <1>0 DEF OffsetsOK
    <2>2. CASE r = s
      <3>1. position'[r] = position[r] + n /\ place'[r] = "handle"
            /\ committed'[r] \in {committed[r], position[r]}
        BY <1>0, <1>4, <2>2 DEF OffsetsOK, StageOK
      <3>. QED BY <1>0, <1>3, <1>4, <2>1, <2>2, <3>1 DEF NoOffset
    <2>3. CASE r # s
      <3>1. position'[r] = position[r] /\ place'[r] = place[r] /\ committed'[r] = committed[r]
        BY <1>0, <1>4, <2>3 DEF OffsetsOK, StageOK
      <3>. QED BY <1>3, <1>4, <2>1, <3>1
    <2>. QED BY <2>2, <2>3
  <1>6. OffsetsOK'
    <2>1. position' \in [Service -> Nat] /\ next' \in [Service -> Nat]
      BY <1>0, <1>4 DEF OffsetsOK
    <2>2. committed' \in [Service -> Nat \cup {NoOffset}]
      BY <1>0, <1>4 DEF OffsetsOK
    <2>. QED BY <1>5, <2>1, <2>2 DEF OffsetsOK
  <1>. QED BY <1>1, <1>2, <1>6 DEF FlowTypeInv

LEMMA CommitKeepsTypes ==
    ASSUME FlowTypeInv, NEW s \in Service, PollNothing(s) \/ CloseConsumer(s)
    PROVE  FlowTypeInv'
  <1>0. TopicOK /\ StageOK /\ PastOK /\ OffsetsOK
    BY DEF FlowTypeInv
  <1>1. TopicOK' /\ \A r \in Service : End(r)' = End(r)
    BY <1>0 DEF PollNothing, CloseConsumer, topicVars, TopicOK, End
  <1>2. StageOK' /\ PastOK'
    <2>1. CASE PollNothing(s)
      BY <1>0, <2>1 DEF PollNothing, StageOK, PastOK, flowPast, budget
    <2>2. CASE CloseConsumer(s)
      <3>1. StageOK'
        BY <1>0, <2>2 DEF CloseConsumer, StageOK, Closing, Fault
      <3>2. cut' \in [Service -> BOOLEAN]
        BY <1>0, <2>2, FlagsStay DEF CloseConsumer, PastOK
      <3>3. PastOK'
        BY <1>0, <2>2, <3>2 DEF CloseConsumer, PastOK
      <3>. QED BY <3>1, <3>3
    <2>. QED BY <2>1, <2>2
  <1>3. /\ position' = position /\ next' = next /\ place' = place
        /\ committed' = committed \/ committed' = [committed EXCEPT ![s] = position[s]]
    BY <1>0 DEF PollNothing, CloseConsumer, OffsetsOK
  <1>4. OffsetsOK'
    <2>1. committed' \in [Service -> Nat \cup {NoOffset}]
      BY <1>0, <1>3 DEF OffsetsOK
    <2>2. \A r \in Service : committed'[r] <= position[r]
      BY <1>0, <1>3 DEF OffsetsOK
    <2>. QED BY <1>0, <1>1, <1>3, <2>1, <2>2 DEF OffsetsOK
  <1>. QED BY <1>1, <1>2, <1>4 DEF FlowTypeInv

(* The steps by which a loop leaves a message, with or without a row. *)
LEMMA DoneKeepsTypes ==
    ASSUME FlowTypeInv, PassOver \/ PublishClosed \/ Persist \/ Evaluate
    PROVE  FlowTypeInv'
  <1>0. TopicOK /\ StageOK /\ PastOK /\ OffsetsOK
    BY DEF FlowTypeInv
  <1>1. PICK s \in Service :
          /\ Advance(s) /\ place[s] \in {"handle", "publish", "persist"}
          /\ s = "alerts" => Evaluate
    BY DEF PassOver, PublishClosed, Persist, Evaluate, Service
  <1>2. /\ UNCHANGED <<fed, predicted, outbox, committed, position, closing, clients, cut, fromEnd>>
        /\ UNCHANGED <<crashes, shutdowns>> /\ faults' \in {faults, faults + 1}
    BY <1>0 DEF PassOver, PublishClosed, Persist, Evaluate, topicVars, budget, Fault, StageOK
  <1>3. TopicOK'
    <2>1. stored' \in [Input -> Nat]
      <3>1. CASE Persist
        <4>1. next["inference"] \in Input
          <5>1. next["inference"] \in Nat /\ position["inference"] \in Nat
                /\ next["inference"] < position["inference"] /\ position["inference"] <= fed
            BY <1>0, <3>1 DEF Persist, OffsetsOK, Service, End
          <5>. QED BY <5>1, <1>0, LogLength DEF TopicOK, Input
        <4>2. \/ stored' = [stored EXCEPT ![next["inference"]] = @ + 1]
              \/ stored' = stored
          BY <3>1 DEF Persist
        <4>. QED BY <1>0, <4>1, <4>2, SMTT(30) DEF TopicOK
      <3>2. CASE PassOver \/ PublishClosed \/ Evaluate
        BY <1>0, <3>2 DEF PassOver, PublishClosed, Evaluate, topicVars, TopicOK
      <3>. QED BY <3>1, <3>2
    <2>. QED BY <1>0, <1>2, <2>1 DEF TopicOK
  <1>4. place' \in [Service -> Place] /\ PastOK'
    BY <1>0, <1>1, <1>2, AdvanceTypes
  <1>5. StageOK'
    BY <1>0, <1>2, <1>4 DEF StageOK
  <1>6. next[s] < position[s]
    BY <1>0, <1>1 DEF OffsetsOK
  <1>7. OffsetsOK'
    <2>1. fed' >= fed /\ Len(predicted') >= Len(predicted)
      BY <1>0, <1>2, LogLength DEF TopicOK
    <2>. QED BY <1>0, <1>1, <1>2, <1>3, <1>6, <2>1, OffsetsAdvance
  <1>. QED BY <1>3, <1>4, <1>5, <1>7 DEF FlowTypeInv

(* The steps that move a loop or a shutdown and no offset. *)
LEMMA MovesKeepTypes ==
    ASSUME FlowTypeInv, NEW s \in Service,
           \/ Exit(s) \/ Predict \/ Publish \/ Shutdown(s) \/ JoinThread \/ CloseProducer
           \/ Quit(s) \/ Crash(s) \/ Start(s)
    PROVE  FlowTypeInv'
  <1>0. TopicOK /\ StageOK /\ PastOK /\ OffsetsOK
    BY DEF FlowTypeInv
  <1>1. UNCHANGED <<fed, predicted, stored, committed, position, next, handled, cut, fromEnd>>
    BY DEF Exit, Predict, Publish, Shutdown, JoinThread, CloseProducer, Quit, Crash, Start,
           topicVars, offsetVars, flowPast
  <1>2. outbox' \in Seq(Input)
    <2>1. CASE Publish
      <3>1. next["inference"] \in Input
        <4>1. next["inference"] \in Nat /\ position["inference"] \in Nat
              /\ next["inference"] < position["inference"] /\ position["inference"] <= fed
          BY <1>0, <2>1 DEF Publish, OffsetsOK, Service, End
        <4>. QED BY <4>1, <1>0, LogLength DEF TopicOK, Input
      <3>2. outbox' = outbox \/ outbox' = Append(outbox, next["inference"])
        BY <2>1 DEF Publish
      <3>3. Append(outbox, next["inference"]) \in Seq(Input)
        BY <1>0, <3>1 DEF TopicOK
      <3>. QED BY <1>0, <3>2, <3>3 DEF TopicOK
    <2>2. CASE ~Publish
      <3>1. outbox' = outbox \/ outbox' = <<>>
        BY <2>2 DEF Exit, Predict, Shutdown, JoinThread, CloseProducer, Quit, Crash, Start,
                    topicVars
      <3>2. <<>> \in Seq(Input)
        OBVIOUS
      <3>. QED BY <1>0, <3>1, <3>2 DEF TopicOK
    <2>. QED BY <2>1, <2>2
  <1>3. TopicOK'
    BY <1>0, <1>1, <1>2 DEF TopicOK
  <1>4. PastOK'
    BY <1>0, <1>1 DEF PastOK
  <1>5. StageOK'
    <2>1. \E p \in Place : place' = place \/ place' = [place EXCEPT ![s] = p]
                           \/ place' = [place EXCEPT !["inference"] = p]
      BY DEF Exit, Predict, Publish, Shutdown, JoinThread, CloseProducer, Quit, Crash, Start,
             To, Place
    <2>2. \E c \in Closing : closing' = closing \/ closing' = [closing EXCEPT ![s] = c]
                             \/ closing' = [closing EXCEPT !["inference"] = c]
      BY DEF Exit, Predict, Publish, Shutdown, JoinThread, CloseProducer, Quit, Crash, Start,
             Closing
    <2>3. /\ clients' = clients /\ crashes' \in {crashes, crashes + 1}
          /\ shutdowns' \in {shutdowns, shutdowns + 1} /\ faults' \in {faults, faults + 1}
      BY DEF Exit, Predict, Publish, Shutdown, JoinThread, CloseProducer, Quit, Crash, Start,
             Fault, budget
    <2>. QED BY <1>0, <2>1, <2>2, <2>3 DEF StageOK, Service
  <1>6. \A r \in Service : \/ place'[r] = place[r]
                           \/ place'[r] \in {"publish", "persist"} /\ next[r] < position[r]
                           \/ place'[r] \in {"connect", "exited", "down"}
    BY <1>0 DEF Exit, Predict, Publish, Shutdown, JoinThread, CloseProducer, Quit, Crash, Start,
                StageOK, To, OffsetsOK
  <1>7. fed' >= fed /\ Len(predicted') >= Len(predicted)
    BY <1>0, <1>1, LogLength DEF TopicOK
  <1>8. OffsetsOK'
    BY <1>0, <1>1, <1>3, <1>6, <1>7, OffsetsStay DEF offsetVars
  <1>. QED BY <1>3, <1>4, <1>5, <1>8 DEF FlowTypeInv

LEMMA StepKeepsTypes == FlowTypeInv /\ [FlowNext]_flowVars => FlowTypeInv'
  <1> SUFFICES ASSUME FlowTypeInv, [FlowNext]_flowVars PROVE FlowTypeInv'
    OBVIOUS
  <1>1. CASE UNCHANGED flowVars
    BY <1>1 DEF flowVars, topicVars, offsetVars, budget, flowPast, FlowTypeInv, TopicOK, StageOK,
                PastOK, OffsetsOK, End
  <1>2. CASE FeatureArrives \/ Deliver
    BY <1>2, TopicsKeepTypes
  <1>3. ASSUME NEW s \in Service,
               \/ Loop(s) \/ PollNothing(s) \/ Shutdown(s) \/ Stopping(s) \/ Crash(s) \/ Start(s)
        PROVE  FlowTypeInv'
    <2>1. CASE Connect(s)
      BY <2>1, ConnectKeepsTypes
    <2>2. CASE \E n \in 1 .. MaxBatch : PollBatch(s, n)
      BY <2>2, PollKeepsTypes
    <2>3. CASE PollNothing(s) \/ CloseConsumer(s)
      BY <2>3, CommitKeepsTypes
    <2>4. CASE PassOver \/ PublishClosed \/ Persist \/ Evaluate
      BY <2>4, DoneKeepsTypes
    <2>5. CASE \/ Exit(s) \/ Predict \/ Publish \/ Shutdown(s) \/ JoinThread \/ CloseProducer
               \/ Quit(s) \/ Crash(s) \/ Start(s)
      BY <2>5, MovesKeepTypes
    <2>. QED BY <1>3, <2>1, <2>2, <2>3, <2>4, <2>5 DEF Loop, Stopping
  <1>. QED BY <1>1, <1>2, <1>3 DEF FlowNext

(* Types: every variable has its type, and no service reads beyond its     *)
(* topic, handles beyond its batch or commits beyond what it polled.       *)
THEOREM FlowTypeCorrect == FlowSpec => []FlowTypeOK
  <1>1. FlowSpec => []FlowTypeInv
    BY Initially, StepKeepsTypes, PTL DEF FlowSpec
  <1>. QED BY <1>1, TypesFollow, PTL
-------------------------------------------------------------------------------

(* A service whose start and shutdowns skipped nothing has handled all     *)
(* before the message its loop is at, and commits nothing beyond it.       *)
HandledBefore ==
    \A s \in Service :
        ~cut[s] /\ ~fromEnd[s] =>
            /\ committed[s] <= next[s]
            /\ \A o \in 0 .. next[s] - 1 : o \in handled[s]

OffsetInv == FlowTypeInv /\ HandledBefore

LEMMA OffsetsNumbers ==
    ASSUME FlowTypeInv, NEW s \in Service
    PROVE  /\ committed[s] \in Nat \cup {NoOffset} /\ next[s] \in Nat /\ position[s] \in Nat
           /\ next[s] <= position[s]
           /\ place[s] = "poll" => next[s] = position[s]
           /\ cut[s] \in BOOLEAN /\ fromEnd[s] \in BOOLEAN
  BY DEF FlowTypeInv, OffsetsOK, PastOK

LEMMA ConnectKeepsHandled ==
    ASSUME OffsetInv, NEW s \in Service, Connect(s)
    PROVE  HandledBefore'
  <1>. FlowTypeInv /\ HandledBefore
    BY DEF OffsetInv
  <1> DEFINE from == IF committed[s] = NoOffset THEN End(s) ELSE committed[s]
  <1>1. UNCHANGED <<committed, handled, cut>>
    BY DEF Connect
  <1>2. /\ next' = [next EXCEPT ![s] = from]
        /\ fromEnd' = [fromEnd EXCEPT ![s] = fromEnd[s] \/ (committed[s] = NoOffset /\ from # 0)]
    BY DEF Connect
  <1>3. next'[s] = from /\ (~fromEnd'[s] => ~fromEnd[s] /\ ~(committed[s] = NoOffset /\ from # 0))
    BY <1>2 DEF FlowTypeInv, OffsetsOK, PastOK
  <1>4. \A r \in Service \ {s} : next'[r] = next[r] /\ fromEnd'[r] = fromEnd[r]
    BY <1>2 DEF FlowTypeInv, OffsetsOK, PastOK
  <1>5. ASSUME NEW r \in Service, ~cut'[r], ~fromEnd'[r]
        PROVE  committed'[r] <= next'[r] /\ \A o \in 0 .. next'[r] - 1 : o \in handled'[r]
    <2>1. CASE r # s
      BY <1>1, <1>4, <1>5, <2>1 DEF HandledBefore
    <2>2. CASE r = s /\ committed[s] = NoOffset
      <3>1. from = 0
        BY <1>3, <1>5, <2>2
      <3>. QED BY <1>1, <1>3, <2>2, <3>1 DEF NoOffset
    <2>3. CASE r = s /\ committed[s] # NoOffset
      <3>1. next'[s] = committed[s] /\ committed[s] \in Nat /\ next[s] \in Nat
        BY <1>3, <2>3, OffsetsNumbers
      <3>2. committed[s] <= next[s] /\ \A o \in 0 .. next[s] - 1 : o \in handled[s]
        BY <1>1, <1>3, <1>5, <2>3 DEF HandledBefore
      <3>. QED BY <1>1, <2>3, <3>1, <3>2
    <2>. QED BY <2>1, <2>2, <2>3
  <1>. QED BY <1>5 DEF HandledBefore

(* Polls and a close that cuts no batch commit up to the message a loop is at. *)
LEMMA CommitKeepsHandled ==
    ASSUME OffsetInv, NEW s \in Service,
           (\E n \in 1 .. MaxBatch : PollBatch(s, n)) \/ PollNothing(s) \/ CloseConsumer(s)
    PROVE  HandledBefore'
  <1>. FlowTypeInv /\ HandledBefore
    BY DEF OffsetInv
  <1>1. UNCHANGED <<next, handled, fromEnd>>
    BY DEF PollBatch, PollNothing, CloseConsumer, flowPast
  <1>2. /\ committed' = committed \/ committed' = [committed EXCEPT ![s] = position[s]]
        /\ \A r \in Service : ~cut'[r] => ~cut[r]
        /\ committed' # committed /\ ~cut'[s] => next[s] = position[s]
    <2>1. CASE PollNothing(s) \/ \E n \in 1 .. MaxBatch : PollBatch(s, n)
      BY <2>1, OffsetsNumbers DEF PollBatch, PollNothing, flowPast
    <2>2. CASE CloseConsumer(s)
      <3>1. CASE committed' = [committed EXCEPT ![s] = IF place[s] = "connect" THEN @ ELSE position[s]]
                 /\ cut' = [cut EXCEPT ![s] = @ \/ (place[s] # "connect" /\ next[s] < position[s])]
        <4>1. CASE place[s] = "connect"
          <5>1. committed' = committed
            BY <3>1, <4>1 DEF FlowTypeInv, OffsetsOK
          <5>2. \A r \in Service : ~cut'[r] => ~cut[r]
            BY <3>1 DEF FlowTypeInv, PastOK
          <5>. QED BY <5>1, <5>2
        <4>2. CASE place[s] # "connect"
          <5>1. committed' = [committed EXCEPT ![s] = position[s]]
            BY <3>1, <4>2
          <5>2. \A r \in Service : ~cut'[r] => ~cut[r]
            BY <3>1 DEF FlowTypeInv, PastOK
          <5>3. ~cut'[s] => ~(next[s] < position[s])
            BY <3>1, <4>2 DEF FlowTypeInv, PastOK
          <5>4. ~(next[s] < position[s]) => next[s] = position[s]
            BY OffsetsNumbers
          <5>. QED BY <5>1, <5>2, <5>3, <5>4
        <4>. QED BY <4>1, <4>2
      <3>2. CASE UNCHANGED <<committed, cut>>
        BY <3>2
      <3>. QED BY <2>2, <3>1, <3>2 DEF CloseConsumer
    <2>. QED BY <2>1, <2>2
  <1>3. ASSUME NEW r \in Service, ~cut'[r], ~fromEnd'[r]
        PROVE  committed'[r] <= next'[r] /\ \A o \in 0 .. next'[r] - 1 : o \in handled'[r]
    <2>1. committed[r] <= next[r] /\ \A o \in 0 .. next[r] - 1 : o \in handled[r]
      BY <1>1, <1>2, <1>3 DEF HandledBefore
    <2>2. committed'[r] = committed[r] \/ (committed'[r] = position[r] /\ next[r] = position[r])
      BY <1>2, <1>3 DEF FlowTypeInv, OffsetsOK
    <2>. QED BY <1>1, <2>1, <2>2, OffsetsNumbers
  <1>. QED BY <1>3 DEF HandledBefore

LEMMA DoneKeepsHandled ==
    ASSUME OffsetInv, PassOver \/ PublishClosed \/ Persist \/ Evaluate
    PROVE  HandledBefore'
  <1>. FlowTypeInv /\ HandledBefore
    BY DEF OffsetInv
  <1>1. PICK s \in Service : Advance(s)
    BY DEF PassOver, PublishClosed, Persist, Evaluate, Service
  <1>2. UNCHANGED <<committed, cut, fromEnd>>
    BY DEF PassOver, PublishClosed, Persist, Evaluate
  <1>3. /\ next' = [next EXCEPT ![s] = @ + 1]
        /\ handled' = [handled EXCEPT ![s] = @ \cup {next[s]}]
    BY <1>1 DEF Advance
  <1>4. ASSUME NEW r \in Service, ~cut'[r], ~fromEnd'[r]
        PROVE  committed'[r] <= next'[r] /\ \A o \in 0 .. next'[r] - 1 : o \in handled'[r]
    <2>1. committed[r] <= next[r] /\ \A o \in 0 .. next[r] - 1 : o \in handled[r]
      BY <1>2, <1>4 DEF HandledBefore
    <2>2. CASE r = s
      <3>1. next'[r] = next[r] + 1 /\ handled'[r] = handled[r] \cup {next[r]}
        BY <1>3, <2>2 DEF FlowTypeInv, OffsetsOK, PastOK
      <3>2. next[r] \in Nat /\ committed[r] <= next[r] + 1
        BY <2>1, OffsetsNumbers DEF NoOffset
      <3>. QED BY <1>2, <2>1, <3>1, <3>2
    <2>3. CASE r # s
      <3>1. next'[r] = next[r] /\ handled'[r] = handled[r]
        BY <1>3, <2>3 DEF FlowTypeInv, OffsetsOK, PastOK
      <3>. QED BY <1>2, <2>1, <3>1
    <2>. QED BY <2>2, <2>3
  <1>. QED BY <1>4 DEF HandledBefore

LEMMA StepKeepsHandled == OffsetInv /\ [FlowNext]_flowVars => HandledBefore'
  <1> SUFFICES ASSUME OffsetInv, [FlowNext]_flowVars PROVE HandledBefore'
    OBVIOUS
  <1>0. HandledBefore
    BY DEF OffsetInv
  <1>1. CASE UNCHANGED <<committed, next, handled, cut, fromEnd>>
    BY <1>0, <1>1 DEF HandledBefore
  <1>2. CASE UNCHANGED flowVars
    BY <1>1, <1>2 DEF flowVars, offsetVars, flowPast
  <1>3. CASE FeatureArrives \/ Deliver
    BY <1>1, <1>3 DEF FeatureArrives, Deliver, offsetVars, flowPast
  <1>4. ASSUME NEW s \in Service,
               \/ Loop(s) \/ PollNothing(s) \/ Shutdown(s) \/ Stopping(s) \/ Crash(s) \/ Start(s)
        PROVE  HandledBefore'
    <2>1. CASE Connect(s)
      BY <2>1, ConnectKeepsHandled
    <2>2. CASE (\E n \in 1 .. MaxBatch : PollBatch(s, n)) \/ PollNothing(s) \/ CloseConsumer(s)
      BY <2>2, CommitKeepsHandled
    <2>3. CASE PassOver \/ PublishClosed \/ Persist \/ Evaluate
      BY <2>3, DoneKeepsHandled
    <2>4. CASE \/ Exit(s) \/ Predict \/ Publish \/ Shutdown(s) \/ JoinThread \/ CloseProducer
               \/ Quit(s) \/ Crash(s) \/ Start(s)
      BY <1>1, <2>4 DEF Exit, Predict, Publish, Shutdown, JoinThread, CloseProducer, Quit, Crash,
                        Start, offsetVars, flowPast
    <2>. QED BY <1>4, <2>1, <2>2, <2>3, <2>4 DEF Loop, Stopping
  <1>. QED BY <1>2, <1>3, <1>4 DEF FlowNext

(* No crash, failure or restart makes a group skip a message: whatever is  *)
(* below its committed offset was handled, unless the group started at the *)
(* end of its topic or a shutdown closed its consumer within a batch.      *)
THEOREM CommittedAlwaysHandled == FlowSpec => []CommittedHandled
  <1>1. FlowInit => HandledBefore
    BY DEF FlowInit, HandledBefore, NoOffset
  <1>2. OffsetInv => CommittedHandled
    <2> SUFFICES ASSUME OffsetInv PROVE CommittedHandled
      OBVIOUS
    <2>1. FlowTypeInv /\ HandledBefore
      BY DEF OffsetInv
    <2>. QED BY <2>1, OffsetsNumbers DEF HandledBefore, CommittedHandled, NoOffset
  <1>3. FlowSpec => []OffsetInv
    BY <1>1, Initially, StepKeepsTypes, StepKeepsHandled, PTL DEF FlowSpec, OffsetInv
  <1>. QED BY <1>2, <1>3, PTL
-------------------------------------------------------------------------------

(* The pipeline alone: each message it may still store has fewer rows than *)
(* there were crashes and failures, whatever it starts again from.         *)
Troubles == crashes + faults

Pending(o) == IF place["inference"] \in {"connect", "down"}
              THEN committed["inference"] <= o ELSE next["inference"] <= o

AllPaid == \A o \in Input : stored[o] <= Troubles

(* A shutdown past join found the loop ended, or a failure paid for going  *)
(* on without it: then what the thread may still store has a row less.     *)
ClosedOrPaid ==
    \/ /\ place["inference"] = "exited"
       /\ \/ closing["inference"] = "consumer" \/ AllPaid
          \/ committed["inference"] = position["inference"]
    \/ /\ AllPaid
       /\ \A o \in Input :
             place["inference"] # "exited" /\ Pending(o) => stored[o] < Troubles

RowsPaid ==
    /\ \A o \in Input : stored[o] <= 1 + Troubles
    /\ \A o \in Input : Pending(o) => stored[o] <= Troubles
    /\ place["inference"] = "exited" => next["inference"] = position["inference"]
    /\ closing["inference"] \in {"consumer", "producer", "leave"} => ClosedOrPaid

RowsInv == FlowTypeInv /\ RowsPaid

LEMMA RowNumbers ==
    ASSUME FlowTypeInv
    PROVE  /\ Troubles \in Nat /\ stored \in [Input -> Nat]
           /\ committed["inference"] \in Nat \cup {NoOffset}
           /\ next["inference"] \in Nat /\ position["inference"] \in Nat
           /\ next["inference"] <= position["inference"]
           /\ position["inference"] <= End("inference")
           /\ committed["inference"] <= position["inference"]
           /\ place["inference"] = "poll" => next["inference"] = position["inference"]
           /\ place["inference"] \in Place /\ closing["inference"] \in Closing
           /\ \A o \in Input : o \in Int /\ o >= 0
  BY LogLength DEF FlowTypeInv, TopicOK, StageOK, OffsetsOK, Troubles, Service, Input

(* Crashes and failures only add up, and one more pays for a row more.     *)
LEMMA StandsKeepRows ==
    ASSUME RowsInv, Troubles' \in Nat, Troubles <= Troubles', stored' = stored,
           place'["inference"] = place["inference"],
           closing'["inference"] = closing["inference"],
           committed'["inference"] = committed["inference"],
           position'["inference"] = position["inference"],
           next'["inference"] = next["inference"]
    PROVE  RowsPaid'
  <1>1. FlowTypeInv /\ RowsPaid
    BY DEF RowsInv
  <1>2. \A o \in Input : stored[o] \in Nat
    BY <1>1, RowNumbers
  <1>3. \A o \in Input : stored'[o] <= 1 + Troubles' /\ (stored[o] <= Troubles => stored'[o] <= Troubles')
                           /\ (stored[o] < Troubles => stored'[o] < Troubles')
    BY <1>1, <1>2, RowNumbers DEF RowsPaid
  <1>4. \A o : Pending(o)' <=> Pending(o)
    BY DEF Pending
  <1>5. AllPaid => AllPaid'
    BY <1>3 DEF AllPaid
  <1>6. ClosedOrPaid => ClosedOrPaid'
    BY <1>3, <1>4, <1>5 DEF ClosedOrPaid
  <1>. QED BY <1>1, <1>3, <1>4, <1>6 DEF RowsPaid

LEMMA SumsGrow ==
    ASSUME NEW a \in Nat, NEW b \in Nat, NEW c \in Nat, NEW d \in Nat, a <= c, b <= d
    PROVE  c + d \in Nat /\ a + b <= c + d
  OBVIOUS

LEMMA TroublesGrow ==
    ASSUME crashes \in Nat, faults \in Nat,
           crashes' = crashes \/ crashes' = crashes + 1, faults' = faults \/ faults' = faults + 1
    PROVE  Troubles' \in Nat /\ Troubles <= Troubles'
  <1>1. crashes' \in Nat /\ faults' \in Nat /\ crashes <= crashes' /\ faults <= faults'
    OBVIOUS
  <1>. QED BY <1>1, SumsGrow DEF Troubles

LEMMA TroublePays ==
    ASSUME RowsInv, Troubles' = Troubles + 1, stored' = stored
    PROVE  AllPaid' /\ \A o \in Input : stored'[o] <= 1 + Troubles'
  <1>1. FlowTypeInv /\ RowsPaid
    BY DEF RowsInv
  <1>. QED BY <1>1, RowNumbers DEF RowsPaid, AllPaid

(* The steps of the other service leave the pipeline alone. *)
LEMMA OthersKeepRows ==
    ASSUME RowsInv, FlowTypeInv',
           \/ FeatureArrives \/ Deliver \/ Evaluate
           \/ \E s \in Service \ {"inference"} :
                 \/ Connect(s) \/ Exit(s) \/ (\E n \in 1 .. MaxBatch : PollBatch(s, n))
                 \/ PollNothing(s) \/ Shutdown(s) \/ CloseConsumer(s) \/ Quit(s)
                 \/ Crash(s) \/ Start(s)
    PROVE  RowsPaid'
  <1>1. FlowTypeInv /\ FlowTypeInv'
    BY DEF RowsInv
  <1>2. stored' = stored /\ crashes' \in {crashes, crashes + 1} /\ faults' \in {faults, faults + 1}
    BY DEF FeatureArrives, Deliver, Evaluate, Connect, Exit, PollBatch, PollNothing, Shutdown,
           CloseConsumer, Quit, Crash, Start, topicVars, budget, Fault
  <1>3. Troubles' \in Nat /\ Troubles <= Troubles'
    <2>1. crashes \in Nat /\ faults \in Nat
      BY <1>1 DEF FlowTypeInv, StageOK
    <2>. QED BY <1>2, <2>1, TroublesGrow
  <1>4. /\ place'["inference"] = place["inference"]
        /\ closing'["inference"] = closing["inference"]
        /\ committed'["inference"] = committed["inference"]
        /\ position'["inference"] = position["inference"]
        /\ next'["inference"] = next["inference"]
    <2>1. CASE FeatureArrives \/ Deliver
      BY <2>1 DEF FeatureArrives, Deliver, offsetVars
    <2>2. CASE Evaluate
      BY <1>1, <2>2 DEF Evaluate, Advance, To, FlowTypeInv, StageOK, OffsetsOK, Service
    <2>3. ASSUME NEW s \in Service \ {"inference"},
                 \/ Connect(s) \/ Exit(s) \/ (\E n \in 1 .. MaxBatch : PollBatch(s, n))
                 \/ PollNothing(s) \/ Shutdown(s) \/ CloseConsumer(s) \/ Quit(s)
                 \/ Crash(s) \/ Start(s)
          PROVE  /\ place'["inference"] = place["inference"]
                 /\ closing'["inference"] = closing["inference"]
                 /\ committed'["inference"] = committed["inference"]
                 /\ position'["inference"] = position["inference"]
                 /\ next'["inference"] = next["inference"]
      BY <1>1, <2>3 DEF Connect, Exit, PollBatch, PollNothing, Shutdown, CloseConsumer, Quit,
                        Crash, Start, To, offsetVars, FlowTypeInv, StageOK, OffsetsOK, Service
    <2>. QED BY <2>1, <2>2, <2>3
  <1>. QED BY <1>2, <1>3, <1>4, StandsKeepRows
(* Where the pipeline starts from is not before what was committed. *)
LEMMA ConnectKeepsRows ==
    ASSUME RowsInv, FlowTypeInv', Connect("inference")
    PROVE  RowsPaid'
  <1>1. FlowTypeInv /\ RowsPaid
    BY DEF RowsInv
  <1> DEFINE from == IF committed["inference"] = NoOffset THEN End("inference")
                                                         ELSE committed["inference"]
  <1>2. /\ next'["inference"] = from /\ position'["inference"] = from
        /\ place["inference"] = "connect" /\ place'["inference"] = "poll"
        /\ closing' = closing /\ committed' = committed /\ stored' = stored /\ crashes' = crashes
    BY <1>1 DEF Connect, To, Service, FlowTypeInv, StageOK, OffsetsOK, topicVars
  <1>3. committed["inference"] <= from /\ from \in Nat
    BY <1>1, RowNumbers DEF NoOffset, FlowTypeInv, TopicOK, End
  <1>. HIDE DEF from
  <1>4. \A o \in Input : Pending(o)' => Pending(o)
    BY <1>1, <1>2, <1>3, RowNumbers DEF Pending, NoOffset
  <1>5. faults' \in {faults, faults + 1} /\ crashes \in Nat /\ faults \in Nat
    BY <1>1 DEF Connect, Fault, FlowTypeInv, StageOK
  <1>6. Troubles' \in Nat /\ Troubles <= Troubles'
    BY <1>2, <1>5, TroublesGrow
  <1>7. \A o \in Input : /\ stored'[o] <= 1 + Troubles'
                         /\ stored[o] <= Troubles => stored'[o] <= Troubles'
                         /\ stored[o] < Troubles => stored'[o] < Troubles'
    BY <1>1, <1>2, <1>6, RowNumbers DEF RowsPaid
  <1>8. ClosedOrPaid => ClosedOrPaid'
    BY <1>2, <1>4, <1>7 DEF ClosedOrPaid, AllPaid
  <1>. QED BY <1>1, <1>2, <1>4, <1>7, <1>8 DEF RowsPaid

(* Polls, the exit of the loop, and the steps of a message without a row. *)
LEMMA LoopKeepsRows ==
    ASSUME RowsInv, FlowTypeInv',
           \/ Exit("inference") \/ (\E n \in 1 .. MaxBatch : PollBatch("inference", n))
           \/ PollNothing("inference") \/ PassOver \/ Predict \/ Publish \/ PublishClosed
    PROVE  RowsPaid'
  <1>1. FlowTypeInv /\ RowsPaid
    BY DEF RowsInv
  <1>2. /\ place["inference"] \in {"poll", "handle", "publish"}
        /\ place'["inference"] \in {"poll", "handle", "publish", "persist", "exited"}
        /\ closing' = closing /\ stored' = stored /\ crashes' = crashes
        /\ next["inference"] <= next'["inference"]
        /\ place'["inference"] = "exited" => next'["inference"] = position'["inference"]
    <2>1. CASE Exit("inference")
      BY <1>1, <2>1, RowNumbers
         DEF Exit, To, topicVars, offsetVars, budget, Service, FlowTypeInv, StageOK
    <2>2. CASE PollNothing("inference") \/ \E n \in 1 .. MaxBatch : PollBatch("inference", n)
      BY <1>1, <2>2, RowNumbers
         DEF PollBatch, PollNothing, To, topicVars, budget, Service, FlowTypeInv, StageOK
    <2>3. CASE PassOver \/ PublishClosed
      <3>1. /\ next'["inference"] = next["inference"] + 1
            /\ place'["inference"] \in {"poll", "handle"}
        BY <1>1, <2>3 DEF PassOver, PublishClosed, Advance, To, Service, FlowTypeInv, StageOK, OffsetsOK
      <3>. QED BY <1>1, <2>3, <3>1, RowNumbers DEF PassOver, PublishClosed, topicVars, budget
    <2>4. CASE Predict \/ Publish
      BY <1>1, <2>4, RowNumbers
         DEF Predict, Publish, To, topicVars, offsetVars, budget, Service, FlowTypeInv, StageOK
    <2>. QED BY <2>1, <2>2, <2>3, <2>4
  <1>3. closing["inference"] # "no" => ~ \E n \in 1 .. MaxBatch : PollBatch("inference", n)
    BY DEF PollBatch, Open
  <1>4. \A o \in Input : Pending(o)' => Pending(o)
    BY <1>1, <1>2, RowNumbers DEF Pending, FlowTypeInv, OffsetsOK, Service
  <1>5. faults' \in {faults, faults + 1} /\ crashes \in Nat /\ faults \in Nat
    BY <1>1 DEF Exit, PollBatch, PollNothing, PassOver, Predict, Publish, PublishClosed, Fault,
                budget, FlowTypeInv, StageOK
  <1>6. Troubles' \in Nat /\ Troubles <= Troubles'
    BY <1>2, <1>5, TroublesGrow
  <1>7. \A o \in Input : /\ stored'[o] <= 1 + Troubles'
                         /\ stored[o] <= Troubles => stored'[o] <= Troubles'
                         /\ stored[o] < Troubles => stored'[o] < Troubles'
    BY <1>1, <1>2, <1>6, RowNumbers DEF RowsPaid
  <1>8. ClosedOrPaid => ClosedOrPaid'
    BY <1>2, <1>4, <1>7 DEF ClosedOrPaid, AllPaid
  <1>. QED BY <1>1, <1>2, <1>4, <1>7, <1>8 DEF RowsPaid

(* A row more for the message at hand, which is not pending afterwards. *)
LEMMA PersistKeepsRows ==
    ASSUME RowsInv, FlowTypeInv', Persist
    PROVE  RowsPaid'
  <1>1. FlowTypeInv /\ RowsPaid
    BY DEF RowsInv
  <1> DEFINE this == next["inference"]
  <1>2. /\ place["inference"] = "persist" /\ place'["inference"] \in {"poll", "handle"}
        /\ next'["inference"] = this + 1
        /\ closing' = closing /\ crashes' = crashes
    BY <1>1 DEF Persist, Advance, To, Service, FlowTypeInv, StageOK, OffsetsOK
  <1>3. faults' \in {faults, faults + 1} /\ crashes \in Nat /\ faults \in Nat
    BY <1>1 DEF Persist, Fault, FlowTypeInv, StageOK
  <1>4. Troubles' \in Nat /\ Troubles <= Troubles'
    BY <1>2, <1>3, TroublesGrow
  <1>5. \A o \in Input : /\ o # this => stored'[o] = stored[o]
                         /\ stored'[o] <= stored[o] + 1
    <2>1. stored' = [stored EXCEPT ![this] = @ + 1] \/ stored' = stored
      BY DEF Persist
    <2>. QED BY <1>1, <2>1, RowNumbers
  <1>6. this \in Nat
    BY <1>1, RowNumbers
  <1>. HIDE DEF this
  <1>7. \A o \in Input : Pending(o)' => o # this /\ Pending(o)
    BY <1>1, <1>2, <1>6, RowNumbers DEF Pending, this
  <1>8. this \in Input => Pending(this)
    BY <1>2, <1>6 DEF Pending, this
  <1>9. \A o \in Input : stored[o] \in Nat /\ stored'[o] \in Nat
    BY <1>1, RowNumbers DEF FlowTypeInv, TopicOK
  <1>10. \A o \in Input : stored[o] <= 1 + Troubles /\ (Pending(o) => stored[o] <= Troubles)
    BY <1>1 DEF RowsPaid
  <1>11. \A o \in Input : stored'[o] <= 1 + Troubles'
    BY <1>1, <1>4, <1>5, <1>8, <1>9, <1>10, RowNumbers
  <1>12. \A o \in Input : Pending(o)' => stored'[o] <= Troubles'
    BY <1>1, <1>4, <1>5, <1>7, <1>9, <1>10, RowNumbers
  <1>13. ClosedOrPaid => ClosedOrPaid'
    <2>1. ASSUME ClosedOrPaid
          PROVE  /\ \A o \in Input : stored[o] <= Troubles
                 /\ \A o \in Input : Pending(o) => stored[o] < Troubles
      BY <1>2, <2>1 DEF ClosedOrPaid, AllPaid
    <2>2. ASSUME ClosedOrPaid
          PROVE  /\ \A o \in Input : stored'[o] <= Troubles'
                 /\ \A o \in Input : Pending(o)' => stored'[o] < Troubles'
      BY <1>1, <1>4, <1>5, <1>7, <1>8, <1>9, <2>1, <2>2, RowNumbers
    <2>. QED BY <2>2 DEF ClosedOrPaid, AllPaid
  <1>. QED BY <1>1, <1>2, <1>11, <1>12, <1>13 DEF RowsPaid

(* The steps of a shutdown. *)
LEMMA StoppingKeepsRows ==
    ASSUME RowsInv, FlowTypeInv',
           Shutdown("inference") \/ JoinThread \/ CloseConsumer("inference") \/ CloseProducer
    PROVE  RowsPaid'
  <1>1. FlowTypeInv /\ RowsPaid
    BY DEF RowsInv
  <1>2. UNCHANGED <<stored, next, position, place, crashes>>
    BY DEF Shutdown, JoinThread, CloseConsumer, CloseProducer, topicVars, offsetVars
  <1>3. faults' \in {faults, faults + 1} /\ crashes \in Nat /\ faults \in Nat
    BY <1>1 DEF Shutdown, JoinThread, CloseConsumer, CloseProducer, Fault, FlowTypeInv, StageOK
  <1>4. Troubles' \in Nat /\ Troubles <= Troubles'
    BY <1>2, <1>3, TroublesGrow
  <1>5. \A o \in Input : /\ stored'[o] <= 1 + Troubles'
                         /\ stored[o] <= Troubles => stored'[o] <= Troubles'
                         /\ stored[o] < Troubles => stored'[o] < Troubles'
    BY <1>1, <1>2, <1>4, RowNumbers DEF RowsPaid
  <1>6. committed'["inference"] = committed["inference"]
        \/ (place["inference"] # "connect" /\ committed'["inference"] = position["inference"])
    BY <1>1 DEF Shutdown, JoinThread, CloseConsumer, CloseProducer, offsetVars, FlowTypeInv,
                OffsetsOK, Service
  <1>7. \A o \in Input : Pending(o)' => Pending(o)
    BY <1>1, <1>2, <1>6, RowNumbers DEF Pending, NoOffset
  <1>8. closing'["inference"] \in {"consumer", "producer", "leave"} => ClosedOrPaid'
    <2>1. CASE Shutdown("inference")
      <3>1. closing'["inference"] = "join"
        BY <1>1, <2>1 DEF Shutdown, FlowTypeInv, StageOK, Service
      <3>. QED BY <3>1
    <2>2. CASE JoinThread
      <3>1. closing'["inference"] = "consumer"
        BY <1>1, <2>2 DEF JoinThread, FlowTypeInv, StageOK, Service
      <3>2. CASE place["inference"] = "exited"
        BY <1>2, <3>1, <3>2 DEF ClosedOrPaid
      <3>3. CASE place["inference"] # "exited"
        <4>1. faults' = faults + 1
          BY <2>2, <3>3 DEF JoinThread, Fault
        <4>2. Troubles' = Troubles + 1
          BY <1>2, <1>3, <4>1 DEF Troubles
        <4>3. AllPaid'
          BY <1>2, <4>2, TroublePays
        <4>4. \A o \in Input : Pending(o)' => stored'[o] < Troubles'
          <5>1. \A o \in Input : Pending(o) => stored[o] <= Troubles
            BY <1>1 DEF RowsPaid
          <5>. QED BY <1>1, <1>2, <1>7, <4>2, <5>1, RowNumbers
        <4>. QED BY <4>3, <4>4 DEF ClosedOrPaid
      <3>. QED BY <3>2, <3>3
    <2>3. CASE CloseConsumer("inference")
      <3>1. closing["inference"] = "consumer" /\ ClosedOrPaid
        BY <1>1, <2>3 DEF CloseConsumer, RowsPaid
      <3>2. CASE faults' = faults
        <4>1. place["inference"] = "exited" => committed'["inference"] = position["inference"]
          <5>1. CASE UNCHANGED <<committed, cut>> /\ Fault
            BY <1>3, <3>2, <5>1 DEF Fault
          <5>2. CASE committed' = [committed EXCEPT !["inference"] =
                         IF place["inference"] = "connect" THEN @ ELSE position["inference"]]
            BY <1>1, <5>2 DEF FlowTypeInv, OffsetsOK, Service
          <5>. QED BY <2>3, <5>1, <5>2 DEF CloseConsumer
        <4>. QED BY <1>2, <1>5, <1>7, <3>1, <4>1 DEF ClosedOrPaid, AllPaid
      <3>3. CASE faults' = faults + 1
        <4>1. Troubles' = Troubles + 1
          BY <1>2, <1>3, <3>3 DEF Troubles
        <4>2. AllPaid'
          BY <1>2, <4>1, TroublePays
        <4>. QED BY <1>2, <1>5, <1>7, <3>1, <4>2 DEF ClosedOrPaid, AllPaid
      <3>. QED BY <1>3, <3>2, <3>3
    <2>4. CASE CloseProducer
      <3>1. closing["inference"] = "producer" /\ ClosedOrPaid /\ committed' = committed
        BY <1>1, <2>4 DEF CloseProducer, RowsPaid, offsetVars
      <3>. QED BY <1>2, <1>5, <1>7, <3>1 DEF ClosedOrPaid, AllPaid
    <2>. QED BY <2>1, <2>2, <2>3, <2>4
  <1>. QED BY <1>1, <1>2, <1>5, <1>7, <1>8 DEF RowsPaid

(* The end of a process: after a clean stop all is committed, and a crash  *)
(* pays for what is stored again.                                          *)
LEMMA DownKeepsRows ==
    ASSUME RowsInv, FlowTypeInv',
           Quit("inference") \/ Crash("inference") \/ Start("inference")
    PROVE  RowsPaid'
  <1>1. FlowTypeInv /\ RowsPaid
    BY DEF RowsInv
  <1>2. stored' = stored /\ committed' = committed /\ next' = next /\ position' = position
        /\ faults' = faults
    BY DEF Quit, Crash, Start, topicVars, offsetVars, budget
  <1>3. CASE Quit("inference")
    <2>1. /\ closing["inference"] = "leave" /\ closing'["inference"] = "no"
          /\ place'["inference"] = "down" /\ crashes' = crashes /\ place["inference"] # "down"
      BY <1>1, <1>3 DEF Quit, Up, To, budget, Service, FlowTypeInv, StageOK
    <2>2. ClosedOrPaid /\ Troubles' = Troubles
      BY <1>1, <1>2, <2>1 DEF RowsPaid, Troubles
    <2>3. \A o \in Input : Pending(o)' => stored[o] <= Troubles
      <3>1. CASE AllPaid
        BY <3>1 DEF AllPaid
      <3>2. CASE place["inference"] = "exited" /\ committed["inference"] = position["inference"]
        BY <1>1, <1>2, <2>1, <3>2 DEF Pending, RowsPaid
      <3>. QED BY <2>1, <2>2, <3>1, <3>2 DEF ClosedOrPaid
    <2>. QED BY <1>1, <1>2, <2>1, <2>2, <2>3 DEF RowsPaid
  <1>4. CASE Crash("inference")
    <2>1. closing'["inference"] = "no" /\ place'["inference"] = "down" /\ crashes' = crashes + 1
      BY <1>1, <1>4 DEF Crash, To, Service, FlowTypeInv, StageOK
    <2>2. Troubles' = Troubles + 1
      BY <1>1, <1>2, <2>1 DEF Troubles, FlowTypeInv, StageOK
    <2>3. AllPaid' /\ \A o \in Input : stored'[o] <= 1 + Troubles'
      BY <1>2, <2>2, TroublePays
    <2>. QED BY <2>1, <2>3 DEF RowsPaid, AllPaid
  <1>5. CASE Start("inference")
    <2>1. /\ closing' = closing /\ crashes' = crashes
          /\ place["inference"] = "down" /\ place'["inference"] = "connect"
      BY <1>1, <1>5 DEF Start, Up, To, budget, Service, FlowTypeInv, StageOK
    <2>2. Troubles' = Troubles /\ \A o : Pending(o)' <=> Pending(o)
      BY <1>2, <2>1 DEF Troubles, Pending
    <2>3. ClosedOrPaid => ClosedOrPaid'
      BY <1>2, <2>1, <2>2 DEF ClosedOrPaid, AllPaid
    <2>. QED BY <1>1, <1>2, <2>1, <2>2, <2>3 DEF RowsPaid
  <1>. QED BY <1>3, <1>4, <1>5

LEMMA StepKeepsRows == RowsInv /\ [FlowNext]_flowVars => RowsPaid'
  <1> SUFFICES ASSUME RowsInv, [FlowNext]_flowVars PROVE RowsPaid'
    OBVIOUS
  <1>0. FlowTypeInv /\ RowsPaid /\ FlowTypeInv'
    BY StepKeepsTypes DEF RowsInv
  <1>1. CASE UNCHANGED flowVars
    BY <1>0, <1>1 DEF flowVars, topicVars, offsetVars, budget, RowsPaid, ClosedOrPaid, AllPaid,
                      Pending, Troubles
  <1>2. CASE FeatureArrives \/ Deliver
    BY <1>0, <1>2, OthersKeepRows
  <1>3. ASSUME NEW s \in Service,
               \/ Loop(s) \/ PollNothing(s) \/ Shutdown(s) \/ Stopping(s) \/ Crash(s) \/ Start(s)
        PROVE  RowsPaid'
    <2>1. CASE s # "inference"
      BY <1>0, <1>3, <2>1, OthersKeepRows DEF Loop, Stopping
    <2>2. CASE s = "inference"
      <3>1. \/ Connect("inference")
            \/ \/ Exit("inference") \/ (\E n \in 1 .. MaxBatch : PollBatch("inference", n))
               \/ PollNothing("inference") \/ PassOver \/ Predict \/ Publish \/ PublishClosed
            \/ Persist
            \/ Shutdown("inference") \/ JoinThread \/ CloseConsumer("inference") \/ CloseProducer
            \/ Quit("inference") \/ Crash("inference") \/ Start("inference")
        BY <1>3, <2>2 DEF Loop, Stopping
      <3>. QED BY <1>0, <3>1, ConnectKeepsRows, LoopKeepsRows, PersistKeepsRows,
                  StoppingKeepsRows, DownKeepsRows
    <2>. QED BY <2>1, <2>2
  <1>. QED BY <1>1, <1>2, <1>3 DEF FlowNext

(* A clean restart stores nothing again: every row of a message beyond its *)
(* first was paid for by a crash or a failed call.                         *)
THEOREM RowsAlwaysNeedCrash == FlowSpec => []RowsNeedCrash
  <1>1. FlowInit => RowsPaid
    BY DEF FlowInit, RowsPaid, Troubles, Service
  <1>2. RowsInv => RowsNeedCrash
    <2> SUFFICES ASSUME RowsInv PROVE RowsNeedCrash
      OBVIOUS
    <2>1. FlowTypeInv /\ \A o \in Input : stored[o] <= 1 + Troubles
      BY DEF RowsInv, RowsPaid
    <2>2. crashes \in Nat /\ faults \in Nat
      BY <2>1 DEF FlowTypeInv, StageOK
    <2>. QED BY <2>1, <2>2 DEF RowsNeedCrash, Troubles
  <1>3. FlowSpec => []RowsInv
    BY <1>1, Initially, StepKeepsTypes, StepKeepsRows, PTL DEF FlowSpec, RowsInv
  <1>. QED BY <1>2, <1>3, PTL
-------------------------------------------------------------------------------

(* Nothing crashed and no call failed: the pipeline has all its clients    *)
(* while it works, a shutdown waits for the loop, and a message about to   *)
(* be stored was published.                                                *)
Calm == crashes = 0 /\ faults = 0

Published == ToSet(predicted) \cup ToSet(outbox)

Equipped ==
    /\ place["inference"] \in {"poll", "handle", "publish", "persist"}
           => clients = {"producer", "pool"}
    /\ closing["inference"] \in {"consumer", "producer", "leave"}
           => place["inference"] = "exited"

Matched ==
    /\ place["inference"] = "persist" => next["inference"] \in Published
    /\ \A o \in Input :
          \/ stored[o] > 0 <=> o \in Published
          \/ place["inference"] = "persist" /\ next["inference"] = o

CalmInv == FlowTypeInv /\ (Calm => Equipped /\ Matched)

LEMMA AppendAdds ==
    ASSUME NEW S, NEW seq \in Seq(S), NEW e \in S
    PROVE  ToSet(Append(seq, e)) = ToSet(seq) \cup {e}
  <1>1. /\ DOMAIN Append(seq, e) = 1 .. Len(seq) + 1 /\ DOMAIN seq = 1 .. Len(seq)
        /\ \A i \in 1 .. Len(seq) : Append(seq, e)[i] = seq[i]
        /\ Append(seq, e)[Len(seq) + 1] = e
        /\ Len(seq) \in Nat
    OBVIOUS
  <1>2. 1 .. Len(seq) + 1 = (1 .. Len(seq)) \cup {Len(seq) + 1}
    BY <1>1
  <1>. QED BY <1>1, <1>2 DEF ToSet

LEMMA HeadAndTail ==
    ASSUME NEW S, NEW seq \in Seq(S), seq # <<>>
    PROVE  ToSet(seq) = {Head(seq)} \cup ToSet(Tail(seq))
  <1>1. /\ Len(seq) \in Nat \ {0} /\ DOMAIN seq = 1 .. Len(seq)
        /\ DOMAIN Tail(seq) = 1 .. Len(seq) - 1 /\ Head(seq) = seq[1]
        /\ \A i \in 1 .. Len(seq) - 1 : Tail(seq)[i] = seq[i + 1]
    OBVIOUS
  <1>2. ASSUME NEW i \in 1 .. Len(seq)
        PROVE  seq[i] \in {Head(seq)} \cup ToSet(Tail(seq))
    <2>1. CASE i = 1
      BY <1>1, <2>1
    <2>2. CASE i # 1
      <3>1. i - 1 \in 1 .. Len(seq) - 1 /\ Tail(seq)[i - 1] = seq[i]
        BY <1>1, <2>2
      <3>. QED BY <1>1, <3>1 DEF ToSet
    <2>. QED BY <2>1, <2>2
  <1>3. \A i \in 1 .. Len(seq) - 1 : i + 1 \in 1 .. Len(seq)
    BY <1>1
  <1>4. \A x \in {Head(seq)} \cup ToSet(Tail(seq)) : x \in ToSet(seq)
    BY <1>1, <1>3 DEF ToSet
  <1>5. \A x \in ToSet(seq) : x \in {Head(seq)} \cup ToSet(Tail(seq))
    BY <1>1, <1>2 DEF ToSet
  <1>. QED BY <1>4, <1>5

(* A calm step leaves a calm state behind it. *)
LEMMA CalmBefore ==
    ASSUME FlowTypeInv, [FlowNext]_flowVars, Calm'
    PROVE  Calm /\ crashes' = crashes /\ faults' = faults
  <1>1. crashes' \in {crashes, crashes + 1} /\ faults' \in {faults, faults + 1}
    BY DEF FlowNext, Loop, Stopping, FeatureArrives, Deliver, Connect, Exit, PollBatch, PollNothing,
           PassOver, Predict, Publish, PublishClosed, Persist, Evaluate, Shutdown, JoinThread,
           CloseConsumer, CloseProducer, Quit, Crash, Start, Fault, budget, flowVars
  <1>2. crashes \in Nat /\ faults \in Nat
    BY DEF FlowTypeInv, StageOK
  <1>. QED BY <1>1, <1>2 DEF Calm

(* What a calm step cannot be. *)
LEMMA FaultsDisturb ==
    ASSUME FlowTypeInv, faults' = faults, crashes' = crashes
    PROVE  ~Fault /\ \A s \in Service : ~Crash(s)
  BY DEF FlowTypeInv, StageOK, Fault, Crash

LEMMA StepKeepsEquipped ==
    ASSUME CalmInv, [FlowNext]_flowVars, Calm'
    PROVE  Equipped'
  <1>0. FlowTypeInv /\ Calm /\ Equipped /\ crashes' = crashes /\ faults' = faults
    BY CalmBefore DEF CalmInv
  <1>1. ~Fault /\ \A s \in Service : ~Crash(s)
    BY <1>0, FaultsDisturb
  <1>2. place \in [Service -> Place] /\ closing \in [Service -> Closing]
    BY <1>0 DEF FlowTypeInv, StageOK
  <1>3. CASE UNCHANGED <<place, closing, clients>>
    BY <1>0, <1>3 DEF Equipped
  <1>4. CASE UNCHANGED flowVars
    BY <1>3, <1>4 DEF flowVars
  <1>5. CASE FeatureArrives \/ Deliver
    BY <1>3, <1>5 DEF FeatureArrives, Deliver
  <1>6. ASSUME NEW s \in Service,
               \/ Loop(s) \/ PollNothing(s) \/ Shutdown(s) \/ Stopping(s) \/ Start(s)
        PROVE  Equipped'
    <2>1. CASE Connect(s)
      BY <1>0, <1>1, <1>2, <2>1 DEF Connect, To, Equipped, Service
    <2>2. CASE \/ Exit(s) \/ (\E n \in 1 .. MaxBatch : PollBatch(s, n)) \/ PollNothing(s)
               \/ Predict \/ Publish \/ Start(s)
      BY <1>0, <1>2, <2>2 DEF Exit, PollBatch, PollNothing, Predict, Publish, Start, Up, To,
                              Equipped, Service
    <2>3. CASE PassOver \/ PublishClosed \/ Persist \/ Evaluate
      BY <1>0, <1>2, <2>3 DEF PassOver, PublishClosed, Persist, Evaluate, Advance, To, Equipped, Service
    <2>4. CASE Shutdown(s) \/ JoinThread \/ CloseConsumer(s) \/ CloseProducer
      BY <1>0, <1>1, <1>2, <2>4 DEF Shutdown, JoinThread, CloseConsumer, CloseProducer, Equipped, Service
    <2>5. CASE Quit(s)
      BY <1>0, <1>2, <2>5 DEF Quit, To, Equipped, Service
    <2>. QED BY <1>6, <2>1, <2>2, <2>3, <2>4, <2>5 DEF Loop, Stopping
  <1>. QED BY <1>1, <1>4, <1>5, <1>6 DEF FlowNext

LEMMA StepKeepsMatched ==
    ASSUME CalmInv, [FlowNext]_flowVars, Calm'
    PROVE  Matched'
  <1>0. FlowTypeInv /\ Calm /\ Equipped /\ Matched /\ crashes' = crashes /\ faults' = faults
    BY CalmBefore DEF CalmInv
  <1>1. ~Fault /\ \A s \in Service : ~Crash(s)
    BY <1>0, FaultsDisturb
  <1>2. /\ place \in [Service -> Place] /\ closing \in [Service -> Closing]
        /\ next \in [Service -> Nat] /\ stored \in [Input -> Nat]
        /\ predicted \in Seq(Input) /\ outbox \in Seq(Input)
    BY <1>0 DEF FlowTypeInv, StageOK, OffsetsOK, TopicOK
  <1>3. ASSUME UNCHANGED stored, Published' = Published,
               place["inference"] # "persist", place'["inference"] # "persist"
        PROVE  Matched'
    BY <1>0, <1>3 DEF Matched
  <1>4. ASSUME UNCHANGED stored, Published' = Published,
               place'["inference"] = place["inference"], next'["inference"] = next["inference"]
        PROVE  Matched'
    BY <1>0, <1>4 DEF Matched
  <1>5. CASE UNCHANGED flowVars
    BY <1>4, <1>5 DEF flowVars, topicVars, offsetVars, Published
  <1>6. CASE FeatureArrives
    BY <1>4, <1>6 DEF FeatureArrives, offsetVars, Published
  <1>7. CASE Deliver
    <2>1. outbox # <<>> /\ predicted' = Append(predicted, Head(outbox)) /\ outbox' = Tail(outbox)
      BY <1>1, <1>7 DEF Deliver
    <2>2. Head(outbox) \in Input
      BY <1>2, <2>1
    <2>3. /\ ToSet(predicted') = ToSet(predicted) \cup {Head(outbox)}
          /\ ToSet(outbox) = {Head(outbox)} \cup ToSet(outbox')
      BY <1>2, <2>1, <2>2, AppendAdds, HeadAndTail
    <2>4. Published' = Published
      BY <2>3 DEF Published
    <2>. QED BY <1>4, <1>7, <2>4 DEF Deliver, offsetVars
  <1>8. ASSUME NEW s \in Service,
               \/ Loop(s) \/ PollNothing(s) \/ Shutdown(s) \/ Stopping(s) \/ Start(s)
        PROVE  Matched'
    <2>1. CASE /\ s = "alerts"
               /\ \/ Connect(s) \/ Exit(s) \/ (\E n \in 1 .. MaxBatch : PollBatch(s, n)) \/ Evaluate
                  \/ PollNothing(s) \/ Shutdown(s) \/ CloseConsumer(s) \/ Quit(s) \/ Start(s)
      <3>1. UNCHANGED <<stored, predicted, outbox>>
        BY <2>1 DEF Connect, Exit, PollBatch, Evaluate, PollNothing, Shutdown, CloseConsumer, Quit,
                    Start, topicVars
      <3>2. place'["inference"] = place["inference"] /\ next'["inference"] = next["inference"]
        BY <1>2, <2>1 DEF Connect, Exit, PollBatch, Evaluate, Advance, PollNothing, Shutdown,
                          CloseConsumer, Quit, Start, To, offsetVars, Service
      <3>. QED BY <1>4, <3>1, <3>2 DEF Published
    <2>2. CASE /\ s = "inference"
               /\ \/ Connect(s) \/ Exit(s) \/ (\E n \in 1 .. MaxBatch : PollBatch(s, n)) \/ PollNothing(s)
                  \/ PassOver \/ Predict \/ Quit(s) \/ Start(s)
      <3>1. UNCHANGED <<stored, predicted, outbox>>
        BY <2>2 DEF Connect, Exit, PollBatch, PassOver, Predict, PollNothing, Quit, Start, topicVars
      <3>2. place'["inference"] # "persist" /\ place["inference"] # "persist"
        BY <1>0, <1>2, <2>2
           DEF Connect, Exit, PollBatch, PassOver, Predict, Advance, PollNothing, Quit,
               Start, Up, To, Service, Equipped
      <3>. QED BY <1>3, <3>1, <3>2 DEF Published
    <2>3. CASE Publish
      <3>1. place["inference"] = "publish" /\ place'["inference"] = "persist" /\ next' = next
            /\ stored' = stored /\ predicted' = predicted
        BY <1>2, <2>3 DEF Publish, To, offsetVars, Service
      <3>2. outbox' = Append(outbox, next["inference"])
        BY <1>0, <1>1, <2>3, <3>1 DEF Publish, Equipped
      <3>3. next["inference"] \in Input
        BY <1>0, <3>1, LogLength DEF FlowTypeInv, TopicOK, OffsetsOK, End, Service, Input
      <3>4. Published' = Published \cup {next["inference"]}
        BY <1>2, <3>1, <3>2, <3>3, AppendAdds DEF Published
      <3>. QED BY <1>0, <3>1, <3>4 DEF Matched
    <2>4. CASE PublishClosed
      BY <1>0, <2>4 DEF PublishClosed, ClientsOpen, Equipped
    <2>5. CASE Persist
      <3> DEFINE this == next["inference"]
      <3>1. place["inference"] = "persist" /\ place'["inference"] # "persist"
            /\ predicted' = predicted /\ outbox' = outbox
        BY <1>2, <2>5 DEF Persist, Advance, To, Service
      <3>2. stored' = [stored EXCEPT ![this] = @ + 1]
        BY <1>0, <1>1, <2>5, <3>1 DEF Persist, ClientsOpen, Equipped
      <3>3. this \in Published /\ \A o \in Input \ {this} : stored[o] > 0 <=> o \in Published
        BY <1>0, <3>1 DEF Matched
      <3>. HIDE DEF this
      <3>4. /\ \A o \in Input \ {this} : stored'[o] = stored[o]
            /\ this \in Input => stored'[this] > 0
        BY <1>2, <3>2
      <3>. QED BY <3>1, <3>3, <3>4 DEF Matched, Published
    <2>6. CASE /\ s = "inference"
               /\ Shutdown(s) \/ JoinThread \/ CloseConsumer(s) \/ CloseProducer
      <3>1. UNCHANGED <<stored, predicted, outbox, place, next>>
        BY <1>1, <2>6 DEF Shutdown, JoinThread, CloseConsumer, CloseProducer, topicVars, offsetVars
      <3>. QED BY <1>4, <3>1 DEF Published
    <2>. QED BY <1>8, <2>1, <2>2, <2>3, <2>4, <2>5, <2>6 DEF Loop, Stopping, Service
  <1>. QED BY <1>1, <1>5, <1>6, <1>7, <1>8 DEF FlowNext

(* As long as nothing crashed and no call failed, the table and the topic  *)
(* tell of the same predictions, but for the one between the two.          *)
THEOREM StoredAlwaysPublished == FlowSpec => []StoredArePublished
  <1>1. FlowInit => Equipped /\ Matched
    BY DEF FlowInit, Equipped, Matched, Published, ToSet, Service
  <1>2. CalmInv => StoredArePublished
    BY DEF CalmInv, Calm, Matched, Published, StoredArePublished
  <1>3. CalmInv /\ [FlowNext]_flowVars => CalmInv'
    BY StepKeepsTypes, StepKeepsEquipped, StepKeepsMatched DEF CalmInv
  <1>4. FlowInit => CalmInv
    BY <1>1, Initially DEF CalmInv
  <1>. QED BY <1>2, <1>3, <1>4, PTL DEF FlowSpec
-------------------------------------------------------------------------------

(* With the engine the API makes no message gets past "handle". *)
NothingPredicted ==
    ~Scales => /\ place["inference"] \notin {"publish", "persist"}
               /\ outbox = <<>> /\ predicted = <<>> /\ \A o \in Input : stored[o] = 0

LEMMA StepKeepsSilence ==
    ASSUME FlowTypeInv, NothingPredicted, [FlowNext]_flowVars
    PROVE  NothingPredicted'
  <1> SUFFICES ASSUME ~Scales
               PROVE  /\ place'["inference"] \notin {"publish", "persist"}
                      /\ outbox' = <<>> /\ predicted' = <<>> /\ stored' = stored
    BY DEF NothingPredicted, Scales
  <1>0. /\ place["inference"] \notin {"publish", "persist"} /\ outbox = <<>> /\ predicted = <<>>
        /\ place \in [Service -> Place]
    BY DEF NothingPredicted, FlowTypeInv, StageOK
  <1>1. CASE UNCHANGED flowVars \/ FeatureArrives \/ Deliver
    BY <1>0, <1>1 DEF flowVars, topicVars, FeatureArrives, Deliver
  <1>2. ASSUME NEW s \in Service,
               \/ Loop(s) \/ PollNothing(s) \/ Shutdown(s) \/ Stopping(s) \/ Crash(s) \/ Start(s)
        PROVE  /\ place'["inference"] \notin {"publish", "persist"}
               /\ outbox' = <<>> /\ predicted' = <<>> /\ stored' = stored
    <2>1. CASE Connect(s) \/ Exit(s) \/ (\E n \in 1 .. MaxBatch : PollBatch(s, n)) \/ PollNothing(s)
      BY <1>0, <2>1 DEF Connect, Exit, PollBatch, PollNothing, To, topicVars, Service
    <2>2. CASE PassOver \/ Evaluate
      BY <1>0, <2>2 DEF PassOver, Evaluate, Advance, To, topicVars, Service
    <2>3. CASE Predict \/ Publish \/ PublishClosed \/ Persist
      BY <1>0, <2>3 DEF Predict, Publish, PublishClosed, Persist
    <2>4. CASE Shutdown(s) \/ JoinThread \/ CloseConsumer(s) \/ CloseProducer
      BY <1>0, <2>4 DEF Shutdown, JoinThread, CloseConsumer, CloseProducer, topicVars
    <2>5. CASE Quit(s) \/ Crash(s) \/ Start(s)
      BY <1>0, <2>5 DEF Quit, Crash, Start, To, topicVars, Service
    <2>. QED BY <1>2, <2>1, <2>2, <2>3, <2>4, <2>5 DEF Loop, Stopping
  <1>. QED BY <1>1, <1>2 DEF FlowNext

(* As shipped, the pipeline publishes and stores no prediction at all: the *)
(* scaler of its engine is never fitted.                                   *)
THEOREM ShippedFlowSilent == FlowSpec => []ShippedFlowPredictsNothing
  <1>1. FlowInit => NothingPredicted
    BY DEF FlowInit, NothingPredicted, Service
  <1>2. NothingPredicted => ShippedFlowPredictsNothing
    BY DEF NothingPredicted, ShippedFlowPredictsNothing, Scales
  <1>. QED BY <1>1, <1>2, Initially, StepKeepsTypes, StepKeepsSilence, PTL DEF FlowSpec
===============================================================================
