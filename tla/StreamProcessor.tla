---------------------------- MODULE StreamProcessor ----------------------------
(***************************************************************************)
(* StreamProcessor (stream_processor/pipeline.py, main.py) with the Kafka  *)
(* consumer it drives (consumer/kafka_consumer.py): one consumer thread    *)
(* fills a bounded queue, worker threads take messages from it, hand rows  *)
(* to the batch writer and publish features, a writer thread flushes every *)
(* five seconds, and the main thread shuts all of it down on a signal.     *)
(* A crash loses the process; the committed offset and the tables survive. *)
(*                                                                         *)
(* The lists of the batch writer have no lock, so any thread's call of the *)
(* writer interleaves with the others': a list is tested, inserted and     *)
(* cleared in steps of their own.  TimescaleWriter has the connections and *)
(* pages within these steps; here the rows of an insert are those the list *)
(* holds when execute_values has read its last page.                       *)
(***************************************************************************)
EXTENDS Integers, Sequences, FiniteSets

CONSTANTS Workers,      \* the worker threads
          Log,          \* the kinds of the messages in the topic, by offset
          QueueSize,    \* input_buffer_size: capacity of input_queue
          BatchSize,    \* batch_size of the writer
          CommitBatch,  \* batch_size of consume: messages between two commits
          MaxSignals,   \* bound: signals sent to the process
          MaxCrashes,   \* bound: crashes, each followed by a restart
          MaxFaults     \* bound: failures of the database, of Kafka and of the features

(* "reading": complete.  "featureless": no feature comes out of it.        *)
(* "incomplete": no equipment_id or timestamp, or one that does not parse. *)
(* "garbled": not JSON, so the deserializer of the Kafka client raises.    *)
Kind == {"reading", "featureless", "incomplete", "garbled"}

ASSUME ProcessorAssumption ==
    /\ IsFiniteSet(Workers) /\ Workers \cap {"writer", "main"} = {}
    /\ Log \in Seq(Kind)
    /\ QueueSize \in Nat \ {0}
    /\ BatchSize \in Nat \ {0}
    /\ CommitBatch \in Nat \ {0}
    /\ MaxSignals \in Nat
    /\ MaxCrashes \in Nat
    /\ MaxFaults \in Nat

Table  == {"sensor_readings", "engineered_features"}
Offset == 1 .. Len(Log)
NoMsg  == 0
Thread == Workers \cup {"writer", "main"}   \* the threads that call the writer

VARIABLES
    position,    \* the consumer's position: the next offset it reads
    committed,   \* the offset the group committed
    sinceCommit, \* length of message_buffer in consume
    consumer,    \* where the consumer thread is
    inputQueue,  \* input_queue, by offset
    unfinished,  \* unfinished_tasks of input_queue
    at,          \* where each worker is
    msg,         \* the message each worker holds
    writer,      \* where the writer thread is
    main,        \* where the main thread is
    running,     \* self.running
    call,        \* where each thread is in a call of the writer
    list,        \* the list that call is at
    pending,     \* the writer's lists, by row
    poolOpen,    \* the writer's pool is not closed
    producer,    \* the publisher's Kafka producer
    stored,      \* copies of each row in each table
    published,   \* offsets whose features were handed to the producer
    handled,     \* history: offsets whose task_done ran in this process
    earlier,     \* history: offsets handled by earlier processes
    startAt,     \* history: the position this process started from
    drained,     \* history: offsets taken from Kafka before the join of stop() returned
    late,        \* history: rows appended while another thread was about to clear their list
    here,        \* history: rows this process stored
    uncleared,   \* history: rows this process stored in a flush that never came to clear()
    signals, crashes, faults

kafkaVars  == <<position, committed, sinceCommit, consumer>>
queueVars  == <<inputQueue, unfinished>>
workerVars == <<at, msg>>
mainVars   == <<main, running, drained, signals>>
rowVars    == <<pending, stored, late, here, uncleared>>
tableVars  == <<call, list, pending, stored, late, here, uncleared>>
history    == <<earlier, startAt>>
vars == <<kafkaVars, queueVars, workerVars, writer, mainVars, tableVars, poolOpen,
          producer, published, handled, history, crashes, faults>>

Idle == [w \in Workers |-> "loop"]
Free == [w \in Workers |-> NoMsg]
Out  == [t \in Thread |-> "out"]
None == [tb \in Table |-> {}]

(* The Kafka clients may fail to initialise: then there is no consumer, or *)
(* no producer.                                                            *)
Init ==
    /\ position = 1 /\ committed = 1 /\ startAt = 1
    /\ sinceCommit = 0
    /\ consumer \in {"poll", "closed"}
    /\ inputQueue = <<>> /\ unfinished = 0
    /\ at = Idle /\ msg = Free
    /\ writer = "loop"
    /\ main = "serving" /\ running = TRUE
    /\ call = Out /\ list = [t \in Thread |-> "sensor_readings"]
    /\ pending = None /\ late = None /\ here = None /\ uncleared = None
    /\ poolOpen = TRUE
    /\ producer \in {"open", "none"}
    /\ stored = [tb \in Table |-> [i \in Offset |-> 0]]
    /\ published = {} /\ handled = {} /\ earlier = {} /\ drained = {}
    /\ signals = 0 /\ crashes = 0 /\ faults = 0

-------------------------------------------------------------------------------
(* The consumer thread *)

(* The client returns the next message and moves its position past it;     *)
(* consume hands it to the callback.                                       *)
Poll ==
    /\ consumer = "poll"
    /\ position \in Offset
    /\ Log[position] # "garbled"
    /\ position' = position + 1
    /\ consumer' = "put"
    /\ UNCHANGED <<committed, sinceCommit, queueVars, workerVars, writer, mainVars,
                   tableVars, poolOpen, producer, published, handled, history, crashes,
                   faults>>

(* A slip a change to this code could make; the specification does not use it. *)
CallbackReturnsTrue == TRUE

(* The callback of consumer_thread has no return statement. *)
CallbackReturns == FALSE

(* A slip a change to this code could make; the specification does not use it. *)
PutNeverBlocks(intervalUp) ==
    /\ consumer = "put"
    /\ inputQueue' = Append(inputQueue, position - 1)
    /\ unfinished' = unfinished + 1
    /\ consumer' = "poll"
    /\ UNCHANGED <<position, committed, sinceCommit, workerVars, writer, mainVars,
                   tableVars, poolOpen, producer, published, handled, history, crashes,
                   faults>>

(* put blocks while the queue is full.  consume then commits the client's  *)
(* position if message_buffer has reached its batch or its interval is up. *)
Put(intervalUp) ==
    /\ consumer = "put"
    /\ Len(inputQueue) < QueueSize
    /\ inputQueue' = Append(inputQueue, position - 1)
    /\ unfinished' = unfinished + 1
    /\ consumer' = "poll"
    /\ LET buffered == IF CallbackReturns THEN sinceCommit + 1 ELSE sinceCommit
       IN  IF buffered > 0 /\ (buffered >= CommitBatch \/ intervalUp)
           THEN committed' = position /\ sinceCommit' = 0
           ELSE UNCHANGED committed /\ sinceCommit' = buffered
    /\ UNCHANGED <<position, workerVars, writer, mainVars, tableVars, poolOpen, producer,
                   published, handled, history, crashes, faults>>

(* The iterator raises, on a message it cannot deserialize or on a Kafka   *)
(* error; that ends the loop of consume, whose finally block commits the   *)
(* position, if Kafka lets it, and closes the client.                      *)
ConsumerEnds(kafkaError) ==
    /\ consumer = "poll"
    /\ \/ kafkaError /\ faults < MaxFaults
       \/ ~kafkaError /\ position \in Offset /\ Log[position] = "garbled"
    /\ consumer' = "closed"
    /\ committed' \in IF kafkaError THEN {committed, position} ELSE {position}
    /\ faults' = IF kafkaError THEN faults + 1 ELSE faults
    /\ UNCHANGED <<position, sinceCommit, queueVars, workerVars, writer, mainVars,
                   tableVars, poolOpen, producer, published, handled, history, crashes>>

-------------------------------------------------------------------------------
(* A call of the batch writer by thread t *)

Clearing(tb) == \E t \in Thread : call[t] = "clear" /\ list[t] = tb

AddCopies(tb, rows) == [i \in Offset |-> IF i \in rows THEN stored[tb][i] + 1 ELSE stored[tb][i]]

(* A row joins a table's list; the length of the list is tested next. *)
AppendRow(t, tb, i) ==
    /\ call' = [call EXCEPT ![t] = "check"]
    /\ list' = [list EXCEPT ![t] = tb]
    /\ pending' = [pending EXCEPT ![tb] = @ \cup {i}]
    /\ late' = IF Clearing(tb) THEN [late EXCEPT ![tb] = @ \cup {i}] ELSE late
    /\ UNCHANGED <<stored, here, uncleared>>

(* flush_all goes through both lists, from the first. *)
FlushAll(t) ==
    /\ call' = [call EXCEPT ![t] = "check"]
    /\ list' = [list EXCEPT ![t] = "sensor_readings"]
    /\ UNCHANGED rowVars

Returns(t) ==
    /\ call' = [call EXCEPT ![t] = "out"]
    /\ list' = [list EXCEPT ![t] = "sensor_readings"]

(* A flush is over: flush_all goes on with the next list. *)
FlushEnds(t) ==
    IF t \in Workers \/ list[t] = "engineered_features"
    THEN Returns(t)
    ELSE /\ call' = [call EXCEPT ![t] = "check"]
         /\ list' = [list EXCEPT ![t] = "engineered_features"]

(* A write flushes a list that is full, flush_all one that is not empty. *)
ToFlush(t) ==
    IF t \in Workers THEN Cardinality(pending[list[t]]) >= BatchSize ELSE pending[list[t]] # {}

Check(t) ==
    /\ call[t] = "check"
    /\ IF ToFlush(t)
       THEN call' = [call EXCEPT ![t] = "insert"] /\ UNCHANGED list
       ELSE FlushEnds(t)
    /\ UNCHANGED <<kafkaVars, queueVars, workerVars, writer, mainVars, rowVars, poolOpen,
                   producer, published, handled, history, crashes, faults>>

(* The rows get into the table. *)
InsertRows(tb) ==
    /\ stored' = [stored EXCEPT ![tb] = AddCopies(tb, pending[tb])]
    /\ here' = [here EXCEPT ![tb] = @ \cup pending[tb]]

Insert(t) ==
    /\ call[t] = "insert"
    /\ poolOpen
    /\ InsertRows(list[t])
    /\ call' = [call EXCEPT ![t] = "clear"]
    /\ UNCHANGED <<kafkaVars, queueVars, workerVars, writer, mainVars, list, pending, late,
                   uncleared, poolOpen, producer, published, handled, history, crashes,
                   faults>>

(* The caller of a flush that raised: process_message counts an error and  *)
(* leaves the rest of the message out, stop() is left, close() logs it and *)
(* does not close the pool, and the writer thread logs it.                 *)
CallerCatches(t) ==
    /\ at' = IF t \in Workers THEN [at EXCEPT ![t] = "done"] ELSE at
    /\ main' = IF t = "main" THEN (IF main = "closePool" THEN "closeProducer" ELSE "leave")
               ELSE main

(* The flush fails: without a connection, in the insert or in the commit,  *)
(* which may have taken effect.  Its rollback may raise as well, as it     *)
(* does on a connection that closing the pool closed.                      *)
InsertFails(t, applied, raises) ==
    /\ call[t] = "insert"
    /\ applied => poolOpen
    /\ poolOpen => faults < MaxFaults
    /\ faults' = IF poolOpen THEN faults + 1 ELSE faults
    /\ IF applied
       THEN /\ InsertRows(list[t])
            /\ uncleared' = [uncleared EXCEPT ![list[t]] = @ \cup pending[list[t]]]
       ELSE UNCHANGED <<stored, here, uncleared>>
    /\ IF raises THEN Returns(t) /\ CallerCatches(t) ELSE FlushEnds(t) /\ UNCHANGED <<at, main>>
    /\ UNCHANGED <<kafkaVars, queueVars, msg, writer, running, drained, signals, pending,
                   late, poolOpen, producer, published, handled, history, crashes>>

(* A slip a change to this code could make; the specification does not use it. *)
FlushWithoutClear(t) ==
    /\ call[t] = "clear"
    /\ FlushEnds(t)
    /\ UNCHANGED <<kafkaVars, queueVars, workerVars, writer, mainVars, rowVars, poolOpen,
                   producer, published, handled, history, crashes, faults>>

(* clear() empties the list, whatever it holds by now. *)
Clear(t) ==
    /\ call[t] = "clear"
    /\ pending' = [pending EXCEPT ![list[t]] = {}]
    /\ FlushEnds(t)
    /\ UNCHANGED <<kafkaVars, queueVars, workerVars, writer, mainVars, stored, late, here,
                   uncleared, poolOpen, producer, published, handled, history, crashes,
                   faults>>

-------------------------------------------------------------------------------
(* A worker thread *)

Goto(w, where) == at' = [at EXCEPT ![w] = where]

(* "while self.running" *)
CheckRunning(w) ==
    /\ at[w] = "loop"
    /\ Goto(w, IF running THEN "get" ELSE "exited")
    /\ UNCHANGED <<kafkaVars, queueVars, msg, writer, mainVars, tableVars, poolOpen,
                   producer, published, handled, history, crashes, faults>>

(* A slip a change to this code could make; the specification does not use it. *)
TakeThenCheck(w) ==
    /\ at[w] = "get"
    /\ inputQueue # <<>>
    /\ inputQueue' = Tail(inputQueue)
    /\ msg' = IF running THEN [msg EXCEPT ![w] = Head(inputQueue)] ELSE msg
    /\ unfinished' = IF running THEN unfinished ELSE unfinished - 1
    /\ Goto(w, IF running THEN "validate" ELSE "exited")
    /\ UNCHANGED <<kafkaVars, writer, mainVars, tableVars, poolOpen, producer, published,
                   handled, history, crashes, faults>>

Take(w) ==
    /\ at[w] = "get"
    /\ inputQueue # <<>>
    /\ msg' = [msg EXCEPT ![w] = Head(inputQueue)]
    /\ inputQueue' = Tail(inputQueue)
    /\ Goto(w, "validate")
    /\ UNCHANGED <<kafkaVars, unfinished, writer, mainVars, tableVars, poolOpen,
                   producer, published, handled, history, crashes, faults>>

(* get(timeout=1) raises Empty. *)
GetTimesOut(w) ==
    /\ at[w] = "get"
    /\ inputQueue = <<>>
    /\ Goto(w, "loop")
    /\ UNCHANGED <<kafkaVars, queueVars, msg, writer, mainVars, tableVars, poolOpen,
                   producer, published, handled, history, crashes, faults>>

(* A slip a change to this code could make; the specification does not use it. *)
RejectEndsThread(w) ==
    /\ at[w] = "validate"
    /\ Log[msg[w]] = "incomplete"
    /\ Goto(w, "exited")
    /\ UNCHANGED <<kafkaVars, queueVars, msg, writer, mainVars, tableVars, poolOpen,
                   producer, published, handled, history, crashes, faults>>

Reject(w) ==
    /\ at[w] = "validate"
    /\ Log[msg[w]] = "incomplete"
    /\ Goto(w, "done")
    /\ UNCHANGED <<kafkaVars, queueVars, msg, writer, mainVars, tableVars, poolOpen,
                   producer, published, handled, history, crashes, faults>>

(* write_sensor_reading *)
WriteReading(w) ==
    /\ at[w] = "validate"
    /\ Log[msg[w]] # "incomplete"
    /\ AppendRow(w, "sensor_readings", msg[w])
    /\ Goto(w, "extract")
    /\ UNCHANGED <<kafkaVars, queueVars, msg, writer, mainVars, poolOpen, producer,
                   published, handled, history, crashes, faults>>

(* The extractors share rolling buffers between the workers and may raise. *)
ExtractFails(w) ==
    /\ at[w] = "extract" /\ call[w] = "out"
    /\ faults < MaxFaults
    /\ faults' = faults + 1
    /\ Goto(w, "done")
    /\ UNCHANGED <<kafkaVars, queueVars, msg, writer, mainVars, tableVars, poolOpen,
                   producer, published, handled, history, crashes>>

(* "if all_features": without any the message counts as processed. *)
NoFeatures(w) ==
    /\ at[w] = "extract" /\ call[w] = "out"
    /\ Log[msg[w]] = "featureless"
    /\ Goto(w, "done")
    /\ UNCHANGED <<kafkaVars, queueVars, msg, writer, mainVars, tableVars, poolOpen,
                   producer, published, handled, history, crashes, faults>>

(* write_processed_features *)
WriteFeatures(w) ==
    /\ at[w] = "extract" /\ call[w] = "out"
    /\ Log[msg[w]] = "reading"
    /\ AppendRow(w, "engineered_features", msg[w])
    /\ Goto(w, "publish")
    /\ UNCHANGED <<kafkaVars, queueVars, msg, writer, mainVars, poolOpen, producer,
                   published, handled, history, crashes, faults>>

(* publish_features only sends, and does nothing without a producer; what  *)
(* a closed one raises is caught, by the publisher or by process_message.  *)
Publish(w) ==
    /\ at[w] = "publish" /\ call[w] = "out"
    /\ published' = IF producer = "open" THEN published \cup {msg[w]} ELSE published
    /\ Goto(w, "done")
    /\ UNCHANGED <<kafkaVars, queueVars, msg, writer, mainVars, tableVars, poolOpen,
                   producer, handled, history, crashes, faults>>

(* A slip a change to this code could make; the specification does not use it. *)
TaskDoneForgotten(w) ==
    /\ at[w] = "done"
    /\ handled' = handled \cup {msg[w]}
    /\ msg' = [msg EXCEPT ![w] = NoMsg]
    /\ Goto(w, "loop")
    /\ UNCHANGED <<kafkaVars, queueVars, writer, mainVars, tableVars, poolOpen, producer,
                   published, history, crashes, faults>>

TaskDone(w) ==
    /\ at[w] = "done"
    /\ unfinished' = unfinished - 1
    /\ handled' = handled \cup {msg[w]}
    /\ msg' = [msg EXCEPT ![w] = NoMsg]
    /\ Goto(w, "loop")
    /\ UNCHANGED <<kafkaVars, inputQueue, writer, mainVars, tableVars, poolOpen,
                   producer, published, history, crashes, faults>>

-------------------------------------------------------------------------------
(* The writer thread *)

WriterChecks ==
    /\ writer = "loop" /\ call["writer"] = "out"
    /\ writer' = IF running THEN "sleep" ELSE "exited"
    /\ UNCHANGED <<kafkaVars, queueVars, workerVars, mainVars, tableVars, poolOpen,
                   producer, published, handled, history, crashes, faults>>

WriterFlushes ==
    /\ writer = "sleep"
    /\ FlushAll("writer")
    /\ writer' = "loop"
    /\ UNCHANGED <<kafkaVars, queueVars, workerVars, mainVars, poolOpen, producer,
                   published, handled, history, crashes, faults>>

-------------------------------------------------------------------------------
(* The main thread *)

(* The handler of main.py runs stop() on the main thread. *)
Signal ==
    /\ signals < MaxSignals
    /\ signals' = signals + 1
    /\ main = "serving" /\ main' = "join" /\ running' = FALSE
    /\ UNCHANGED <<kafkaVars, queueVars, workerVars, writer, drained, tableVars,
                   poolOpen, producer, published, handled, history, crashes, faults>>

(* A second signal finds running false, so its stop() returns at once, and *)
(* the SystemExit it raises leaves the stop() it interrupted where it is,  *)
(* which may be between the commit of a flush and its clear().             *)
SecondSignal ==
    /\ signals < MaxSignals
    /\ signals' = signals + 1
    /\ main \in {"join", "flush", "flushProducer", "close", "closePool", "closeProducer"}
    /\ main' = "leave"
    /\ Returns("main")
    /\ LET tb == list["main"]
       IN  uncleared' = IF call["main"] = "clear"
                        THEN [uncleared EXCEPT ![tb] = @ \cup pending[tb]] ELSE uncleared
    /\ UNCHANGED <<kafkaVars, queueVars, workerVars, writer, running, drained, pending,
                   stored, late, here, poolOpen, producer, published, handled, history,
                   crashes, faults>>

Taken == (startAt .. position - 1) \ (IF consumer = "put" THEN {position - 1} ELSE {})

(* A slip a change to this code could make; the specification does not use it. *)
JoinOnEmptyQueue ==
    /\ main = "join"
    /\ inputQueue = <<>>
    /\ main' = "flush"
    /\ drained' = Taken
    /\ UNCHANGED <<kafkaVars, queueVars, workerVars, writer, running, signals, tableVars,
                   poolOpen, producer, published, handled, history, crashes, faults>>

(* input_queue.join() *)
Join ==
    /\ main = "join"
    /\ unfinished = 0
    /\ main' = "flush"
    /\ drained' = Taken
    /\ UNCHANGED <<kafkaVars, queueVars, workerVars, writer, running, signals, tableVars,
                   poolOpen, producer, published, handled, history, crashes, faults>>

ProducerMayFail(fails) ==
    /\ fails => producer = "open" /\ faults < MaxFaults
    /\ faults' = IF fails THEN faults + 1 ELSE faults

(* The final flush; a rollback that raises in it leaves stop(). *)
FinalFlush ==
    /\ main = "flush"
    /\ FlushAll("main")
    /\ main' = "flushProducer"
    /\ UNCHANGED <<kafkaVars, queueVars, workerVars, writer, running, drained, signals,
                   poolOpen, producer, published, handled, history, crashes, faults>>

(* So does a producer that cannot be flushed in time. *)
FlushProducer(fails) ==
    /\ main = "flushProducer" /\ call["main"] = "out"
    /\ ProducerMayFail(fails)
    /\ main' = IF fails THEN "leave" ELSE "close"
    /\ UNCHANGED <<kafkaVars, queueVars, workerVars, writer, running, drained, signals,
                   tableVars, poolOpen, producer, published, handled, history, crashes>>

(* writer.close() flushes once more and then closes the pool. *)
CloseWriter ==
    /\ main = "close"
    /\ FlushAll("main")
    /\ main' = "closePool"
    /\ UNCHANGED <<kafkaVars, queueVars, workerVars, writer, running, drained, signals,
                   poolOpen, producer, published, handled, history, crashes, faults>>

ClosePool ==
    /\ main = "closePool" /\ call["main"] = "out"
    /\ poolOpen' = FALSE
    /\ main' = "closeProducer"
    /\ UNCHANGED <<kafkaVars, queueVars, workerVars, writer, running, drained, signals,
                   tableVars, producer, published, handled, history, crashes, faults>>

(* publisher.close() flushes first. *)
CloseProducer(fails) ==
    /\ main = "closeProducer"
    /\ ProducerMayFail(fails)
    /\ producer' = IF producer = "open" /\ ~fails THEN "closed" ELSE producer
    /\ main' = "leave"
    /\ UNCHANGED <<kafkaVars, queueVars, workerVars, writer, running, drained, signals,
                   tableVars, poolOpen, published, handled, history, crashes>>

(* The executor's "with" block ends when every thread has. *)
Leave ==
    /\ main = "leave"
    /\ consumer = "closed"
    /\ writer = "exited"
    /\ \A w \in Workers : at[w] = "exited"
    /\ main' = "gone"
    /\ UNCHANGED <<kafkaVars, queueVars, workerVars, writer, running, drained, signals,
                   tableVars, poolOpen, producer, published, handled, history, crashes,
                   faults>>

(* The process dies, or has ended, and a new one starts from the committed offset. *)
Restart ==
    /\ crashes < MaxCrashes
    /\ crashes' = crashes + 1
    /\ earlier' = earlier \cup handled
    /\ position' = committed /\ startAt' = committed
    /\ sinceCommit' = 0
    /\ consumer' \in {"poll", "closed"}
    /\ inputQueue' = <<>> /\ unfinished' = 0
    /\ at' = Idle /\ msg' = Free
    /\ writer' = "loop"
    /\ main' = "serving" /\ running' = TRUE
    /\ call' = Out /\ list' = [t \in Thread |-> "sensor_readings"]
    /\ pending' = None /\ late' = None /\ here' = None /\ uncleared' = None
    /\ poolOpen' = TRUE
    /\ producer' \in {"open", "none"}
    /\ handled' = {} /\ drained' = {} /\ signals' = 0
    /\ UNCHANGED <<committed, stored, published, faults>>

-------------------------------------------------------------------------------
ConsumerStep == Poll \/ (\E up \in BOOLEAN : Put(up)) \/ ConsumerEnds(FALSE)

CallStep(t) ==
    \/ Check(t) \/ Insert(t) \/ Clear(t)
    \/ \E applied, raises \in BOOLEAN : InsertFails(t, applied, raises)

WorkerStep(w) ==
    \/ CheckRunning(w) \/ Take(w) \/ GetTimesOut(w) \/ Reject(w)
    \/ WriteReading(w) \/ ExtractFails(w) \/ NoFeatures(w) \/ WriteFeatures(w)
    \/ Publish(w) \/ TaskDone(w)
    \/ CallStep(w)

WriterStep == WriterChecks \/ WriterFlushes \/ CallStep("writer")

MainStep ==
    \/ Join \/ FinalFlush \/ CloseWriter \/ ClosePool
    \/ \E fails \in BOOLEAN : FlushProducer(fails) \/ CloseProducer(fails)
    \/ Leave
    \/ CallStep("main")

Next ==
    \/ ConsumerStep
    \/ ConsumerEnds(TRUE)
    \/ \E w \in Workers : WorkerStep(w)
    \/ WriterStep
    \/ MainStep
    \/ Signal \/ SecondSignal
    \/ Restart

(* Threads that can run do; signals, crashes and failures need not happen. *)
Fairness ==
    /\ WF_vars(ConsumerStep)
    /\ \A w \in Workers : WF_vars(WorkerStep(w))
    /\ WF_vars(WriterStep)
    /\ WF_vars(MainStep)

Spec == Init /\ [][Next]_vars
FairSpec == Spec /\ Fairness

-------------------------------------------------------------------------------
(* Properties *)

Elements(seq) == {seq[k] : k \in 1 .. Len(seq)}

(* Every variable has its type, and the queue its bound. *)
TypeOK ==
    /\ position \in 1 .. Len(Log) + 1
    /\ committed \in 1 .. Len(Log) + 1
    /\ sinceCommit \in Nat
    /\ consumer \in {"poll", "put", "closed"}
    /\ inputQueue \in Seq(Offset) /\ Len(inputQueue) <= QueueSize
    /\ unfinished \in Nat
    /\ at \in [Workers -> {"loop", "get", "validate", "extract", "publish", "done", "exited"}]
    /\ msg \in [Workers -> Offset \cup {NoMsg}]
    /\ writer \in {"loop", "sleep", "exited"}
    /\ main \in {"serving", "join", "flush", "flushProducer", "close", "closePool",
                 "closeProducer", "leave", "gone"}
    /\ running \in BOOLEAN
    /\ call \in [Thread -> {"out", "check", "insert", "clear"}]
    /\ list \in [Thread -> Table]
    /\ pending \in [Table -> SUBSET Offset]
    /\ late \in [Table -> SUBSET Offset]
    /\ here \in [Table -> SUBSET Offset]
    /\ uncleared \in [Table -> SUBSET Offset]
    /\ poolOpen \in BOOLEAN
    /\ producer \in {"open", "closed", "none"}
    /\ stored \in [Table -> [Offset -> Nat]]
    /\ published \in SUBSET Offset
    /\ handled \in SUBSET Offset
    /\ earlier \in SUBSET Offset
    /\ startAt \in 1 .. Len(Log) + 1
    /\ drained \in SUBSET Offset
    /\ signals \in Nat /\ crashes \in Nat /\ faults \in Nat

Busy == {w \in Workers : msg[w] # NoMsg}

(* unfinished_tasks, on which join waits, counts the messages in the queue *)
(* and those a worker has taken, through every way process_message ends.   *)
TaskAccounting == unfinished = Len(inputQueue) + Cardinality(Busy)

InHand(i)   == consumer = "put" /\ i = position - 1
InFlight(i) == InHand(i) \/ i \in Elements(inputQueue) \/ \E w \in Workers : msg[w] = i

(* A message the process read from Kafka is in the consumer's hand, in the *)
(* queue or with a worker until its task is done, also while it stops.     *)
NoMessageDropped == \A i \in startAt .. position - 1 : InFlight(i) \/ i \in handled

(* After a stop that closed the writer, with no failure, everything taken  *)
(* from Kafka before the join returned is in its tables, and its features  *)
(* went to the producer if there is one.  The only rows missing are those  *)
(* a worker appended while another thread was about to clear their list.   *)
CleanStopStores ==
    ~poolOpen /\ faults = 0 =>
        \A i \in drained :
            /\ Log[i] # "incomplete" =>
                   stored["sensor_readings"][i] > 0 \/ i \in late["sensor_readings"]
            /\ Log[i] = "reading" =>
                   /\ stored["engineered_features"][i] > 0 \/ i \in late["engineered_features"]
                   /\ (producer # "none" => i \in published)

(* A process stores a row once more only while another thread that stored  *)
(* it has not cleared the list yet, or after a flush that stored it never  *)
(* came to clear it: its commit was reported as failed, or a signal ended  *)
(* it.  Nothing else repeats a row, however the flushes of the workers, of *)
(* the writer thread and of the shutdown interleave and fail.              *)
StoredAgainOnlyUncleared ==
    [][\A tb \in Table : \A i \in here[tb] :
          stored'[tb][i] > stored[tb][i] => i \in uncleared[tb] \/ Clearing(tb)]_vars

Skipped(i) == i < committed /\ i \notin handled \cup earlier /\ ~InFlight(i)

(* A committed message that was never handled was lost by a crash after    *)
(* the loop of consume had ended and committed what was still in flight.   *)
SkippedOnlyAfterLoopEnded ==
    [][\A i \in Offset :
          ~Skipped(i) /\ Skipped(i)' => crashes' = crashes + 1 /\ consumer = "closed"]_vars

(* While the process runs, no message stays in flight for ever: neither a  *)
(* full queue nor a message that fails stops the threads.                  *)
NoMessageStuck == \A i \in Offset : []<>(~InFlight(i) \/ ~running)

(* "Wait for queue to empty" (pipeline.py:346): the join of stop() returns. *)
JoinReturns == main = "join" ~> main # "join"

(* The callback returns nothing, so no message counts as processed, and    *)
(* batch_size, the "Number of messages to process before committing"       *)
(* (kafka_consumer.py:86), never matters: while a process consumes, its    *)
(* offset stays where it started.                                          *)
NothingCommittedInLoop == consumer # "closed" => sinceCommit = 0 /\ committed = startAt
===============================================================================
